--------------------------- MODULE RecentEntries ---------------------------
(***************************************************************************)
(* What a history of bounded size promises: it keeps the newest entries in *)
(* the order they came, and a reader gets the newest n of them.            *)
(***************************************************************************)
EXTENDS Naturals, Sequences

CONSTANTS Items, Capacity

VARIABLES
  entries,          \* what is kept, oldest first
  got               \* what the last reader got

Last(s, n) == SubSeq(s, Len(s) - n + 1, Len(s))

Init == entries = <<>> /\ got = <<>>

Add(item) ==
  /\ entries' = IF Len(entries) < Capacity THEN Append(entries, item)
                ELSE Append(Tail(entries), item)
  /\ UNCHANGED got

Flush == entries' = <<>> /\ UNCHANGED got

Get(n) == got' = Last(entries, n) /\ UNCHANGED entries

Next ==
  \/ \E item \in Items : Add(item)
  \/ Flush
  \/ \E n \in 0..Len(entries) : Get(n)

Spec == Init /\ [][Next]_<<entries, got>>
=============================================================================
