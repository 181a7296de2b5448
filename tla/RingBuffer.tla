----------------------------- MODULE RingBuffer -----------------------------
(***************************************************************************)
(* RingBuffer of internal/sys/ring.go, which keeps the logs and the CPU,   *)
(* memory and disk histories.  Add and Flush hold the lock and Get holds   *)
(* the read lock from the first to the last statement, so each is a step.  *)
(* Len reads without the lock; nothing calls it.                           *)
(***************************************************************************)
EXTENDS Integers, Sequences

CONSTANTS
  Items,            \* what is added
  Zero,             \* the zero value that make leaves in the slice
  Capacity,
  MaxAsked          \* bound: the most entries a reader asks for

ASSUME ZeroAssumption     == Zero \notin Items
ASSUME CapacityAssumption == Capacity \in Nat \ {0}
ASSUME MaxAskedAssumption == MaxAsked \in Nat

VARIABLES
  elements, idx, length,
  got               \* what the last Get returned

ring == <<elements, idx, length>>
vars == <<ring, got>>

NewRingBuffer == elements = [i \in 0..(Capacity - 1) |-> Zero] /\ idx = 0 /\ length = 0

Smaller(a, b) == IF a < b THEN a ELSE b

\* Bug: the length passes the capacity.
AddUncapped(item) ==
  /\ elements' = [elements EXCEPT ![idx] = item]
  /\ idx' = (idx + 1) % Capacity
  /\ length' = length + 1
  /\ UNCHANGED got

Add(item) ==
  /\ elements' = [elements EXCEPT ![idx] = item]
  /\ idx' = (idx + 1) % Capacity
  /\ length' = Smaller(Capacity, length + 1)
  /\ UNCHANGED got

Flush ==
  /\ elements' = [i \in 0..(Capacity - 1) |-> Zero]
  /\ idx' = 0 /\ length' = 0
  /\ UNCHANGED got

\* Bug: the slot before the first is not the last.
SlotUnwrapped(back) == IF idx - back < 0 THEN 0 ELSE idx - back

\* The slot written back additions ago.
Slot(back) == IF idx - back < 0 THEN Capacity + (idx - back) ELSE idx - back

\* The n newest, oldest first.
Newest(n) == [i \in 1..n |-> elements[Slot(n - i + 1)]]

Get(n) == got' = Newest(Smaller(n, length)) /\ UNCHANGED ring

Init == NewRingBuffer /\ got = <<>>

Next ==
  \/ \E item \in Items : Add(item)
  \/ Flush
  \/ \E n \in 0..MaxAsked : Get(n)

Spec == Init /\ [][Next]_vars

-----------------------------------------------------------------------------

\* The fields of the buffer fit together and no reader sees a zero value.
TypeOK ==
  /\ elements \in [0..(Capacity - 1) -> Items \cup {Zero}]
  /\ idx \in 0..(Capacity - 1) /\ length \in 0..Capacity
  /\ got \in Seq(Items)

Recent == INSTANCE RecentEntries WITH entries <- Newest(length)

\* Through every wrap-around and flush, Get returns the newest entries in the
\* order they were added (Add, Get, Flush).
KeepsRecentEntries == Recent!Spec
=============================================================================
