--------------------------- MODULE HistoryProofs ---------------------------
(***************************************************************************)
(* RingBuffer keeps its fields in step and implements RecentEntries, for   *)
(* every capacity and every set of items: the slots move by modular        *)
(* arithmetic only in WrapAround; all else follows from where Slot points. *)
(*                                                                         *)
(* The resource history uses its buffer as RingBuffer allows, so the same  *)
(* holds of it; and the peak in an answer covers the memory samples beside *)
(* it.  The argument: what is older than the newest sample is no more than *)
(* the peak was when the newest was added, and a reader that took the lock *)
(* of the buffer sees at least that.                                       *)
(***************************************************************************)
EXTENDS History, SequenceTheorems, TLAPS

-----------------------------------------------------------------------------
(* The ring buffer, whatever its items.                                    *)

\* The slots that count hold items.
Filled == \A back \in 1..length : elements[Slot(back)] \in Items

IInv == TypeOK /\ Filled

\* The remainder in Add is one more, or zero at the end of the slice.
LEMMA WrapAround ==
  ASSUME NEW i \in 0..(Capacity - 1)
  PROVE  (i + 1) % Capacity = IF i + 1 = Capacity THEN 0 ELSE i + 1
BY CapacityAssumption, SMT

\* A slot is in the slice.
LEMMA SlotInRange ==
  ASSUME TypeOK, NEW back \in 1..Capacity
  PROVE  Slot(back) \in 0..(Capacity - 1)
BY CapacityAssumption, SMT DEF TypeOK, Slot

\* Add writes the newest slot and moves every other one back by one place.
LEMMA AddShifts ==
  ASSUME TypeOK, NEW item \in Items, Add(item)
  PROVE  /\ idx' \in 0..(Capacity - 1)
         /\ elements'[Slot(1)'] = item
         /\ \A back \in 2..Capacity : elements'[Slot(back)'] = elements[Slot(back - 1)]
<1>1. idx \in 0..(Capacity - 1) /\ elements \in [0..(Capacity - 1) -> Items \cup {Zero}]
  BY DEF TypeOK
<1>2. idx' = IF idx + 1 = Capacity THEN 0 ELSE idx + 1
  BY <1>1, WrapAround DEF Add
<1>3. idx' \in 0..(Capacity - 1)
  BY <1>1, <1>2, CapacityAssumption, SMT
<1>4. Slot(1)' = idx
  BY <1>1, <1>2, CapacityAssumption, SMT DEF Slot
<1>5. elements'[Slot(1)'] = item
  BY <1>1, <1>4 DEF Add
<1>6. ASSUME NEW back \in 2..Capacity
      PROVE  elements'[Slot(back)'] = elements[Slot(back - 1)]
  <2>1. back - 1 \in 1..Capacity
    BY CapacityAssumption, SMT
  <2>2. Slot(back - 1) \in 0..(Capacity - 1)
    BY <2>1, SlotInRange
  <2>3. Slot(back)' = Slot(back - 1) /\ Slot(back - 1) # idx
    BY <1>1, <1>2, CapacityAssumption, SMT DEF Slot
  <2> QED
    BY <1>1, <2>2, <2>3 DEF Add
<1> QED
  BY <1>3, <1>5, <1>6

\* What Get returns is a sequence of items.
LEMMA NewestIsSeq ==
  ASSUME TypeOK, Filled, NEW n \in 0..length
  PROVE  Newest(n) \in Seq(Items) /\ Len(Newest(n)) = n /\ DOMAIN Newest(n) = 1..n
<1>1. length \in Nat /\ n \in Nat
  BY CapacityAssumption, SMT DEF TypeOK
<1>2. ASSUME NEW i \in 1..n
      PROVE  elements[Slot(n - i + 1)] \in Items
  <2>1. n - i + 1 \in 1..length
    BY <1>1, SMT
  <2> QED
    BY <2>1 DEF Filled
<1>3. Newest(n) \in [1..n -> Items]
  BY <1>2 DEF Newest
<1> QED
  BY <1>1, <1>3, SMT

LEMMA InitInvariant == Init => IInv
<1> SUFFICES ASSUME Init PROVE IInv
  OBVIOUS
<1>1. elements \in [0..(Capacity - 1) -> Items \cup {Zero}] /\ got \in Seq(Items)
  BY SMT DEF Init, NewRingBuffer
<1>2. idx \in 0..(Capacity - 1) /\ length \in 0..Capacity /\ 1..length = {}
  BY CapacityAssumption, SMT DEF Init, NewRingBuffer
<1> QED
  BY <1>1, <1>2 DEF IInv, TypeOK, Filled

LEMMA StepInvariant == IInv /\ [Next]_vars => IInv'
<1> SUFFICES ASSUME IInv, [Next]_vars PROVE IInv'
  OBVIOUS
<1> USE DEF IInv
<1>1. ASSUME NEW item \in Items, Add(item) PROVE IInv'
  <2>1. length \in 0..Capacity /\ length' = Smaller(Capacity, length + 1)
    BY <1>1 DEF TypeOK, Add
  <2>2. length' \in 0..Capacity /\ \A back \in 2..length' : back \in 2..Capacity /\ back - 1 \in 1..length
    BY <2>1, CapacityAssumption, SMT DEF Smaller
  <2>3. elements' \in [0..(Capacity - 1) -> Items \cup {Zero}] /\ got' \in Seq(Items)
    BY <1>1 DEF TypeOK, Add
  <2>4. TypeOK'
    BY <1>1, <2>2, <2>3, AddShifts DEF TypeOK
  <2>5. ASSUME NEW back \in 1..length' PROVE elements'[Slot(back)'] \in Items
    <3>1. CASE back = 1
      BY <1>1, <3>1, AddShifts
    <3>2. CASE back # 1
      <4>1. back \in 2..length'
        BY <2>2, <3>2, SMT
      <4> QED
        BY <1>1, <2>2, <4>1, AddShifts DEF Filled
    <3> QED
      BY <3>1, <3>2
  <2> QED
    BY <2>4, <2>5 DEF Filled
<1>2. CASE Flush
  <2>1. elements' \in [0..(Capacity - 1) -> Items \cup {Zero}] /\ got' \in Seq(Items)
    BY <1>2 DEF TypeOK, Flush
  <2>2. idx' \in 0..(Capacity - 1) /\ length' \in 0..Capacity /\ 1..length' = {}
    BY <1>2, CapacityAssumption, SMT DEF Flush
  <2> QED
    BY <2>1, <2>2 DEF TypeOK, Filled
<1>3. ASSUME NEW n \in 0..MaxAsked, Get(n) PROVE IInv'
  <2>1. Smaller(n, length) \in 0..length
    BY CapacityAssumption, MaxAskedAssumption, SMT DEF TypeOK, Smaller
  <2>2. got' \in Seq(Items)
    BY <1>3, <2>1, NewestIsSeq DEF Get
  <2> QED
    BY <1>3, <2>2 DEF TypeOK, Filled, Get, ring, Slot
<1>4. CASE UNCHANGED vars
  BY <1>4 DEF TypeOK, Filled, vars, ring, Slot
<1> QED
  BY <1>1, <1>2, <1>3, <1>4 DEF Next

LEMMA Invariant == Spec => []IInv
BY InitInvariant, StepInvariant, PTL DEF Spec

\* The fields of the buffer fit together, and no zero value that make left in
\* the slice ever reaches a reader.
THEOREM RingTypeCorrect == Spec => []TypeOK
<1>1. IInv => TypeOK
  BY DEF IInv
<1> QED
  BY <1>1, Invariant, PTL

-----------------------------------------------------------------------------
(* RingBuffer implements RecentEntries.                                    *)

\* A sequence grown at its end, element by element.
LEMMA Grown ==
  ASSUME NEW S, NEW s \in Seq(S), NEW e \in S
  PROVE  Append(s, e) = [i \in 1..(Len(s) + 1) |-> IF i = Len(s) + 1 THEN e ELSE s[i]]
<1> DEFINE t == [i \in 1..(Len(s) + 1) |-> IF i = Len(s) + 1 THEN e ELSE s[i]]
<1>1. Len(s) \in Nat
  BY LenProperties
<1>2. t \in Seq(S) /\ Len(t) = Len(s) + 1
  <2>1. \A i \in 1..(Len(s) + 1) : t[i] \in S
    BY <1>1, ElementOfSeq
  <2> QED
    BY <1>1, <2>1, IsASeq, SMT
<1>3. Append(s, e) \in Seq(S) /\ Len(Append(s, e)) = Len(s) + 1
  BY AppendProperties
<1>4. \A i \in 1..(Len(s) + 1) : Append(s, e)[i] = t[i]
  BY <1>1, AppendProperties
<1> QED
  BY <1>2, <1>3, <1>4, SeqEqual

\* A sequence that loses its first element and grows at its end.
LEMMA Moved ==
  ASSUME NEW S, NEW s \in Seq(S), s # <<>>, NEW e \in S
  PROVE  Append(Tail(s), e) = [i \in 1..Len(s) |-> IF i = Len(s) THEN e ELSE s[i + 1]]
<1>1. PICK t \in Seq(S) : t = Tail(s)
  BY HeadTailProperties
<1>2. PICK n \in Nat : n = Len(t)
  BY LenProperties
<1>3. Len(s) = n + 1
  <2>1. Len(s) \in Nat /\ n = Len(s) - 1
    BY <1>1, <1>2, HeadTailProperties, LenProperties
  <2> QED
    BY <2>1, SMT
<1>4. \A i \in 1..n : t[i] = s[i + 1]
  BY <1>1, <1>2, HeadTailProperties
<1>5. Append(t, e) = [i \in 1..(n + 1) |-> IF i = n + 1 THEN e ELSE t[i]]
  BY <1>2, Grown
<1>6. \A i \in 1..(n + 1) : i # n + 1 => i \in 1..n
  BY SMT
<1> QED
  BY <1>1, <1>3, <1>4, <1>5, <1>6

LEMMA AddImplements ==
  ASSUME IInv, NEW item \in Items, Add(item)
  PROVE  Recent!Add(item)
<1> DEFINE kept == Newest(length)
<1>1. TypeOK /\ Filled /\ length \in 0..Capacity /\ Capacity \in Nat \ {0}
  BY CapacityAssumption, SMT DEF IInv, TypeOK
<1>2. kept \in Seq(Items) /\ Len(kept) = length
  BY <1>1, NewestIsSeq
<1>3. \A i \in 1..length : kept[i] = elements[Slot(length - i + 1)]
  BY DEF Newest
<1>4. PICK len : len = length'
  OBVIOUS
<1>5. len = Smaller(Capacity, length + 1) /\ len \in 1..Capacity /\ len - 1 \in 0..length
  BY <1>1, <1>4, SMT DEF Add, Smaller
<1>6. kept' = [i \in 1..len |-> elements'[Slot(len - i + 1)']]
  BY <1>4 DEF Newest, Slot
<1>7. ASSUME NEW i \in 1..len
      PROVE  kept'[i] = IF i = len THEN item ELSE kept[length - len + i + 1]
  <2>1. CASE i = len
    <3>1. len - i + 1 = 1
      BY <1>5, <2>1, SMT
    <3> QED
      BY <1>1, <1>6, <2>1, <3>1, AddShifts
  <2>2. CASE i # len
    <3>1. len - i + 1 \in 2..Capacity /\ (len - i + 1) - 1 = len - i
      BY <1>1, <1>5, <2>2, SMT
    <3>2. kept'[i] = elements[Slot(len - i)]
      BY <1>1, <1>6, <3>1, AddShifts
    <3>3. length - len + i + 1 \in 1..length /\ length - (length - len + i + 1) + 1 = len - i
      BY <1>1, <1>5, <2>2, SMT
    <3> QED
      BY <1>3, <2>2, <3>2, <3>3
  <2> QED
    BY <2>1, <2>2
<1> HIDE DEF kept
<1>8. kept' = [i \in 1..len |-> IF i = len THEN item ELSE kept[length - len + i + 1]]
  BY <1>6, <1>7
<1>9. CASE length < Capacity
  <2>1. len = length + 1 /\ \A i \in 1..len : length - len + i + 1 = i
    BY <1>1, <1>5, <1>9, SMT DEF Smaller
  <2>2. kept' = Append(kept, item)
    BY <1>2, <1>8, <2>1, Grown
  <2> QED
    BY <1>2, <1>9, <2>2 DEF Recent!Add, Add, kept
<1>10. CASE ~(length < Capacity)
  <2>1. len = length /\ length # 0 /\ \A i \in 1..len : length - len + i + 1 = i + 1
    BY <1>1, <1>5, <1>10, SMT DEF Smaller
  <2>2. kept # <<>>
    BY <1>2, <2>1, EmptySeq
  <2>3. kept' = Append(Tail(kept), item)
    BY <1>2, <1>8, <2>1, <2>2, Moved
  <2> QED
    BY <1>2, <1>10, <2>3 DEF Recent!Add, Add, kept
<1> QED
  BY <1>9, <1>10

LEMMA GetImplements ==
  ASSUME IInv, NEW n \in 0..MaxAsked, Get(n)
  PROVE  \E m \in 0..Len(Newest(length)) : Recent!Get(m)
<1> DEFINE m == Smaller(n, length)
<1>1. TypeOK /\ Filled /\ length \in Nat /\ m \in 0..length /\ m \in Nat
  BY CapacityAssumption, MaxAskedAssumption, SMT DEF IInv, TypeOK, Smaller
<1>2. Newest(length) \in Seq(Items) /\ Len(Newest(length)) = length
  BY <1>1, NewestIsSeq
<1> HIDE DEF m
<1>3. SubSeq(Newest(length), length - m + 1, length)
        = [i \in 1..m |-> Newest(length)[(length - m + 1) + i - 1]]
  BY <1>1, <1>2, SMT
<1>4. ASSUME NEW i \in 1..m
      PROVE  Newest(length)[(length - m + 1) + i - 1] = elements[Slot(m - i + 1)]
  <2>1. (length - m + 1) + i - 1 \in 1..length
        /\ length - ((length - m + 1) + i - 1) + 1 = m - i + 1
    BY <1>1, SMT
  <2> QED
    BY <2>1 DEF Newest
<1>5. Recent!Last(Newest(length), m) = Newest(m)
  BY <1>2, <1>3, <1>4 DEF Recent!Last, Newest
<1>6. got' = Newest(m) /\ Newest(length)' = Newest(length)
  BY DEF Get, m, ring, Newest, Slot
<1> QED
  BY <1>1, <1>2, <1>5, <1>6 DEF Recent!Get

\* Through every wrap-around and flush the buffer keeps the newest entries,
\* and Get returns the newest of them in the order they were added.
THEOREM RingKeepsRecentEntries == Spec => KeepsRecentEntries
<1>1. Init => Recent!Init
  <2> SUFFICES ASSUME Init PROVE Recent!Init
    OBVIOUS
  <2>1. Newest(length) = <<>>
    BY SMT DEF Init, NewRingBuffer, Newest
  <2> QED
    BY <2>1 DEF Init, Recent!Init
<1>2. IInv /\ [Next]_vars => [Recent!Next]_<<Newest(length), got>>
  <2> SUFFICES ASSUME IInv, [Next]_vars PROVE [Recent!Next]_<<Newest(length), got>>
    OBVIOUS
  <2>1. ASSUME NEW item \in Items, Add(item) PROVE Recent!Next
    BY <2>1, AddImplements DEF Recent!Next
  <2>2. CASE Flush
    <3>1. Newest(length)' = <<>>
      BY <2>2, SMT DEF Flush, Newest
    <3> QED
      BY <2>2, <3>1 DEF Flush, Recent!Next, Recent!Flush
  <2>3. ASSUME NEW n \in 0..MaxAsked, Get(n) PROVE Recent!Next
    BY <2>3, GetImplements DEF Recent!Next
  <2>4. CASE UNCHANGED vars
    BY <2>4 DEF vars, ring, Newest, Slot
  <2> QED
    BY <2>1, <2>2, <2>3, <2>4 DEF Next
<1> QED
  BY <1>1, <1>2, Invariant, PTL DEF Spec, KeepsRecentEntries, Recent!Spec

-----------------------------------------------------------------------------
(* The history: its invariant.                                             *)

\* What the variables hold.
Fields ==
  /\ cpuLength \in Nat /\ peak \in Nat /\ written \subseteq Nat
  /\ settled \in [{"cpu", "mem", "disk"} -> Nat]
  /\ poller \in {"init", "cpu", "mem", "disk", "peak"}
  /\ inUse \in Nat
  /\ at \in {"idle", "cpu", "mem", "disk", "peak", "answered", "panicked"}
  /\ kind \in {"utilization", "cpu", "memory"} /\ limit \in 0..MaxAsked
  /\ shownCpu \in Int /\ floor \in Nat /\ shownPeak \in Nat

\* There is a sample in every buffer once a request can come.
Started ==
  /\ poller = "init" => length = 0
  /\ poller # "init" => cpuLength >= 1 /\ length >= 1
  /\ at # "idle" => poller # "init" /\ limit # 0

Kept(back) == elements[Slot(back)]

\* What the peak is known to cover.
Covered ==
  /\ settled["mem"] <= peak
  /\ poller \in {"cpu", "mem"} => Kept(1) <= peak
  /\ poller \in {"disk", "peak"} => Kept(1) = inUse
  /\ \A back \in 2..length : Kept(back) <= settled["mem"]

\* What a request has seen.
Seen ==
  /\ at = "cpu" => kind # "memory"
  /\ at \in {"mem", "disk", "peak"} => kind # "cpu"
  /\ at \in {"disk", "peak"} => kind = "utilization"
  /\ at = "panicked" => AsInt(limit) < 0
  /\ at \in {"mem", "disk", "peak", "answered"} /\ AsInt(limit) > 0 /\ kind # "memory" => shownCpu > 0
  /\ at \in {"disk", "peak", "answered"} /\ AsInt(limit) > 0 /\ kind # "cpu" => got # <<>>
  /\ at \in {"disk", "peak"} => \A i \in 1..(Len(got) - 1) : got[i] <= floor
  /\ PeakIsKept

HInv == IInv /\ Fields /\ Started /\ Covered /\ Seen

-----------------------------------------------------------------------------
(* Every step is a step of RingBuffer or none.                             *)

\* A negative number asks the buffer for as much as zero does.
LEMMA NothingAsked ==
  ASSUME IInv, NEW n \in Int, n < 0, Get(n)
  PROVE  Get(0)
<1>1. length \in Nat
  BY CapacityAssumption, SMT DEF IInv, TypeOK
<1>2. Smaller(n, length) = n /\ Smaller(0, length) = 0 /\ 1..n = {} /\ 1..0 = {}
  BY <1>1, SMT DEF Smaller
<1>3. Newest(n) = Newest(0)
  BY <1>2, SMT DEF Newest
<1> QED
  BY <1>2, <1>3 DEF Get

LEMMA AsIntRange ==
  ASSUME NEW n \in 0..MaxAsked
  PROVE  /\ AsInt(n) \in Int /\ AsInt(n) <= MaxAsked
         /\ n # 0 => AsInt(n) # 0
BY MaxAskedAssumption, SMT DEF AsInt

LEMMA ReadMemIsGet ==
  ASSUME IInv, Fields, ReadMem
  PROVE  \E n \in 0..MaxAsked : Get(n)
<1>1. AsInt(limit) \in Int /\ AsInt(limit) <= MaxAsked /\ Get(AsInt(limit))
  BY AsIntRange DEF Fields, ReadMem
<1>2. CASE AsInt(limit) < 0
  <2>1. Get(0)
    BY <1>1, <1>2, NothingAsked
  <2> QED
    BY <2>1, MaxAskedAssumption, SMT
<1>3. CASE ~(AsInt(limit) < 0)
  <2>1. AsInt(limit) \in 0..MaxAsked
    BY <1>1, <1>3, MaxAskedAssumption, SMT
  <2> QED
    BY <1>1, <2>1
<1> QED
  BY <1>2, <1>3

LEMMA StepIsRingStep ==
  ASSUME IInv, Fields, [HistoryNext]_historyVars
  PROVE  [Next]_vars
<1>1. CASE TakeFirstSamples
  BY <1>1 DEF TakeFirstSamples, Next
<1>2. CASE Poll
  <2>1. CASE AddMem
    BY <2>1 DEF AddMem, Next
  <2>2. CASE AddCpu \/ AddDisk \/ RaisePeak
    BY <2>2 DEF AddCpu, AddDisk, RaisePeak, requestVars, vars
  <2> QED
    BY <1>2, <2>1, <2>2 DEF Poll
<1>3. CASE Request
  <2>1. CASE ReadMem
    BY <2>1, ReadMemIsGet DEF Next
  <2>2. CASE Ask \/ ReadCpu \/ ReadDisk \/ ReadPeak \/ Done
    BY <2>2 DEF Ask, ReadCpu, ReadDisk, ReadPeak, Done, pollerVars, vars
  <2> QED
    BY <1>3, <2>1, <2>2 DEF Request
<1>4. CASE UNCHANGED historyVars
  BY <1>4 DEF historyVars, pollerVars, requestVars, vars
<1> QED
  BY <1>1, <1>2, <1>3, <1>4 DEF HistoryNext

-----------------------------------------------------------------------------
(* The invariant.                                                          *)

LEMMA HistoryInitInvariant == HistoryInit => HInv
<1> SUFFICES ASSUME HistoryInit PROVE HInv
  OBVIOUS
<1>1. IInv /\ length = 0 /\ got = <<>>
  BY InitInvariant DEF HistoryInit, Init, NewRingBuffer
<1>2. Fields
  BY MaxAskedAssumption, SMT DEF HistoryInit, Fields
<1>3. Started
  BY <1>1 DEF HistoryInit, Started
<1>4. Covered
  BY <1>1, SMT DEF HistoryInit, Covered
<1>5. Seen
  BY DEF HistoryInit, Seen, PeakIsKept
<1> QED
  BY <1>1, <1>2, <1>3, <1>4, <1>5 DEF HInv

\* A sample is added: the newest so far is from now on an older one.
LEMMA SampleAdded ==
  ASSUME IInv, NEW use \in Items, Add(use)
  PROVE  /\ length \in 0..Capacity /\ length' \in 1..Capacity /\ length' <= length + 1
         /\ use \in Nat
         /\ Kept(1)' = use
         /\ \A back \in 2..length' : back - 1 \in 1..length /\ Kept(back)' = Kept(back - 1)
<1>1. TypeOK /\ length \in 0..Capacity
  BY DEF IInv, TypeOK
<1>2. length' \in 1..Capacity /\ length' <= length + 1
  BY <1>1, CapacityAssumption, SMT DEF Add, Smaller
<1>3. \A back \in 2..length' : back - 1 \in 1..length /\ back \in 2..Capacity
  BY <1>1, <1>2, CapacityAssumption, SMT
<1>4. Kept(1)' = use /\ \A back \in 2..Capacity : Kept(back)' = Kept(back - 1)
  BY <1>1, AddShifts DEF Kept
<1> QED
  BY <1>1, <1>2, <1>3, <1>4, ItemsAssumption

\* The samples kept are numbers.
LEMMA KeptAreNumbers ==
  ASSUME IInv
  PROVE  \A back \in 1..length : Kept(back) \in Nat
BY ItemsAssumption DEF IInv, Filled, Kept

\* A step of the requests alone, or of the poller outside memHistory.
LEMMA RingRests ==
  ASSUME UNCHANGED ring
  PROVE  length' = length /\ \A back \in Int : Kept(back)' = Kept(back)
BY SMT DEF ring, Kept, Slot

LEMMA FieldsStep == HInv /\ [HistoryNext]_historyVars => Fields'
<1> SUFFICES ASSUME HInv, [HistoryNext]_historyVars PROVE Fields'
  OBVIOUS
<1>1. Fields /\ TypeOK /\ Items \subseteq Nat /\ Capacity \in Nat \ {0} /\ length \in Nat
  BY ItemsAssumption, CapacityAssumption, SMT DEF HInv, IInv, TypeOK
<1>2. CASE TakeFirstSamples
  BY <1>1, <1>2, SMT DEF TakeFirstSamples, Fields
<1>3. CASE Poll
  <2>1. CASE AddCpu
    BY <1>1, <2>1, SMT DEF AddCpu, Settle, Smaller, requestVars, Fields
  <2>2. CASE AddMem
    BY <1>1, <2>2, SMT DEF AddMem, Settle, Fields
  <2>3. CASE AddDisk
    BY <1>1, <2>3, SMT DEF AddDisk, Settle, requestVars, Fields
  <2>4. CASE RaisePeak
    BY <1>1, <2>4, SMT DEF RaisePeak, Larger, requestVars, Fields
  <2> QED
    BY <1>3, <2>1, <2>2, <2>3, <2>4 DEF Poll
<1>4. CASE Request
  <2>1. CASE Ask
    BY <1>1, <2>1, SMT DEF Ask, pollerVars, Fields
  <2>2. CASE ReadCpu
    <3>1. AsInt(limit) \in Int
      BY <1>1, AsIntRange DEF Fields
    <3> QED
      BY <1>1, <2>2, <3>1, SMT DEF ReadCpu, See, Smaller, Larger, pollerVars, Fields
  <2>3. CASE ReadMem
    BY <1>1, <2>3, SMT DEF ReadMem, See, Larger, Fields
  <2>4. CASE ReadDisk
    BY <1>1, <2>4, SMT DEF ReadDisk, See, Larger, pollerVars, Fields
  <2>5. CASE ReadPeak
    BY <1>1, <2>5, SMT DEF ReadPeak, pollerVars, Fields
  <2>6. CASE Done
    BY <1>1, <2>6, MaxAskedAssumption, SMT DEF Done, pollerVars, Fields
  <2> QED
    BY <1>4, <2>1, <2>2, <2>3, <2>4, <2>5, <2>6 DEF Request
<1>5. CASE UNCHANGED historyVars
  BY <1>1, <1>5 DEF historyVars, pollerVars, requestVars, Fields
<1> QED
  BY <1>2, <1>3, <1>4, <1>5 DEF HistoryNext

LEMMA StartedStep == HInv /\ [HistoryNext]_historyVars => Started'
<1> SUFFICES ASSUME HInv, [HistoryNext]_historyVars PROVE Started'
  OBVIOUS
<1>1. Fields /\ Started /\ IInv /\ Capacity \in Nat \ {0} /\ cpuLength \in Nat
  BY CapacityAssumption DEF HInv, Fields
<1>2. CASE TakeFirstSamples
  <2>1. length' >= 1
    BY <1>1, <1>2, SampleAdded, SMT DEF TakeFirstSamples
  <2>2. cpuLength' = 1 /\ at' = at /\ poller' = "cpu" /\ limit' = limit /\ poller = "init"
    BY <1>2 DEF TakeFirstSamples
  <2> QED
    BY <1>1, <2>1, <2>2, SMT DEF Started
<1>3. CASE Poll
  <2>1. CASE AddCpu
    BY <1>1, <2>1, SMT DEF AddCpu, Smaller, ring, requestVars, Started
  <2>2. CASE AddMem
    <3>1. length' >= 1
      BY <1>1, <2>2, SampleAdded, SMT DEF AddMem
    <3> QED
      BY <1>1, <2>2, <3>1 DEF AddMem, Started
  <2>3. CASE AddDisk \/ RaisePeak
    BY <1>1, <2>3 DEF AddDisk, RaisePeak, ring, requestVars, Started
  <2> QED
    BY <1>3, <2>1, <2>2, <2>3 DEF Poll
<1>4. CASE Request
  <2>1. CASE Ask
    BY <1>1, <2>1 DEF Ask, pollerVars, ring, Started
  <2>2. CASE ReadMem
    BY <1>1, <2>2 DEF ReadMem, Get, ring, Started
  <2>3. CASE ReadCpu \/ ReadDisk \/ ReadPeak
    BY <1>1, <2>3 DEF ReadCpu, ReadDisk, ReadPeak, pollerVars, ring, Started
  <2>4. CASE Done
    BY <1>1, <2>4 DEF Done, pollerVars, ring, Started
  <2> QED
    BY <1>4, <2>1, <2>2, <2>3, <2>4 DEF Request
<1>5. CASE UNCHANGED historyVars
  BY <1>1, <1>5 DEF historyVars, pollerVars, requestVars, ring, Started
<1> QED
  BY <1>2, <1>3, <1>4, <1>5 DEF HistoryNext

LEMMA CoveredStep == HInv /\ [HistoryNext]_historyVars => Covered'
<1> SUFFICES ASSUME HInv, [HistoryNext]_historyVars PROVE Covered'
  OBVIOUS
<1>1. Fields /\ Started /\ Covered /\ IInv
  BY DEF HInv
<1>2. peak \in Nat /\ settled \in [{"cpu", "mem", "disk"} -> Nat] /\ inUse \in Nat /\ length \in Nat
  BY <1>1, CapacityAssumption, SMT DEF Fields, IInv, TypeOK
<1>3. \A back \in 1..length : Kept(back) \in Nat
  BY <1>1, KeptAreNumbers
<1>4. CASE TakeFirstSamples
  <2>1. PICK use \in Items : Add(use) /\ inUse' = use /\ peak' = use
                             /\ settled' = [cpu |-> 0, mem |-> 0, disk |-> 0]
    BY <1>4 DEF TakeFirstSamples
  <2>2. length = 0 /\ poller' = "cpu"
    BY <1>1, <1>4 DEF TakeFirstSamples, Started
  <2>3. use \in Nat /\ Kept(1)' = use /\ \A back \in 2..length' : FALSE
    BY <1>1, <2>1, <2>2, SampleAdded, SMT
  <2> QED
    BY <2>1, <2>2, <2>3, SMT DEF Covered
<1>5. CASE Poll
  <2>1. CASE AddCpu
    <3>1. length' = length /\ \A back \in Int : Kept(back)' = Kept(back)
      BY <2>1, RingRests DEF AddCpu
    <3> QED
      BY <1>1, <1>2, <2>1, <3>1, SMT DEF AddCpu, Settle, Covered
  <2>2. CASE AddMem
    <3>1. PICK use \in Items : Add(use) /\ inUse' = use
      BY <2>2 DEF AddMem
    <3>2. Kept(1)' = use /\ \A back \in 2..length' : back - 1 \in 1..length /\ Kept(back)' = Kept(back - 1)
      BY <1>1, <3>1, SampleAdded
    <3>3. \A back \in 1..length : Kept(back) <= peak
      <4>1. Kept(1) <= peak /\ settled["mem"] <= peak
        BY <1>1, <2>2 DEF AddMem, Covered
      <4>2. \A back \in 2..length : Kept(back) <= settled["mem"]
        BY <1>1 DEF Covered
      <4> QED
        BY <1>2, <1>3, <4>1, <4>2, SMT
    <3>4. settled' = [settled EXCEPT !["mem"] = peak] /\ peak' = peak /\ poller' = "disk"
      BY <2>2 DEF AddMem, Settle
    <3>5. settled'["mem"] = peak /\ peak' = peak /\ poller' = "disk"
      BY <1>2, <3>4
    <3>6. \A back \in 2..length' : Kept(back)' <= settled'["mem"]
      BY <3>2, <3>3, <3>5
    <3> QED
      BY <1>2, <3>1, <3>2, <3>5, <3>6, SMT DEF Covered
  <2>3. CASE AddDisk
    <3>1. length' = length /\ \A back \in Int : Kept(back)' = Kept(back)
      BY <2>3, RingRests DEF AddDisk
    <3> QED
      BY <1>1, <1>2, <2>3, <3>1, SMT DEF AddDisk, Settle, Covered
  <2>4. CASE RaisePeak
    <3>1. length' = length /\ \A back \in Int : Kept(back)' = Kept(back)
      BY <2>4, RingRests DEF RaisePeak
    <3>2. peak' >= peak /\ peak' >= inUse /\ peak' \in Nat
      BY <1>2, <2>4, SMT DEF RaisePeak, Larger
    <3> QED
      BY <1>1, <1>2, <2>4, <3>1, <3>2, SMT DEF RaisePeak, Covered
  <2> QED
    BY <1>5, <2>1, <2>2, <2>3, <2>4 DEF Poll
<1>6. CASE Request \/ UNCHANGED historyVars
  <2>1. UNCHANGED <<ring, peak, settled, poller, inUse>>
    BY <1>6 DEF Request, Ask, ReadCpu, ReadMem, ReadDisk, ReadPeak, Done, Get, pollerVars, historyVars
  <2>2. length' = length /\ \A back \in Int : Kept(back)' = Kept(back)
    BY <2>1, RingRests
  <2> QED
    BY <1>1, <1>2, <2>1, <2>2, SMT DEF Covered
<1> QED
  BY <1>4, <1>5, <1>6 DEF HistoryNext

LEMMA SeenStep == HInv /\ [HistoryNext]_historyVars => Seen'
<1> SUFFICES ASSUME HInv, [HistoryNext]_historyVars PROVE Seen'
  OBVIOUS
<1>1. Fields /\ Started /\ Covered /\ Seen /\ IInv
  BY DEF HInv
<1>2. AsInt(limit) \in Int /\ (limit # 0 => AsInt(limit) # 0) /\ cpuLength \in Nat /\ shownCpu \in Int
      /\ floor \in Nat /\ settled \in [{"cpu", "mem", "disk"} -> Nat] /\ shownPeak \in Nat /\ length \in Nat
  BY <1>1, AsIntRange, CapacityAssumption, SMT DEF Fields, IInv, TypeOK
<1>3. got \in Seq(Items) /\ Len(got) \in Nat /\ \A i \in 1..(Len(got) - 1) : got[i] \in Nat
  <2>1. got \in Seq(Items)
    BY <1>1 DEF IInv, TypeOK
  <2>2. Len(got) \in Nat /\ \A i \in 1..Len(got) : got[i] \in Items
    BY <2>1, LenProperties, ElementOfSeq
  <2>3. ASSUME NEW n \in Nat PROVE \A i \in 1..(n - 1) : i \in 1..n
    BY SMT
  <2>4. \A i \in 1..(Len(got) - 1) : got[i] \in Nat
    BY <2>2, <2>3, ItemsAssumption
  <2> QED
    BY <2>1, <2>2, <2>4
<1>4. CASE TakeFirstSamples
  BY <1>1, <1>4 DEF TakeFirstSamples, Add, Seen, PeakIsKept, AsInt
<1>5. CASE Poll
  BY <1>1, <1>5 DEF Poll, AddCpu, AddMem, AddDisk, RaisePeak, Add, requestVars, Seen, PeakIsKept, AsInt
<1>6. CASE Ask
  BY <1>1, <1>6 DEF Ask, Seen, PeakIsKept
<1>7. CASE ReadCpu
  <2>1. limit' = limit /\ kind' = kind /\ got' = got /\ shownCpu' = Larger(0, Smaller(AsInt(limit), cpuLength))
        /\ at' = IF kind = "utilization" THEN "mem" ELSE IF shownCpu' > 0 THEN "answered" ELSE "panicked"
    BY <1>7 DEF ReadCpu
  <2>2. kind # "memory" /\ cpuLength >= 1 /\ AsInt(limit) # 0
    BY <1>1, <1>2, <1>7 DEF ReadCpu, Started, Seen
  <2>3. kind \in {"utilization", "cpu"}
    BY <1>1, <2>2 DEF Fields
  <2>4. shownCpu' > 0 <=> AsInt(limit) > 0
    BY <1>2, <2>1, <2>2, SMT DEF Larger, Smaller
  <2>5. AsInt(limit)' = AsInt(limit)
    BY <2>1 DEF AsInt
  <2>6. AsInt(limit) > 0 \/ AsInt(limit) < 0
    BY <1>2, <2>2, SMT
  <2>7. CASE kind = "utilization"
    <3>1. at' = "mem" /\ kind' = "utilization"
      BY <2>1, <2>7
    <3> QED
      BY <2>4, <2>5, <3>1 DEF Seen, PeakIsKept
  <2>8. CASE kind = "cpu"
    <3>1. kind' = "cpu" /\ at' = IF AsInt(limit) > 0 THEN "answered" ELSE "panicked"
      BY <2>1, <2>4, <2>8
    <3> QED
      BY <2>4, <2>5, <2>6, <3>1 DEF Seen, PeakIsKept
  <2> QED
    BY <2>3, <2>7, <2>8
<1>8. CASE ReadMem
  <2>1. limit' = limit /\ kind' = kind /\ shownCpu' = shownCpu /\ floor' = Larger(floor, settled["mem"])
        /\ at = "mem" /\ at' = IF kind = "memory" THEN "answered" ELSE "disk"
    BY <1>8 DEF ReadMem, See
  <2>2. PICK n \in Int : n = Smaller(AsInt(limit), length) /\ got' = Newest(n) /\ n <= length
    <3>1. Smaller(AsInt(limit), length) \in Int /\ Smaller(AsInt(limit), length) <= length
      BY <1>2, SMT DEF Smaller
    <3> QED
      BY <1>8, <3>1 DEF ReadMem, Get
  <2>3. AsInt(limit)' = AsInt(limit) /\ kind # "cpu" /\ length >= 1
    BY <1>1, <2>1 DEF AsInt, Seen, Started
  <2>4. AsInt(limit) > 0 => got' # <<>>
    <3>1. HAVE AsInt(limit) > 0
    <3>2. n >= 1 /\ n \in 0..length
      BY <1>2, <2>2, <2>3, <3>1, SMT DEF Smaller
    <3>3. Len(got') = n
      BY <1>1, <2>2, <3>2, NewestIsSeq DEF IInv
    <3> QED
      BY <3>2, <3>3, SMT
  <2>5. \A i \in 1..(Len(got') - 1) : got'[i] <= floor'
    <3>1. CASE n < 1
      <4>1. got' = <<>>
        BY <2>2, <3>1, SMT DEF Newest
      <4> QED
        BY <4>1, SMT
    <3>2. CASE n >= 1
      <4>1. n \in 0..length /\ Len(got') = n
        BY <1>1, <1>2, <2>2, <3>2, NewestIsSeq, SMT DEF IInv
      <4> SUFFICES ASSUME NEW i \in 1..(n - 1) PROVE got'[i] <= floor'
        BY <4>1
      <4>2. i \in 1..n /\ n - i + 1 \in 2..length
        BY <1>2, <4>1, SMT
      <4>3. got'[i] = Kept(n - i + 1)
        BY <2>2, <4>2 DEF Newest, Kept
      <4>4. Kept(n - i + 1) <= settled["mem"] /\ Kept(n - i + 1) \in Nat
        <5>1. n - i + 1 \in 1..length
          BY <4>2, <1>2, SMT
        <5> QED
          BY <1>1, <4>2, <5>1, KeptAreNumbers DEF Covered
      <4> QED
        BY <1>2, <2>1, <4>3, <4>4, SMT DEF Larger
    <3> QED
      BY <3>1, <3>2, <2>2, SMT
  <2>6. AsInt(limit) > 0 /\ kind # "memory" => shownCpu > 0
    BY <1>1, <2>1 DEF Seen
  <2>7. kind' \in {"utilization", "memory"}
    BY <1>1, <2>1, <2>3 DEF Fields
  <2> QED
    BY <2>1, <2>3, <2>4, <2>5, <2>6, <2>7 DEF Seen, PeakIsKept
<1>9. CASE ReadDisk
  <2>1. floor' = Larger(floor, settled["disk"]) /\ got' = got /\ at = "disk" /\ at' = "peak"
        /\ limit' = limit /\ kind' = kind /\ shownCpu' = shownCpu
    BY <1>9 DEF ReadDisk, See
  <2>2. \A i \in 1..(Len(got) - 1) : got[i] <= floor'
    <3>1. \A i \in 1..(Len(got) - 1) : got[i] <= floor
      BY <1>1, <2>1 DEF Seen
    <3> QED
      BY <1>2, <1>3, <2>1, <3>1, SMT DEF Larger
  <2>3. AsInt(limit)' = AsInt(limit)
    BY <2>1 DEF AsInt
  <2> QED
    BY <1>1, <2>1, <2>2, <2>3 DEF Seen, PeakIsKept
<1>10. CASE ReadPeak
  <2>1. floor' = floor /\ got' = got /\ at = "peak" /\ at' = "answered" /\ limit' = limit /\ kind' = kind
        /\ shownCpu' = shownCpu /\ shownPeak' \in Nat /\ shownPeak' >= floor
    BY <1>1, <1>10 DEF ReadPeak, Fields
  <2>2. \A i \in 1..(Len(got) - 1) : got[i] <= shownPeak'
    <3>1. \A i \in 1..(Len(got) - 1) : got[i] <= floor
      BY <1>1, <2>1 DEF Seen
    <3> QED
      BY <1>2, <1>3, <2>1, <3>1, SMT
  <2>3. AsInt(limit)' = AsInt(limit)
    BY <2>1 DEF AsInt
  <2> QED
    BY <1>1, <2>1, <2>2, <2>3 DEF Seen, PeakIsKept
<1>11. CASE Done
  BY <1>11 DEF Done, Seen, PeakIsKept
<1>12. CASE UNCHANGED historyVars
  BY <1>1, <1>12 DEF historyVars, requestVars, Seen, PeakIsKept, AsInt
<1> QED
  BY <1>4, <1>5, <1>6, <1>7, <1>8, <1>9, <1>10, <1>11, <1>12 DEF HistoryNext, Request

LEMMA HistoryStepInvariant == HInv /\ [HistoryNext]_historyVars => HInv'
<1> SUFFICES ASSUME HInv, [HistoryNext]_historyVars PROVE HInv'
  OBVIOUS
<1>1. IInv'
  BY StepIsRingStep, StepInvariant DEF HInv
<1> QED
  BY <1>1, FieldsStep, StartedStep, CoveredStep, SeenStep DEF HInv

LEMMA HistoryInvariant == HistorySpec => []HInv
BY HistoryInitInvariant, HistoryStepInvariant, PTL DEF HistorySpec

\* init, the poller and the handlers use memHistory only as RingBuffer allows,
\* whatever limit int() makes of what a client asks.
THEOREM HistoryIsRing == HistorySpec => Spec
<1>1. HistoryInit => Init
  BY DEF HistoryInit
<1>2. HInv /\ [HistoryNext]_historyVars => [Next]_vars
  BY StepIsRingStep DEF HInv
<1> QED
  BY <1>1, <1>2, HistoryInvariant, PTL DEF HistorySpec, Spec

\* So a reader of the history gets the newest samples in their order.
THEOREM HistoryKeepsRecentEntries == HistorySpec => KeepsRecentEntries
BY HistoryIsRing, RingKeepsRecentEntries, PTL

\* The peak in an answer is no less than the memory samples in it but for the
\* newest, in spite of the race on lifetimeMaxMem.
THEOREM PeakCoversHistory == HistorySpec => []PeakIsKept
<1>1. HInv => PeakIsKept
  BY DEF HInv, Seen
<1> QED
  BY <1>1, HistoryInvariant, PTL

\* GetCpuInfo panics only for limits that int() makes negative, and for the
\* others no history in an answer is empty.
THEOREM OthersAreAnswered == HistorySpec => []OnlyHugeLimitsPanic
<1>1. HInv => OnlyHugeLimitsPanic
  <2> SUFFICES ASSUME HInv PROVE OnlyHugeLimitsPanic
    OBVIOUS
  <2>1. Seen /\ kind \in {"utilization", "cpu", "memory"}
    BY DEF HInv, Fields
  <2> QED
    BY <2>1 DEF Seen, OnlyHugeLimitsPanic
<1> QED
  BY <1>1, HistoryInvariant, PTL
=============================================================================
