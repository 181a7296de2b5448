------------------------- MODULE ScanPipelineProofs -------------------------
(***************************************************************************)
(* What ScanPipeline guarantees for any number of sub-documents, exams and *)
(* workers: no exam is lost or counted twice, the channel of results is    *)
(* closed after the last send, the answer is complete, and matrices are    *)
(* open while they are used.  The argument: each counter is the number of  *)
(* goroutines counted in, so the worker that closes the channel is the     *)
(* last that could hold an exam; and an exam moves from hand to hand.      *)
(***************************************************************************)
EXTENDS ScanPipeline, FiniteSetTheorems, SequenceTheorems, TLAPS

Running == {d \in Docs : sub[d].at = "running"}
Active  == {w \in Workers : worker[w].at \in {"receiving", "working", "sending"}}

\* The counters count.
Counted == threadCount = Cardinality(Running) /\ threads = Cardinality(Active)

\* Who holds a result where, and what has been closed by then.
Scheduled ==
  /\ \A d \in Docs : sub[d].at \in {"closing", "ended"} => sub[d].next = Blocks[d] + 1
  /\ \A w \in Workers : worker[w].exam # None <=> worker[w].at \in {"working", "sending"}
  /\ \A w \in Workers : worker[w].at = "tidying" => outClosed
  /\ main \in {"calibrating", "refused"} => \A w \in Workers : worker[w].at = "unborn"
  /\ main \in {"calibrating", "refused", "consuming", "answered"} => first = NoWork
  /\ main = "spawning" => first.exam # None
  /\ main # "refused" => drained = {} /\ ~draining
  /\ main = "panicked" => outClosed
  /\ main = "answered" => outClosed /\ out = <<>>

\* From the moment the last worker leaves its loop nobody holds an exam.
Closed ==
  outClosed \/ (\E w \in Workers : worker[w].at = "closing") =>
    examsClosed /\ \A w \in Workers : worker[w].exam = None

\* The exams the workers hold, those in the channel, and the one held back.
Carried == {worker[w].exam : w \in {v \in Workers : worker[v].exam # None}}
Queued  == {out[i].exam : i \in DOMAIN out}
Held    == {e \in Exams : first.exam = e}

\* No exam is twice in one place,
Distinct ==
  /\ \A v, w \in Workers : worker[v].exam = worker[w].exam /\ worker[v].exam # None => v = w
  /\ \A i, j \in DOMAIN out : out[i].exam = out[j].exam => i = j
  /\ \A i, j \in DOMAIN answers : answers[i] = answers[j] => i = j

\* nor in two,
Apart ==
  \A e \in Exams :
    /\ e \in Carried => e \notin Queued \cup Answered \cup Held \cup drained
    /\ e \in Queued => e \notin Answered \cup Held \cup drained
    /\ e \in Answered => e \notin Held \cup drained
    /\ e \in Held => e \notin drained

\* and all that were handed over are somewhere.
Whole == Handed = Carried \cup Queued \cup Answered \cup Held \cup drained

Conserved == Distinct /\ Apart /\ Whole

\* Which matrices are open.
Memory ==
  /\ \A w \in Workers : worker[w].ok =>
       /\ worker[w].at = "working" => Input(worker[w].exam) \in open
       /\ worker[w].at = "sending" => Output(worker[w].exam) \in open
  /\ first.ok => Output(first.exam) \in open
  /\ \A i \in DOMAIN out : out[i].ok => Output(out[i].exam) \in open
  /\ main = "calibrating" => Loaded \in open
  /\ main \in {"spawning", "consuming"} /\ ~outClosed => Scaled \in open

IInv == TypeOK /\ Counted /\ Scheduled /\ Closed /\ Conserved /\ Memory

-----------------------------------------------------------------------------
(* The initial state.                                                      *)

LEMMA Initially == Init => IInv
<1> SUFFICES ASSUME Init PROVE IInv
  OBVIOUS
<1>1. \A d \in Docs : sub[d] = [at |-> "spawned", next |-> 1]
  BY DEF Init
<1>2. \A w \in Workers : worker[w] = [at |-> "unborn", exam |-> None, ok |-> FALSE]
  BY DEF Init
<1>3. IsFiniteSet({}) /\ Cardinality({}) = 0
  BY FS_EmptySet
<1>4. TypeOK
  <2>1. Cap \in Nat
    BY WorkersAssumption, FS_CardinalityType DEF Cap
  <2>2. \A d \in Docs : Blocks[d] \in Nat \ {0}
    BY BlocksAssumption
  <2>3. <<>> \in Seq(ResultType) /\ <<>> \in Seq(Exams) /\ Len(<<>>) = 0
    BY EmptySeq
  <2>4. sub \in [Docs -> [at : {"spawned", "running", "closing", "ended"}, next : Nat \ {0}]]
    BY SMT DEF Init
  <2>5. \A d \in Docs : sub[d].next <= Blocks[d] + 1
    BY <1>1, <2>2, SMT
  <2>6. worker \in [Workers -> [at : WorkerPlaces, exam : Exams \cup {None}, ok : BOOLEAN]]
    BY DEF Init, WorkerPlaces
  <2>7. main \in Places /\ open \subseteq Matrices
    BY DEF Init, Places, Matrices
  <2>8. threadCount \in Nat /\ threads \in Nat /\ Len(out) <= Cap
    BY <2>1, <2>3, SMT DEF Init
  <2>9. out \in Seq(ResultType) /\ answers \in Seq(Exams)
    BY <2>3 DEF Init
  <2> QED
    BY <2>4, <2>5, <2>6, <2>7, <2>8, <2>9 DEF Init, TypeOK
<1>5. Counted
  <2>1. Running = {} /\ Active = {}
    BY <1>1, <1>2 DEF Running, Active
  <2> QED
    BY <2>1, <1>3 DEF Counted, Init
<1>6. Scheduled
  BY <1>1, <1>2 DEF Scheduled, Init
<1>7. Closed
  BY <1>1, <1>2 DEF Closed, Init
<1>8. Conserved
  <2>1. Carried = {} /\ Queued = {} /\ Answered = {} /\ drained = {}
    BY <1>2 DEF Carried, Queued, Answered, Init
  <2>2. Held = {}
    BY NoneAssumption DEF Held, Init, NoWork, Result
  <2>3. \A d \in Docs : 1..(sub[d].next - 1) = {}
    BY <1>1, SMT
  <2>4. Handed = {}
    BY <2>3 DEF Handed
  <2> QED
    BY <1>2, <2>1, <2>2, <2>4 DEF Conserved, Distinct, Apart, Whole, Init
<1>9. Memory
  BY <1>2 DEF Memory, Init, NoWork, Result
<1> QED
  BY <1>4, <1>5, <1>6, <1>7, <1>8, <1>9 DEF IInv

-----------------------------------------------------------------------------
(* What the shared parts of the actions do.                                *)

LEMMA BlocksAreNat == \A d \in Docs : Blocks[d] \in Nat \ {0}
BY BlocksAssumption

LEMMA HandoverMoves ==
  ASSUME TypeOK, NEW d \in Docs, Handover(d)
  PROVE  /\ ~examsClosed /\ examsClosed' = examsClosed /\ threadCount' = threadCount
         /\ crashed' = FALSE
         /\ sub' \in [Docs -> [at : {"spawned", "running", "closing", "ended"}, next : Nat \ {0}]]
         /\ sub[d].at = "running" /\ sub[d].next \in 1..Blocks[d]
         /\ sub'[d].next = sub[d].next + 1
         /\ \A c \in Docs : sub'[c].at = sub[c].at
         /\ \A c \in Docs \ {d} : sub'[c] = sub[c]
<1>1. sub[d] \in [at : {"spawned", "running", "closing", "ended"}, next : Nat \ {0}]
  BY DEF TypeOK
<1>2. sub' = [sub EXCEPT ![d].next = @ + 1] /\ sub[d].at = "running" /\ sub[d].next <= Blocks[d]
  BY DEF Handover, HasBlock
<1>3. sub[d].next + 1 \in Nat \ {0} /\ sub[d].next \in 1..Blocks[d]
  BY <1>1, <1>2, BlocksAreNat, SMT
<1>4. \A c \in Docs : sub'[c] = IF c = d THEN [sub[d] EXCEPT !.next = @ + 1] ELSE sub[c]
  BY <1>2 DEF TypeOK
<1> QED
  BY <1>1, <1>2, <1>3, <1>4 DEF TypeOK, Handover, Alive

\* The exam handed over was nobody's.
LEMMA HandedGrows ==
  ASSUME TypeOK, NEW d \in Docs, Handover(d)
  PROVE  /\ Block(d) \in Exams /\ Block(d) \notin Handed
         /\ Handed' = Handed \cup {Block(d)}
<1> DEFINE n == sub[d].next
<1>1. n \in 1..Blocks[d] /\ n = sub[d].next /\ sub'[d].next = n + 1
      /\ \A c \in Docs \ {d} : sub'[c] = sub[c]
  BY HandoverMoves
<1> HIDE DEF n
<1>2. 1..(n - 1) \cup {n} = 1..(sub'[d].next - 1) /\ n \notin 1..(n - 1)
  <2>1. n \in Nat \ {0}
    BY <1>1, BlocksAreNat, SMT
  <2> QED
    BY <1>1, <2>1, SMT
<1>3. Block(d) = <<d, n>>
  BY DEF Block, n
<1>4. Block(d) \in Exams
  BY <1>1, <1>3 DEF Exams
<1>5. \A x : x \in Handed <=> \E c \in Docs : \E k \in 1..(sub[c].next - 1) : x = <<c, k>>
  BY DEF Handed
<1>6. \A x : x \in Handed' <=> \E c \in Docs : \E k \in 1..(sub'[c].next - 1) : x = <<c, k>>
  BY DEF Handed
<1>7. Block(d) \notin Handed
  BY <1>1, <1>2, <1>3, <1>5
<1>8. \A x : x \in Handed' <=> x \in Handed \cup {Block(d)}
  <2>1. ASSUME NEW x, x \in Handed' PROVE x \in Handed \cup {Block(d)}
    <3>1. PICK c \in Docs : \E k \in 1..(sub'[c].next - 1) : x = <<c, k>>
      BY <2>1, <1>6
    <3>2. CASE c = d
      BY <3>1, <3>2, <1>1, <1>2, <1>3, <1>5
    <3>3. CASE c # d
      BY <3>1, <3>3, <1>1, <1>5
    <3> QED
      BY <3>2, <3>3
  <2>2. ASSUME NEW x, x \in Handed PROVE x \in Handed'
    <3>1. PICK c \in Docs : \E k \in 1..(sub[c].next - 1) : x = <<c, k>>
      BY <2>2, <1>5
    <3>2. CASE c = d
      BY <3>1, <3>2, <1>1, <1>2, <1>6
    <3>3. CASE c # d
      BY <3>1, <3>3, <1>1, <1>6
    <3> QED
      BY <3>2, <3>3
  <2>3. Block(d) \in Handed'
    BY <1>2, <1>3, <1>6
  <2> QED
    BY <2>1, <2>2, <2>3
<1> QED
  BY <1>4, <1>7, <1>8

LEMMA WorkerMoves ==
  ASSUME TypeOK, NEW w \in Workers, NEW place \in WorkerPlaces,
         NEW item \in [exam : Exams \cup {None}, ok : BOOLEAN], WorkerAt(w, place, item)
  PROVE  /\ worker' \in [Workers -> [at : WorkerPlaces, exam : Exams \cup {None}, ok : BOOLEAN]]
         /\ worker'[w].at = place /\ worker'[w].exam = item.exam /\ worker'[w].ok = item.ok
         /\ \A v \in Workers \ {w} : worker'[v] = worker[v]
<1>1. worker' = [worker EXCEPT ![w] = [at |-> place, exam |-> item.exam, ok |-> item.ok]]
  BY DEF WorkerAt
<1>2. item.exam \in Exams \cup {None} /\ item.ok \in BOOLEAN
  OBVIOUS
<1> QED
  BY <1>1, <1>2 DEF TypeOK

LEMMA Results ==
  /\ NoWork \in [exam : Exams \cup {None}, ok : BOOLEAN]
  /\ NoWork.exam = None /\ NoWork.ok = FALSE
  /\ \A e, ok : Result(e, ok).exam = e /\ Result(e, ok).ok = ok
  /\ \A e \in Exams \cup {None}, ok \in BOOLEAN :
       Result(e, ok) \in [exam : Exams \cup {None}, ok : BOOLEAN]
  /\ \A e \in Exams, ok \in BOOLEAN : Result(e, ok) \in ResultType
  /\ \A r \in ResultType : r.exam # None /\ r # NoWork
BY NoneAssumption DEF NoWork, Result, ResultType

\* Spawn is the one step that changes a worker without WorkerAt.
LEMMA SpawnMoves ==
  ASSUME TypeOK, NEW w \in Workers, Spawn(w)
  PROVE  /\ worker' \in [Workers -> [at : WorkerPlaces, exam : Exams \cup {None}, ok : BOOLEAN]]
         /\ worker[w].at = "unborn" /\ worker'[w].at = "receiving"
         /\ worker'[w].exam = worker[w].exam /\ worker'[w].ok = worker[w].ok
         /\ \A v \in Workers \ {w} : worker'[v] = worker[v]
<1>1. worker' = [worker EXCEPT ![w].at = "receiving"] /\ worker[w].at = "unborn"
  BY DEF Spawn
<1>2. worker[w] \in [at : WorkerPlaces, exam : Exams \cup {None}, ok : BOOLEAN]
  BY DEF TypeOK
<1>3. worker'[w] = [worker[w] EXCEPT !.at = "receiving"]
      /\ \A v \in Workers \ {w} : worker'[v] = worker[v]
  BY <1>1 DEF TypeOK
<1>4. "receiving" \in WorkerPlaces
  BY DEF WorkerPlaces
<1> QED
  BY <1>1, <1>2, <1>3, <1>4 DEF TypeOK

LEMMA ReceiveMoves ==
  ASSUME TypeOK, NEW w \in Workers, NEW d \in Docs, WorkerReceive(w, d)
  PROVE  \E ok \in BOOLEAN :
           /\ worker' \in [Workers -> [at : WorkerPlaces, exam : Exams \cup {None}, ok : BOOLEAN]]
           /\ worker[w].at = "receiving" /\ worker'[w].at = "working"
           /\ worker'[w].exam = Block(d) /\ worker'[w].ok = ok
           /\ \A v \in Workers \ {w} : worker'[v] = worker[v]
           /\ open' = open \cup Made(Input(Block(d)), ok)
<1>1. Handover(d) /\ worker[w].at = "receiving"
  BY DEF WorkerReceive
<1>2. PICK ok \in BOOLEAN : /\ WorkerAt(w, "working", Result(Block(d), ok))
                            /\ open' = open \cup Made(Input(Block(d)), ok)
  BY DEF WorkerReceive
<1>3. Block(d) \in Exams
  BY <1>1, HandedGrows
<1>4. Result(Block(d), ok) \in [exam : Exams \cup {None}, ok : BOOLEAN]
      /\ Result(Block(d), ok).exam = Block(d) /\ Result(Block(d), ok).ok = ok
  BY <1>3, Results
<1>5. "working" \in WorkerPlaces
  BY DEF WorkerPlaces
<1> QED
  BY <1>1, <1>2, <1>4, <1>5, WorkerMoves

LEMMA ForgottenSound ==
  ASSUME NEW ok, NEW forgotten \in Forgotten(ok)
  PROVE  forgotten \subseteq {Candidates, Warped}
BY DEF Forgotten

\* What preprocessing does to the matrices: it adds to them and closes none but
\* the exam's pages as they were rendered.
Stored(e, ok) ==
  /\ open' \subseteq open \cup Made(Output(e), ok) \cup {Candidates, Warped}
  /\ Made(Output(e), ok) \subseteq open'
  /\ open \ {Input(e)} \subseteq open'

LEMMA ProcessMoves ==
  ASSUME TypeOK, NEW w \in Workers, WorkerProcess(w)
  PROVE  \E ok \in BOOLEAN :
           /\ worker' \in [Workers -> [at : WorkerPlaces, exam : Exams \cup {None}, ok : BOOLEAN]]
           /\ worker[w].at = "working" /\ worker'[w].at = "sending"
           /\ worker'[w].exam = worker[w].exam /\ worker'[w].ok = ok
           /\ \A v \in Workers \ {w} : worker'[v] = worker[v]
           /\ Stored(worker[w].exam, ok)
<1>1. worker[w].exam \in Exams \cup {None} /\ worker[w].ok \in BOOLEAN
  BY DEF TypeOK
<1>2. PICK ok \in {worker[w].ok, FALSE} :
        /\ IF worker[w].ok THEN Process(worker[w].exam, ok) ELSE UNCHANGED open
        /\ WorkerAt(w, "sending", Result(worker[w].exam, ok))
  BY DEF WorkerProcess
<1>3. ok \in BOOLEAN
  BY <1>1
<1>4. Result(worker[w].exam, ok) \in [exam : Exams \cup {None}, ok : BOOLEAN]
      /\ Result(worker[w].exam, ok).exam = worker[w].exam /\ Result(worker[w].exam, ok).ok = ok
  BY <1>1, <1>3, Results
<1>5. "sending" \in WorkerPlaces /\ worker[w].at = "working"
  BY DEF WorkerPlaces, WorkerProcess
<1>6. Stored(worker[w].exam, ok)
  <2>1. CASE worker[w].ok
    BY <1>2, <2>1, ForgottenSound DEF Process, Stored
  <2>2. CASE ~worker[w].ok
    <3>1. open' = open /\ ok = FALSE
      BY <1>1, <1>2, <2>2
    <3> QED
      BY <3>1 DEF Stored, Made
  <2> QED
    BY <2>1, <2>2
<1> QED
  BY <1>2, <1>3, <1>4, <1>5, <1>6, WorkerMoves

\* The steps that end with empty hands.
LEMMA EmptyHanded ==
  ASSUME TypeOK, NEW w \in Workers, NEW place \in WorkerPlaces, WorkerAt(w, place, NoWork)
  PROVE  /\ worker' \in [Workers -> [at : WorkerPlaces, exam : Exams \cup {None}, ok : BOOLEAN]]
         /\ worker'[w].at = place /\ worker'[w].exam = None /\ worker'[w].ok = FALSE
         /\ \A v \in Workers \ {w} : worker'[v] = worker[v]
BY WorkerMoves, Results

\* A panic nobody recovers leaves everything as it is.
LEMMA CrashKeeps ==
  ASSUME IInv, Crash
  PROVE  IInv'
<1>1. UNCHANGED <<rendering, processing, handling, background, open>> /\ crashed' = TRUE
  BY DEF Crash
<1>2. TypeOK'
  BY <1>1 DEF IInv, TypeOK, rendering, processing, handling, background
<1>3. Counted' /\ Scheduled' /\ Closed'
  BY <1>1 DEF IInv, Counted, Running, Active, Scheduled, Closed, rendering, processing,
       handling, background
<1>4. Conserved'
  BY <1>1 DEF IInv, Conserved, Distinct, Apart, Whole, Handed, Carried, Queued, Answered, Held,
       rendering, processing, handling, background
<1>5. Memory'
  BY <1>1 DEF IInv, Memory, rendering, processing, handling, background
<1> QED
  BY <1>2, <1>3, <1>4, <1>5 DEF IInv

-----------------------------------------------------------------------------
(* The counters.                                                           *)

LEMMA RunningIsFinite == IsFiniteSet(Running) /\ IsFiniteSet(Active)
<1>1. Running \subseteq Docs /\ Active \subseteq Workers
  BY DEF Running, Active
<1> QED
  BY <1>1, FS_Subset, DocsAssumption, WorkersAssumption

LEMMA HandoverKeepsCount ==
  ASSUME TypeOK, NEW d \in Docs, Handover(d)
  PROVE  Running' = Running
BY HandoverMoves DEF Running

\* A worker that stays in its loop stays counted.
LEMMA ActiveKept ==
  ASSUME NEW w \in Workers, \A v \in Workers \ {w} : worker'[v] = worker[v],
         w \in Active <=> worker'[w].at \in {"receiving", "working", "sending"}
  PROVE  Active' = Active
BY DEF Active

LEMMA CountedStep ==
  ASSUME IInv, Next, ~crashed'
  PROVE  Counted'
<1>1. TypeOK /\ Counted
  BY DEF IInv
<1>2. ASSUME NEW d \in Docs, RendererStart(d) PROVE Counted'
  <2>1. sub[d].at = "spawned" /\ sub' = [sub EXCEPT ![d].at = "running"]
        /\ threadCount' = threadCount + 1 /\ UNCHANGED <<worker, threads>>
    BY <1>2 DEF RendererStart, processing
  <2>2. sub'[d].at = "running" /\ \A c \in Docs \ {d} : sub'[c] = sub[c]
    BY <1>1, <2>1 DEF TypeOK
  <2>3. Running' = Running \cup {d} /\ d \notin Running
    BY <2>1, <2>2 DEF Running
  <2>4. Cardinality(Running') = Cardinality(Running) + 1
    BY <2>3, RunningIsFinite, FS_AddElement
  <2> QED
    BY <1>1, <2>1, <2>4 DEF Counted, Active
<1>3. ASSUME NEW d \in Docs, RendererEnd(d) PROVE Counted'
  <2>1. sub[d].at = "running"
        /\ sub' = [sub EXCEPT ![d].at = IF threadCount = 1 THEN "closing" ELSE "ended"]
        /\ threadCount' = threadCount - 1 /\ UNCHANGED <<worker, threads>>
    BY <1>3 DEF RendererEnd, processing
  <2>2. sub'[d].at # "running" /\ \A c \in Docs \ {d} : sub'[c] = sub[c]
    BY <1>1, <2>1 DEF TypeOK
  <2>3. Running' = Running \ {d} /\ d \in Running
    BY <2>1, <2>2 DEF Running
  <2>4. Cardinality(Running') = Cardinality(Running) - 1
    BY <2>3, RunningIsFinite, FS_RemoveElement
  <2> QED
    BY <1>1, <2>1, <2>4 DEF Counted, Active
<1>4. ASSUME NEW d \in Docs, RendererClose(d) PROVE Counted'
  <2>1. sub[d].at = "closing" /\ sub' = [sub EXCEPT ![d].at = "ended"]
        /\ UNCHANGED <<threadCount, worker, threads>>
    BY <1>4 DEF RendererClose, Crash, processing
  <2>2. sub'[d].at = "ended" /\ \A c \in Docs \ {d} : sub'[c] = sub[c]
    BY <1>1, <2>1 DEF TypeOK
  <2>3. Running' = Running
    BY <2>1, <2>2 DEF Running
  <2> QED
    BY <1>1, <2>1, <2>3 DEF Counted, Active
<1>5. ASSUME NEW d \in Docs, ReceiveFirst(d) PROVE Counted'
  <2>1. Running' = Running /\ threadCount' = threadCount /\ UNCHANGED <<worker, threads>>
    BY <1>1, <1>5, HandoverMoves, HandoverKeepsCount DEF ReceiveFirst
  <2> QED
    BY <1>1, <2>1 DEF Counted, Active
<1>6. ASSUME NEW d \in Docs, Drain(d) PROVE Counted'
  <2>1. Running' = Running /\ threadCount' = threadCount /\ UNCHANGED <<worker, threads>>
    BY <1>1, <1>6, HandoverMoves, HandoverKeepsCount DEF Drain, processing
  <2> QED
    BY <1>1, <2>1 DEF Counted, Active
<1>7. ASSUME NEW d \in Docs, NEW w \in Workers, WorkerReceive(w, d) PROVE Counted'
  <2>1. Running' = Running /\ threadCount' = threadCount /\ threads' = threads
    BY <1>1, <1>7, HandoverMoves, HandoverKeepsCount DEF WorkerReceive
  <2>2. worker[w].at = "receiving" /\ worker'[w].at = "working"
        /\ \A v \in Workers \ {w} : worker'[v] = worker[v]
    BY <1>1, <1>7, ReceiveMoves
  <2>3. Active' = Active
    BY <2>2, ActiveKept DEF Active
  <2> QED
    BY <1>1, <2>1, <2>3 DEF Counted
<1>8. ASSUME NEW w \in Workers, Spawn(w) PROVE Counted'
  <2>1. worker[w].at = "unborn" /\ worker'[w].at = "receiving"
        /\ \A v \in Workers \ {w} : worker'[v] = worker[v]
    BY <1>1, <1>8, SpawnMoves
  <2>2. Active' = Active \cup {w} /\ w \notin Active
    BY <2>1 DEF Active
  <2>3. Cardinality(Active') = Cardinality(Active) + 1
    BY <2>2, RunningIsFinite, FS_AddElement
  <2> QED
    BY <1>1, <1>8, <2>3 DEF Counted, Spawn, Running, rendering
<1>9. ASSUME NEW w \in Workers, WorkerProcess(w) PROVE Counted'
  <2>1. UNCHANGED <<sub, threadCount, threads>>
    BY <1>9 DEF WorkerProcess, rendering
  <2>2. worker[w].at = "working" /\ worker'[w].at = "sending"
        /\ \A v \in Workers \ {w} : worker'[v] = worker[v]
    BY <1>1, <1>9, ProcessMoves
  <2>3. Active' = Active
    BY <2>2, ActiveKept DEF Active
  <2> QED
    BY <1>1, <2>1, <2>3 DEF Counted, Running
<1>10. ASSUME NEW w \in Workers, WorkerSend(w) PROVE Counted'
  <2>1. worker[w].at = "sending" /\ UNCHANGED <<sub, threadCount, threads>>
        /\ WorkerAt(w, "receiving", NoWork)
    BY <1>10 DEF WorkerSend, Crash, rendering
  <2>2. worker'[w].at = "receiving" /\ \A v \in Workers \ {w} : worker'[v] = worker[v]
    BY <1>1, <2>1, EmptyHanded DEF WorkerPlaces
  <2>3. Active' = Active
    BY <2>1, <2>2, ActiveKept DEF Active
  <2> QED
    BY <1>1, <2>1, <2>3 DEF Counted, Running
<1>11. ASSUME NEW w \in Workers, WorkerEnd(w) PROVE Counted'
  <2>1. worker[w].at = "receiving" /\ threads' = threads - 1 /\ UNCHANGED <<sub, threadCount>>
    BY <1>11 DEF WorkerEnd, rendering
  <2>2. PICK place \in {"closing", "ended"} : WorkerAt(w, place, NoWork)
    BY <1>11 DEF WorkerEnd
  <2>3. worker'[w].at = place /\ \A v \in Workers \ {w} : worker'[v] = worker[v]
    BY <1>1, <2>2, EmptyHanded DEF WorkerPlaces
  <2>4. Active' = Active \ {w} /\ w \in Active
    BY <2>1, <2>3 DEF Active
  <2>5. Cardinality(Active') = Cardinality(Active) - 1
    BY <2>4, RunningIsFinite, FS_RemoveElement
  <2> QED
    BY <1>1, <2>1, <2>5 DEF Counted, Running
<1>12. ASSUME NEW w \in Workers, WorkerClose(w) \/ WorkerTidy(w) PROVE Counted'
  <2>1. worker[w].at \in {"closing", "tidying"} /\ UNCHANGED <<sub, threadCount, threads>>
    BY <1>12 DEF WorkerClose, WorkerTidy, Crash, rendering
  <2>2. PICK place \in {"tidying", "ended"} : WorkerAt(w, place, NoWork)
    BY <1>12 DEF WorkerClose, WorkerTidy, Crash
  <2>3. worker'[w].at = place /\ \A v \in Workers \ {w} : worker'[v] = worker[v]
    BY <1>1, <2>2, EmptyHanded DEF WorkerPlaces
  <2>4. Active' = Active
    BY <2>1, <2>3, ActiveKept DEF Active
  <2> QED
    BY <1>1, <2>1, <2>4 DEF Counted, Running
<1>13. ASSUME SendFirst \/ Consume \/ Respond \/ DrainEnd PROVE Counted'
  BY <1>1, <1>13 DEF Counted, Running, Active, SendFirst, Consume, Respond, DrainEnd, rendering, processing
<1> QED
  BY <1>2, <1>3, <1>4, <1>5, <1>6, <1>7, <1>8, <1>9, <1>10, <1>11, <1>12, <1>13
     DEF Next, Render, Take, Work, Handle, RendererPanic, Crash
-----------------------------------------------------------------------------
(* Types.                                                                  *)

LEMMA CountsAreNat ==
  ASSUME Counted'
  PROVE  threadCount' \in Nat /\ threads' \in Nat
<1>1. Running' \subseteq Docs /\ Active' \subseteq Workers
  BY DEF Running, Active
<1>2. IsFiniteSet(Running') /\ IsFiniteSet(Active')
  BY <1>1, FS_Subset, DocsAssumption, WorkersAssumption
<1> QED
  BY <1>2, FS_CardinalityType DEF Counted

LEMMA Appended ==
  ASSUME NEW S, NEW s \in Seq(S), NEW x \in S
  PROVE  /\ Append(s, x) \in Seq(S)
         /\ Len(Append(s, x)) = Len(s) + 1
         /\ DOMAIN s = 1..Len(s) /\ DOMAIN Append(s, x) = 1..(Len(s) + 1)
         /\ \A i \in 1..Len(s) : Append(s, x)[i] = s[i]
         /\ Append(s, x)[Len(s) + 1] = x
         /\ Len(s) \in Nat
BY LenProperties, AppendProperties, SMT

LEMMA SentIsLast ==
  ASSUME NEW S, NEW s \in Seq(S), NEW x \in S, NEW i \in DOMAIN Append(s, x)
  PROVE  Append(s, x)[i] = x \/ (i \in DOMAIN s /\ Append(s, x)[i] = s[i])
<1>1. i \in 1..(Len(s) + 1) /\ Len(s) \in Nat
  BY Appended
<1>2. i \in 1..Len(s) \/ i = Len(s) + 1
  BY <1>1, SMT
<1> QED
  BY <1>2, Appended

LEMMA CapIsNat == Cap \in Nat
BY WorkersAssumption, FS_CardinalityType DEF Cap

\* A worker that holds an exam, and the handler that holds one back, can send it.
LEMMA Sendable ==
  ASSUME TypeOK, Scheduled
  PROVE  /\ main = "spawning" => first \in ResultType
         /\ \A w \in Workers : worker[w].at \in {"working", "sending"} =>
              /\ worker[w].exam \in Exams
              /\ Result(worker[w].exam, worker[w].ok) \in ResultType
<1>1. main = "spawning" => first \in ResultType
  BY Results DEF TypeOK, Scheduled
<1>2. ASSUME NEW w \in Workers, worker[w].at \in {"working", "sending"}
      PROVE  worker[w].exam \in Exams /\ Result(worker[w].exam, worker[w].ok) \in ResultType
  <2>1. worker[w] \in [at : WorkerPlaces, exam : Exams \cup {None}, ok : BOOLEAN]
    BY DEF TypeOK
  <2>2. worker[w].exam \in Exams /\ worker[w].ok \in BOOLEAN
    BY <1>2, <2>1 DEF Scheduled
  <2> QED
    BY <2>2, Results
<1> QED
  BY <1>1, <1>2

LEMMA MatricesOf ==
  ASSUME NEW e \in Exams, NEW ok
  PROVE  /\ {Loaded, Scaled, Candidates, Warped, Unscaled} \subseteq Matrices
         /\ Made(Input(e), ok) \subseteq Matrices /\ Made(Output(e), ok) \subseteq Matrices
BY DEF Matrices, Made

LEMMA TypeStep ==
  ASSUME IInv, Next, ~crashed'
  PROVE  TypeOK'
<1>1. TypeOK /\ Scheduled
  BY DEF IInv
<1>2. threadCount' \in Nat /\ threads' \in Nat
  BY CountedStep, CountsAreNat
<1>3. ASSUME NEW d \in Docs, RendererStart(d) \/ RendererEnd(d) \/ RendererClose(d) PROVE TypeOK'
  <2>1. PICK place \in {"running", "closing", "ended"} : sub' = [sub EXCEPT ![d].at = place]
    BY <1>3 DEF RendererStart, RendererEnd, RendererClose, Crash
  <2>2. /\ examsClosed' \in BOOLEAN /\ crashed' \in BOOLEAN
        /\ UNCHANGED <<processing, handling, background, open>>
    BY <1>1, <1>3 DEF RendererStart, RendererEnd, RendererClose, Crash, Alive, TypeOK
  <2>3. sub[d] \in [at : {"spawned", "running", "closing", "ended"}, next : Nat \ {0}]
    BY <1>1 DEF TypeOK
  <2>4. \A c \in Docs : sub'[c] = IF c = d THEN [sub[d] EXCEPT !.at = place] ELSE sub[c]
    BY <1>1, <2>1 DEF TypeOK
  <2>5. /\ sub' \in [Docs -> [at : {"spawned", "running", "closing", "ended"}, next : Nat \ {0}]]
        /\ \A c \in Docs : sub'[c].next = sub[c].next
    BY <1>1, <2>1, <2>3, <2>4 DEF TypeOK
  <2> QED
    BY <1>1, <1>2, <2>2, <2>5 DEF TypeOK, processing, handling, background
<1>4. ASSUME NEW d \in Docs, Handover(d)
      PROVE  /\ sub' \in [Docs -> [at : {"spawned", "running", "closing", "ended"}, next : Nat \ {0}]]
             /\ \A c \in Docs : sub'[c].next <= Blocks[c] + 1
             /\ examsClosed' \in BOOLEAN /\ crashed' \in BOOLEAN
  <2>1. sub[d].next \in 1..Blocks[d] /\ sub'[d].next = sub[d].next + 1
        /\ \A c \in Docs \ {d} : sub'[c] = sub[c]
    BY <1>1, <1>4, HandoverMoves
  <2>2. sub'[d].next <= Blocks[d] + 1
    BY <2>1, BlocksAreNat, SMT
  <2> QED
    BY <1>1, <1>4, <2>1, <2>2, HandoverMoves DEF TypeOK
<1>5. ASSUME NEW d \in Docs, ReceiveFirst(d) PROVE TypeOK'
  <2>1. Handover(d) /\ UNCHANGED <<worker, threads, out, outClosed, answers>>
    BY <1>5 DEF ReceiveFirst
  <2>2. Block(d) \in Exams
    BY <1>1, <2>1, HandedGrows
  <2>3. CASE Calibrate(Block(d))
    <3>1. PICK ok \in BOOLEAN : \E forgotten \in Forgotten(ok) :
            /\ first' = Result(Block(d), ok)
            /\ open' = open \cup {Scaled} \cup Made(Output(Block(d)), ok) \cup forgotten
      BY <2>3 DEF Calibrate
    <3>2. first' \in ResultType
      BY <2>2, <3>1, Results
    <3>3. open' \subseteq Matrices
      <4>1. PICK forgotten \in Forgotten(ok) :
              open' = open \cup {Scaled} \cup Made(Output(Block(d)), ok) \cup forgotten
        BY <3>1
      <4>2. /\ Scaled \in Matrices /\ forgotten \subseteq Matrices
            /\ Made(Output(Block(d)), ok) \subseteq Matrices
        BY <2>2, ForgottenSound, MatricesOf
      <4> QED
        BY <1>1, <4>1, <4>2 DEF TypeOK
    <3>4. main' \in Places /\ UNCHANGED background
      BY <2>3 DEF Calibrate, Places
    <3> QED
      BY <1>1, <1>2, <1>4, <2>1, <3>2, <3>3, <3>4 DEF TypeOK, background
  <2>4. CASE Refuse(Block(d))
    <3>1. /\ main' \in Places /\ first' = first
          /\ draining' \in BOOLEAN /\ drained' \subseteq Exams
      BY <1>1, <2>2, <2>4 DEF Refuse, Places, Done, TypeOK
    <3>2. open' \subseteq Matrices
      <4>1. PICK failed \in BOOLEAN : open' = (open \ {Loaded}) \cup Made(Unscaled, failed)
        BY <2>4 DEF Refuse
      <4>2. Made(Unscaled, failed) \subseteq Matrices
        BY <2>2, MatricesOf DEF Made
      <4> QED
        BY <1>1, <4>1, <4>2 DEF TypeOK
    <3> QED
      BY <1>1, <1>2, <1>4, <2>1, <3>1, <3>2 DEF TypeOK
  <2> QED
    BY <1>5, <2>3, <2>4 DEF ReceiveFirst
<1>6. ASSUME NEW d \in Docs, Drain(d) PROVE TypeOK'
  <2>1. /\ Handover(d) /\ UNCHANGED <<processing, handling, draining, open>>
        /\ drained' = drained \cup {Block(d)}
    BY <1>6 DEF Drain
  <2>2. Block(d) \in Exams
    BY <1>1, <2>1, HandedGrows
  <2> QED
    BY <1>1, <1>2, <1>4, <2>1, <2>2 DEF TypeOK, processing, handling
<1>7. ASSUME NEW d \in Docs, NEW w \in Workers, WorkerReceive(w, d) PROVE TypeOK'
  <2>1. Handover(d) /\ UNCHANGED <<first, threads, out, outClosed, handling, background>>
    BY <1>7 DEF WorkerReceive
  <2>2. PICK ok \in BOOLEAN :
          /\ worker' \in [Workers -> [at : WorkerPlaces, exam : Exams \cup {None}, ok : BOOLEAN]]
          /\ open' = open \cup Made(Input(Block(d)), ok)
    BY <1>1, <1>7, ReceiveMoves
  <2>3. open' \subseteq Matrices
    BY <1>1, <2>1, <2>2, HandedGrows, MatricesOf DEF TypeOK
  <2> QED
    BY <1>1, <1>2, <1>4, <2>1, <2>2, <2>3 DEF TypeOK, handling, background
<1>8. ASSUME NEW w \in Workers, Spawn(w) PROVE TypeOK'
  <2>1. /\ UNCHANGED <<rendering, first, out, outClosed, handling, background, open>>
        /\ crashed' = FALSE
    BY <1>8 DEF Spawn, Alive
  <2> QED
    BY <1>1, <1>2, <1>8, <2>1, SpawnMoves DEF TypeOK, rendering, handling, background
<1>9. ASSUME NEW w \in Workers, WorkerProcess(w) PROVE TypeOK'
  <2>1. /\ UNCHANGED <<rendering, first, threads, out, outClosed, handling, background>>
        /\ crashed' = FALSE
    BY <1>9 DEF WorkerProcess, Alive
  <2>2. PICK ok \in BOOLEAN :
          /\ worker' \in [Workers -> [at : WorkerPlaces, exam : Exams \cup {None}, ok : BOOLEAN]]
          /\ worker[w].at = "working"
          /\ Stored(worker[w].exam, ok)
    BY <1>1, <1>9, ProcessMoves
  <2>3. open' \subseteq Matrices
    <3>1. worker[w].exam \in Exams
      BY <1>1, <2>2, Sendable
    <3> QED
      BY <1>1, <2>2, <3>1, MatricesOf DEF Stored, TypeOK
  <2> QED
    BY <1>1, <1>2, <2>1, <2>2, <2>3 DEF TypeOK, rendering, handling, background
<1>10. ASSUME NEW w \in Workers, WorkerSend(w) PROVE TypeOK'
  <2>1. /\ UNCHANGED <<rendering, first, threads, outClosed, handling, background, open>>
        /\ crashed' = FALSE /\ WorkerAt(w, "receiving", NoWork) /\ worker[w].at = "sending"
        /\ Len(out) < Cap /\ out' = Append(out, Result(worker[w].exam, worker[w].ok))
    BY <1>10 DEF WorkerSend, Alive, Crash
  <2>2. worker' \in [Workers -> [at : WorkerPlaces, exam : Exams \cup {None}, ok : BOOLEAN]]
    BY <1>1, <2>1, EmptyHanded DEF WorkerPlaces
  <2>3. out' \in Seq(ResultType) /\ Len(out') = Len(out) + 1 /\ Len(out) \in Nat
    BY <1>1, <2>1, Sendable, Appended DEF TypeOK
  <2>4. Len(out') <= Cap
    BY <2>1, <2>3, CapIsNat, SMT
  <2> QED
    BY <1>1, <1>2, <2>1, <2>2, <2>3, <2>4 DEF TypeOK, rendering, handling, background
<1>11. ASSUME NEW w \in Workers, WorkerEnd(w) \/ WorkerClose(w) \/ WorkerTidy(w) PROVE TypeOK'
  <2>1. /\ UNCHANGED <<rendering, first, out, handling, background>>
        /\ crashed' = FALSE /\ outClosed' \in BOOLEAN /\ open' \subseteq Matrices
    BY <1>1, <1>11 DEF WorkerEnd, WorkerClose, WorkerTidy, Alive, Crash, TypeOK
  <2>2. PICK place \in {"closing", "tidying", "ended"} : WorkerAt(w, place, NoWork)
    BY <1>11 DEF WorkerEnd, WorkerClose, WorkerTidy, Crash
  <2>3. worker' \in [Workers -> [at : WorkerPlaces, exam : Exams \cup {None}, ok : BOOLEAN]]
    BY <1>1, <2>2, EmptyHanded DEF WorkerPlaces
  <2> QED
    BY <1>1, <1>2, <2>1, <2>3 DEF TypeOK, rendering, handling, background
<1>12. ASSUME SendFirst PROVE TypeOK'
  <2>1. /\ UNCHANGED <<rendering, worker, threads, outClosed, answers, background>>
        /\ crashed' = FALSE /\ main = "spawning"
    BY <1>12 DEF SendFirst, Alive
  <2>2. CASE outClosed
    <3>1. main' = "panicked" /\ open' = open \ {Loaded} /\ UNCHANGED <<first, out>>
      BY <1>12, <2>2 DEF SendFirst, Return
    <3> QED
      BY <1>1, <1>2, <2>1, <3>1 DEF TypeOK, rendering, background, Places, Done
  <2>3. CASE ~outClosed
    <3>1. Len(out) < Cap /\ out' = Append(out, first) /\ first' = NoWork
          /\ main' = "consuming" /\ open' = open
      BY <1>12, <2>3 DEF SendFirst
    <3>2. out' \in Seq(ResultType) /\ Len(out') = Len(out) + 1 /\ Len(out) \in Nat
      BY <1>1, <2>1, <3>1, Sendable, Appended DEF TypeOK
    <3>3. Len(out') <= Cap
      BY <3>1, <3>2, CapIsNat, SMT
    <3> QED
      BY <1>1, <1>2, <2>1, <3>1, <3>2, <3>3 DEF TypeOK, rendering, background, Places
  <2> QED
    BY <2>2, <2>3
<1>13. ASSUME Consume PROVE TypeOK'
  <2>1. /\ UNCHANGED <<rendering, first, worker, threads, outClosed, main, background, open>>
        /\ crashed' = FALSE /\ out # <<>>
        /\ answers' = Append(answers, Head(out).exam) /\ out' = Tail(out)
    BY <1>13 DEF Consume, Alive
  <2>2. Head(out) \in ResultType /\ out' \in Seq(ResultType) /\ Len(out') = Len(out) - 1
        /\ Len(out) \in Nat
    BY <1>1, <2>1, HeadTailProperties, LenProperties DEF TypeOK
  <2>3. Head(out).exam \in Exams
    BY <2>2 DEF ResultType
  <2>4. answers' \in Seq(Exams)
    BY <1>1, <2>1, <2>3, Appended DEF TypeOK
  <2>5. Len(out') <= Cap
    BY <1>1, <2>2, CapIsNat, SMT DEF TypeOK
  <2> QED
    BY <1>1, <1>2, <2>1, <2>2, <2>4, <2>5 DEF TypeOK, rendering, background
<1>14. ASSUME Respond \/ DrainEnd PROVE TypeOK'
  <2>1. /\ UNCHANGED <<rendering, processing, answers, drained>>
        /\ crashed' = FALSE /\ draining' \in BOOLEAN /\ main' \in Places /\ open' \subseteq Matrices
    BY <1>1, <1>14 DEF Respond, DrainEnd, Return, Alive, TypeOK, background, handling, Places, Done
  <2> QED
    BY <1>1, <1>2, <2>1 DEF TypeOK, rendering, processing
<1> QED
  BY <1>3, <1>5, <1>6, <1>7, <1>8, <1>9, <1>10, <1>11, <1>12, <1>13, <1>14
     DEF Next, Render, Take, Work, Handle, RendererPanic, Crash
-----------------------------------------------------------------------------
(* Who holds what where.                                                   *)

LEMMA ScheduledStep ==
  ASSUME IInv, Next, ~crashed'
  PROVE  Scheduled'
<1>1. TypeOK /\ Scheduled /\ Closed
  BY DEF IInv
<1>2. ASSUME NEW d \in Docs, RendererStart(d) \/ RendererEnd(d) \/ RendererClose(d)
      PROVE  Scheduled'
  <2>1. UNCHANGED <<processing, handling, background>>
    BY <1>2 DEF RendererStart, RendererEnd, RendererClose, Crash
  <2>2. PICK place \in {"running", "closing", "ended"} :
          /\ sub' = [sub EXCEPT ![d].at = place]
          /\ place # "running" => sub[d].next > Blocks[d] \/ sub[d].at = "closing"
    BY <1>2 DEF RendererStart, RendererEnd, RendererClose, Crash
  <2>3. /\ sub[d].next \in Nat /\ sub[d].next <= Blocks[d] + 1
        /\ sub'[d].at = place /\ sub'[d].next = sub[d].next
        /\ \A c \in Docs \ {d} : sub'[c] = sub[c]
    BY <1>1, <2>2 DEF TypeOK
  <2>4. place # "running" => sub[d].next = Blocks[d] + 1
    <3>1. sub[d].at = "closing" => sub[d].next = Blocks[d] + 1
      BY <1>1 DEF Scheduled
    <3> QED
      BY <2>2, <2>3, <3>1, BlocksAreNat, SMT
  <2>5. \A c \in Docs : sub'[c].at \in {"closing", "ended"} => sub'[c].next = Blocks[c] + 1
    BY <1>1, <2>3, <2>4 DEF Scheduled
  <2> QED
    BY <1>1, <2>1, <2>5 DEF Scheduled, processing, handling, background
<1>3. ASSUME NEW d \in Docs, Handover(d)
      PROVE  \A c \in Docs : sub'[c].at \in {"closing", "ended"} => sub'[c].next = Blocks[c] + 1
  BY <1>1, <1>3, HandoverMoves DEF Scheduled
<1>4. ASSUME NEW d \in Docs, ReceiveFirst(d) PROVE Scheduled'
  <2>1. Handover(d) /\ main = "calibrating" /\ UNCHANGED <<worker, out, outClosed>>
    BY <1>4 DEF ReceiveFirst
  <2>2. \A w \in Workers : worker'[w].at = "unborn" /\ worker'[w].exam = None
    BY <1>1, <2>1 DEF Scheduled
  <2>3. CASE Calibrate(Block(d))
    <3>1. main' = "spawning" /\ first'.exam = Block(d) /\ UNCHANGED <<draining, drained>>
      BY <2>3, Results DEF Calibrate, background
    <3>2. first'.exam # None
      BY <1>1, <2>1, <3>1, HandedGrows, NoneAssumption
    <3> QED
      BY <1>1, <1>3, <2>1, <2>2, <3>1, <3>2 DEF Scheduled
  <2>4. CASE Refuse(Block(d))
    <3>1. main' = "refused" /\ first' = NoWork
      BY <1>1, <2>1, <2>4 DEF Refuse, Return, Scheduled
    <3> QED
      BY <1>3, <2>1, <2>2, <3>1 DEF Scheduled
  <2> QED
    BY <1>4, <2>3, <2>4 DEF ReceiveFirst
<1>5. ASSUME NEW d \in Docs, Drain(d) PROVE Scheduled'
  <2>1. Handover(d) /\ draining /\ UNCHANGED <<processing, handling, draining>>
    BY <1>5 DEF Drain
  <2>2. main = "refused"
    BY <1>1, <2>1 DEF Scheduled
  <2> QED
    BY <1>1, <1>3, <2>1, <2>2 DEF Scheduled, processing, handling
<1>6. ASSUME NEW d \in Docs, NEW w \in Workers, WorkerReceive(w, d) PROVE Scheduled'
  <2>1. Handover(d) /\ UNCHANGED <<first, out, outClosed, handling, background>>
    BY <1>6 DEF WorkerReceive
  <2>2. /\ worker[w].at = "receiving" /\ worker'[w].at = "working" /\ worker'[w].exam = Block(d)
        /\ \A v \in Workers \ {w} : worker'[v] = worker[v]
    BY <1>1, <1>6, ReceiveMoves
  <2>3. Block(d) # None
    BY <1>1, <2>1, HandedGrows, NoneAssumption
  <2>4. main \notin {"calibrating", "refused"}
    BY <1>1, <2>2 DEF Scheduled
  <2> QED
    BY <1>1, <1>3, <2>1, <2>2, <2>3, <2>4 DEF Scheduled, handling, background
<1>7. ASSUME NEW w \in Workers, Spawn(w) PROVE Scheduled'
  <2>1. main = "spawning" /\ UNCHANGED <<rendering, first, out, outClosed, handling, background>>
    BY <1>7 DEF Spawn
  <2>2. /\ worker[w].at = "unborn" /\ worker'[w].at = "receiving"
        /\ worker'[w].exam = worker[w].exam
        /\ \A v \in Workers \ {w} : worker'[v] = worker[v]
    BY <1>1, <1>7, SpawnMoves
  <2> QED
    BY <1>1, <2>1, <2>2 DEF Scheduled, rendering, handling, background
<1>8. ASSUME NEW w \in Workers, WorkerProcess(w) PROVE Scheduled'
  <2>1. UNCHANGED <<rendering, first, out, outClosed, handling, background>>
    BY <1>8 DEF WorkerProcess
  <2>2. /\ worker[w].at = "working" /\ worker'[w].at = "sending"
        /\ worker'[w].exam = worker[w].exam
        /\ \A v \in Workers \ {w} : worker'[v] = worker[v]
    BY <1>1, <1>8, ProcessMoves
  <2>3. main \notin {"calibrating", "refused"}
    BY <1>1, <2>2 DEF Scheduled
  <2> QED
    BY <1>1, <2>1, <2>2, <2>3 DEF Scheduled, rendering, handling, background
<1>9. ASSUME NEW w \in Workers, WorkerSend(w) PROVE Scheduled'
  <2>1. /\ UNCHANGED <<rendering, first, outClosed, handling, background>>
        /\ WorkerAt(w, "receiving", NoWork) /\ worker[w].at = "sending" /\ ~outClosed
    BY <1>9 DEF WorkerSend, Crash
  <2>2. /\ worker'[w].at = "receiving" /\ worker'[w].exam = None
        /\ \A v \in Workers \ {w} : worker'[v] = worker[v]
    BY <1>1, <2>1, EmptyHanded DEF WorkerPlaces
  <2>3. main \notin {"calibrating", "refused"}
    BY <1>1, <2>1 DEF Scheduled
  <2> QED
    BY <1>1, <2>1, <2>2, <2>3 DEF Scheduled, rendering, handling, background
<1>10. ASSUME NEW w \in Workers, WorkerEnd(w) \/ WorkerClose(w) \/ WorkerTidy(w) PROVE Scheduled'
  <2>1. UNCHANGED <<rendering, first, out, handling, background>>
    BY <1>10 DEF WorkerEnd, WorkerClose, WorkerTidy, Crash
  <2>2. PICK place \in {"closing", "tidying", "ended"} :
          /\ WorkerAt(w, place, NoWork)
          /\ place = "tidying" => outClosed'
    BY <1>10 DEF WorkerEnd, WorkerClose, WorkerTidy, Crash
  <2>3. worker[w].at # "unborn" /\ (outClosed => outClosed')
    BY <1>10 DEF WorkerEnd, WorkerClose, WorkerTidy, Crash
  <2>4. /\ worker'[w].at = place /\ worker'[w].exam = None
        /\ \A v \in Workers \ {w} : worker'[v] = worker[v]
    BY <1>1, <2>2, EmptyHanded DEF WorkerPlaces
  <2>5. main \notin {"calibrating", "refused"}
    BY <1>1, <2>3 DEF Scheduled
  <2> QED
    BY <1>1, <2>1, <2>2, <2>3, <2>4, <2>5 DEF Scheduled, rendering, handling, background
<1>11. ASSUME SendFirst PROVE Scheduled'
  BY <1>1, <1>11 DEF Scheduled, SendFirst, Return, rendering, background
<1>12. ASSUME Consume PROVE Scheduled'
  BY <1>1, <1>12 DEF Scheduled, Consume, rendering, background
<1>13. ASSUME Respond PROVE Scheduled'
  BY <1>1, <1>13 DEF Scheduled, Respond, Return, rendering, processing, background
<1>14. ASSUME DrainEnd PROVE Scheduled'
  BY <1>1, <1>14 DEF Scheduled, DrainEnd, rendering, processing, handling
<1> QED
  BY <1>2, <1>4, <1>5, <1>6, <1>7, <1>8, <1>9, <1>10, <1>11, <1>12, <1>13, <1>14
     DEF Next, Render, Take, Work, Handle, RendererPanic, Crash

\* The last worker counted in is alone in its loop.
LEMMA LastIsAlone ==
  ASSUME Counted, NEW w \in Active, LastWorker
  PROVE  Active = {w}
<1>1. Cardinality(Active) = 1 /\ IsFiniteSet(Active)
  BY RunningIsFinite DEF Counted, LastWorker
<1>2. PICK x : Active = {x}
  BY <1>1, FS_Singleton
<1> QED
  BY <1>2

LEMMA ClosedStep ==
  ASSUME IInv, Next, ~crashed'
  PROVE  Closed'
<1>1. TypeOK /\ Counted /\ Scheduled /\ Closed
  BY DEF IInv
<1>2. ASSUME NEW d \in Docs, RendererStart(d) \/ RendererEnd(d) \/ RendererClose(d)
      PROVE  Closed'
  <2>1. UNCHANGED processing /\ (examsClosed => examsClosed')
    BY <1>2 DEF RendererStart, RendererEnd, RendererClose, Crash
  <2> QED
    BY <1>1, <2>1 DEF Closed, processing
<1>3. ASSUME NEW d \in Docs, ReceiveFirst(d) PROVE Closed'
  <2>1. Handover(d) /\ UNCHANGED <<worker, outClosed>>
    BY <1>3 DEF ReceiveFirst
  <2> QED
    BY <1>1, <2>1, HandoverMoves DEF Closed
<1>4. ASSUME NEW d \in Docs, Drain(d) PROVE Closed'
  <2>1. Handover(d) /\ UNCHANGED <<worker, outClosed>>
    BY <1>4 DEF Drain, processing
  <2> QED
    BY <1>1, <2>1, HandoverMoves DEF Closed
<1>5. ASSUME NEW d \in Docs, NEW w \in Workers, WorkerReceive(w, d) PROVE Closed'
  <2>1. Handover(d) /\ outClosed' = outClosed
    BY <1>5 DEF WorkerReceive
  <2>2. worker'[w].at = "working" /\ \A v \in Workers \ {w} : worker'[v] = worker[v]
    BY <1>1, <1>5, ReceiveMoves
  <2>3. ~examsClosed /\ ~outClosed /\ \A v \in Workers : worker[v].at # "closing"
    BY <1>1, <2>1, HandoverMoves DEF Closed
  <2> QED
    BY <2>1, <2>2, <2>3 DEF Closed
<1>6. ASSUME NEW w \in Workers, Spawn(w) PROVE Closed'
  <2>1. UNCHANGED <<examsClosed, outClosed>>
    BY <1>6 DEF Spawn, rendering
  <2>2. /\ worker'[w].at = "receiving" /\ worker'[w].exam = worker[w].exam
        /\ \A v \in Workers \ {w} : worker'[v] = worker[v]
    BY <1>1, <1>6, SpawnMoves
  <2> QED
    BY <1>1, <2>1, <2>2 DEF Closed
<1>7. ASSUME NEW w \in Workers, WorkerProcess(w) PROVE Closed'
  <2>1. UNCHANGED <<examsClosed, outClosed>>
    BY <1>7 DEF WorkerProcess, rendering
  <2>2. /\ worker'[w].at = "sending" /\ worker'[w].exam = worker[w].exam
        /\ \A v \in Workers \ {w} : worker'[v] = worker[v]
    BY <1>1, <1>7, ProcessMoves
  <2> QED
    BY <1>1, <2>1, <2>2 DEF Closed
<1>8. ASSUME NEW w \in Workers, WorkerSend(w) PROVE Closed'
  <2>1. UNCHANGED <<examsClosed, outClosed>> /\ WorkerAt(w, "receiving", NoWork)
    BY <1>8 DEF WorkerSend, Crash, rendering
  <2>2. /\ worker'[w].at = "receiving" /\ worker'[w].exam = None
        /\ \A v \in Workers \ {w} : worker'[v] = worker[v]
    BY <1>1, <2>1, EmptyHanded DEF WorkerPlaces
  <2> QED
    BY <1>1, <2>1, <2>2 DEF Closed
<1>9. ASSUME NEW w \in Workers, WorkerEnd(w) PROVE Closed'
  <2>1. /\ worker[w].at = "receiving" /\ examsClosed /\ UNCHANGED <<examsClosed, outClosed>>
    BY <1>9 DEF WorkerEnd, rendering
  <2>2. PICK place \in {"closing", "ended"} :
          WorkerAt(w, place, NoWork) /\ (place = "closing" => LastWorker)
    BY <1>9 DEF WorkerEnd
  <2>3. /\ worker'[w].at = place /\ worker'[w].exam = None
        /\ \A v \in Workers \ {w} : worker'[v] = worker[v]
    BY <1>1, <2>2, EmptyHanded DEF WorkerPlaces
  <2>4. CASE LastWorker
    <3>1. Active = {w}
      BY <1>1, <2>1, <2>4, LastIsAlone DEF Active
    <3>2. \A v \in Workers \ {w} : worker[v].at \notin {"working", "sending"}
      BY <3>1 DEF Active
    <3>3. \A v \in Workers \ {w} : worker[v].exam = None
      BY <1>1, <3>2 DEF Scheduled
    <3> QED
      BY <2>1, <2>3, <3>3 DEF Closed
  <2>5. CASE ~LastWorker
    BY <1>1, <2>1, <2>2, <2>3, <2>5 DEF Closed
  <2> QED
    BY <2>4, <2>5
<1>10. ASSUME NEW w \in Workers, WorkerClose(w) \/ WorkerTidy(w) PROVE Closed'
  <2>1. /\ examsClosed' = examsClosed
        /\ worker[w].at = "closing" \/ outClosed
    BY <1>1, <1>10 DEF WorkerClose, WorkerTidy, Crash, rendering, Scheduled
  <2>2. PICK place \in {"tidying", "ended"} : WorkerAt(w, place, NoWork)
    BY <1>10 DEF WorkerClose, WorkerTidy, Crash
  <2>3. /\ worker'[w].at = place /\ worker'[w].exam = None
        /\ \A v \in Workers \ {w} : worker'[v] = worker[v]
    BY <1>1, <2>2, EmptyHanded DEF WorkerPlaces
  <2>4. examsClosed /\ \A v \in Workers : worker[v].exam = None
    BY <1>1, <2>1 DEF Closed
  <2> QED
    BY <2>1, <2>3, <2>4 DEF Closed
<1>11. ASSUME SendFirst \/ Consume \/ Respond \/ DrainEnd PROVE Closed'
  BY <1>1, <1>11 DEF Closed, SendFirst, Consume, Respond, DrainEnd, rendering, processing
<1> QED
  BY <1>2, <1>3, <1>4, <1>5, <1>6, <1>7, <1>8, <1>9, <1>10, <1>11
     DEF Next, Render, Take, Work, Handle, RendererPanic, Crash
-----------------------------------------------------------------------------
(* An exam moves from hand to hand.                                        *)

LEMMA CarriedBy ==
  ASSUME NEW e
  PROVE  e \in Carried <=> e # None /\ \E w \in Workers : worker[w].exam = e
BY DEF Carried

LEMMA ConservedUnlessMoved ==
  ASSUME Conserved, UNCHANGED <<first, out, answers, drained>>, Handed' = Handed,
         \A w \in Workers : worker'[w].exam = worker[w].exam
  PROVE  Conserved'
<1>1. Carried' = Carried /\ Queued' = Queued /\ Answered' = Answered /\ Held' = Held
  BY DEF Carried, Queued, Answered, Held
<1>2. Distinct'
  BY DEF Conserved, Distinct
<1> QED
  BY <1>1, <1>2 DEF Conserved, Apart, Whole

\* A new exam goes to one place.
LEMMA ConservedWhenReceived ==
  ASSUME TypeOK, Conserved, NEW d \in Docs, Handover(d), UNCHANGED <<out, answers>>, Distinct',
         \/ Carried' = Carried \cup {Block(d)} /\ Held' = Held /\ drained' = drained
         \/ Carried' = Carried /\ Held' = {Block(d)} /\ Held = {} /\ drained' = drained
         \/ Carried' = Carried /\ Held' = Held /\ drained' = drained \cup {Block(d)}
  PROVE  Conserved'
<1>1. Queued' = Queued /\ Answered' = Answered
  BY DEF Queued, Answered
<1>2. Block(d) \in Exams /\ Block(d) \notin Handed /\ Handed' = Handed \cup {Block(d)}
  BY HandedGrows
<1>3. Block(d) \notin Carried \cup Queued \cup Answered \cup Held \cup drained
  BY <1>2 DEF Conserved, Whole
<1>4. Whole'
  BY <1>1, <1>2 DEF Conserved, Whole
<1>5. Apart'
  BY <1>1, <1>3 DEF Conserved, Apart
<1> QED
  BY <1>4, <1>5 DEF Conserved

\* An exam e goes from one place to another.
LEMMA ApartWhenMoved ==
  ASSUME Conserved, NEW e \in Exams, Handed' = Handed, drained' = drained,
         \/ /\ e \in Carried /\ Carried' = Carried \ {e} /\ Queued' = Queued \cup {e}
            /\ Held' = Held /\ Answered' = Answered
         \/ /\ e \in Held /\ Held' = Held \ {e} /\ Queued' = Queued \cup {e}
            /\ Carried' = Carried /\ Answered' = Answered
         \/ /\ e \in Queued /\ Queued' = Queued \ {e} /\ Answered' = Answered \cup {e}
            /\ Carried' = Carried /\ Held' = Held
  PROVE  Apart' /\ Whole'
<1>1. Apart'
  BY DEF Conserved, Apart
<1>2. Whole'
  BY DEF Conserved, Whole
<1> QED
  BY <1>1, <1>2

\* What is sent is in the channel, where it was not.
LEMMA QueuedWhenSent ==
  ASSUME TypeOK, Distinct, NEW r \in ResultType, out' = Append(out, r), r.exam \notin Queued
  PROVE  /\ Queued' = Queued \cup {r.exam}
         /\ \A i, j \in DOMAIN out' : out'[i].exam = out'[j].exam => i = j
<1> DEFINE n == Len(out)
<1>1. /\ n \in Nat /\ DOMAIN out = 1..n /\ DOMAIN out' = 1..(n + 1)
      /\ \A i \in 1..n : out'[i] = out[i]
      /\ out'[n + 1] = r
  BY Appended DEF TypeOK
<1> HIDE DEF n
<1>2. 1..(n + 1) = 1..n \cup {n + 1} /\ n + 1 \notin 1..n
  BY <1>1, SMT
<1>3. Queued' = Queued \cup {r.exam}
  BY <1>1, <1>2 DEF Queued
<1>4. \A i \in 1..n : out[i].exam # r.exam
  BY <1>1 DEF Queued
<1>5. \A i, j \in 1..n : out[i].exam = out[j].exam => i = j
  BY <1>1 DEF Distinct
<1>6. \A i, j \in 1..(n + 1) : out'[i].exam = out'[j].exam => i = j
  BY <1>1, <1>2, <1>4, <1>5
<1> QED
  BY <1>1, <1>3, <1>6

\* What the handler takes is the first, and it is in the channel once.
LEMMA QueuedWhenTaken ==
  ASSUME TypeOK, Distinct, out # <<>>, out' = Tail(out)
  PROVE  /\ Head(out).exam \in Queued /\ Head(out).exam \in Exams
         /\ Queued' = Queued \ {Head(out).exam}
         /\ \A i, j \in DOMAIN out' : out'[i].exam = out'[j].exam => i = j
         /\ \A i \in DOMAIN out' : i + 1 \in DOMAIN out /\ out'[i] = out[i + 1]
<1> DEFINE n == Len(out)
<1>1. /\ n \in Nat \ {0} /\ DOMAIN out = 1..n /\ DOMAIN out' = 1..(n - 1)
      /\ \A i \in 1..(n - 1) : out'[i] = out[i + 1]
      /\ Head(out) = out[1] /\ out[1] \in ResultType
  <2>1. out \in Seq(ResultType)
    BY DEF TypeOK
  <2>2. n \in Nat \ {0} /\ DOMAIN out = 1..n
    BY <2>1, EmptySeq, LenProperties
  <2>3. out' \in Seq(ResultType) /\ Len(out') = n - 1 /\ \A i \in 1..Len(out') : out'[i] = out[i + 1]
    BY <2>1, HeadTailProperties
  <2>4. DOMAIN out' = 1..Len(out')
    BY <2>3, LenProperties
  <2>5. Head(out) = out[1]
    BY <2>1, <2>2, SMT
  <2>6. 1 \in 1..n
    BY <2>2, SMT
  <2>7. out[1] \in ResultType
    BY <2>1, <2>6, ElementOfSeq
  <2> QED
    BY <2>2, <2>3, <2>4, <2>5, <2>7
<1> HIDE DEF n
<1>2. /\ 1 \in 1..n
      /\ \A i \in 1..(n - 1) : i + 1 \in 1..n /\ i + 1 # 1
      /\ \A i \in 1..n : i = 1 \/ (i - 1 \in 1..(n - 1) /\ (i - 1) + 1 = i)
      /\ \A i, j \in 1..(n - 1) : i + 1 = j + 1 => i = j
  BY <1>1, SMT
<1>3. \A i, j \in 1..n : out[i].exam = out[j].exam => i = j
  BY <1>1 DEF Distinct
<1>4. Head(out).exam \in Queued
  BY <1>1, <1>2 DEF Queued
<1>5. Head(out).exam \in Exams
  BY <1>1 DEF ResultType
<1>6. Queued' = Queued \ {Head(out).exam}
  <2>1. ASSUME NEW e, e \in Queued' PROVE e \in Queued /\ e # Head(out).exam
    <3>1. PICK i \in 1..(n - 1) : e = out'[i].exam
      BY <2>1, <1>1 DEF Queued
    <3>2. e = out[i + 1].exam /\ i + 1 \in 1..n /\ i + 1 # 1
      BY <3>1, <1>1, <1>2
    <3> QED
      BY <3>2, <1>1, <1>2, <1>3 DEF Queued
  <2>2. ASSUME NEW e, e \in Queued, e # Head(out).exam PROVE e \in Queued'
    <3>1. PICK i \in 1..n : e = out[i].exam
      BY <2>2, <1>1 DEF Queued
    <3>2. i - 1 \in 1..(n - 1) /\ (i - 1) + 1 = i
      BY <3>1, <2>2, <1>1, <1>2
    <3>3. out'[i - 1] = out[i]
      BY <3>2, <1>1
    <3> QED
      BY <3>1, <3>2, <3>3, <1>1 DEF Queued
  <2> QED
    BY <2>1, <2>2
<1>7. \A i, j \in 1..(n - 1) : out'[i].exam = out'[j].exam => i = j
  BY <1>1, <1>2, <1>3
<1> QED
  BY <1>1, <1>2, <1>4, <1>5, <1>6, <1>7

LEMMA AnsweredWhenTaken ==
  ASSUME TypeOK, Distinct, NEW e \in Exams, answers' = Append(answers, e), e \notin Answered
  PROVE  /\ Answered' = Answered \cup {e}
         /\ \A i, j \in DOMAIN answers' : answers'[i] = answers'[j] => i = j
<1> DEFINE n == Len(answers)
<1>1. /\ n \in Nat /\ DOMAIN answers = 1..n /\ DOMAIN answers' = 1..(n + 1)
      /\ \A i \in 1..n : answers'[i] = answers[i]
      /\ answers'[n + 1] = e
  BY Appended DEF TypeOK
<1> HIDE DEF n
<1>2. 1..(n + 1) = 1..n \cup {n + 1} /\ n + 1 \notin 1..n
  BY <1>1, SMT
<1>3. Answered' = Answered \cup {e}
  BY <1>1, <1>2 DEF Answered
<1>4. \A i \in 1..n : answers[i] # e
  BY <1>1 DEF Answered
<1>5. \A i, j \in 1..n : answers[i] = answers[j] => i = j
  BY <1>1 DEF Distinct
<1>6. \A i, j \in 1..(n + 1) : answers'[i] = answers'[j] => i = j
  BY <1>1, <1>2, <1>4, <1>5
<1> QED
  BY <1>1, <1>3, <1>6
LEMMA HeldNothing ==
  /\ first = NoWork => Held = {}
  /\ first' = NoWork => Held' = {}
BY NoneAssumption, Results DEF Held

LEMMA ConservedStep ==
  ASSUME IInv, Next, ~crashed'
  PROVE  Conserved'
<1>1. TypeOK /\ Scheduled /\ Conserved
  BY DEF IInv
<1>2. ASSUME NEW d \in Docs, RendererStart(d) \/ RendererEnd(d) \/ RendererClose(d)
      PROVE  Conserved'
  <2>1. UNCHANGED <<processing, handling, background>>
    BY <1>2 DEF RendererStart, RendererEnd, RendererClose, Crash
  <2>2. PICK place : sub' = [sub EXCEPT ![d].at = place]
    BY <1>2 DEF RendererStart, RendererEnd, RendererClose, Crash
  <2>3. \A c \in Docs : sub'[c].next = sub[c].next
    BY <1>1, <2>2 DEF TypeOK
  <2>4. Handed' = Handed
    BY <2>3 DEF Handed
  <2> QED
    BY <1>1, <2>1, <2>4, ConservedUnlessMoved DEF processing, handling, background
<1>3. ASSUME NEW d \in Docs, ReceiveFirst(d) PROVE Conserved'
  <2>1. Handover(d) /\ main = "calibrating" /\ UNCHANGED <<worker, out, answers>>
    BY <1>3 DEF ReceiveFirst
  <2>2. Distinct' /\ Carried' = Carried
    BY <1>1, <2>1 DEF Conserved, Distinct, Carried
  <2>3. CASE Calibrate(Block(d))
    <3>1. first'.exam = Block(d) /\ drained' = drained
      BY <2>3, Results DEF Calibrate, background
    <3>2. Held' = {Block(d)}
      BY <1>1, <2>1, <3>1, HandedGrows DEF Held
    <3>3. Held = {}
      BY <1>1, <2>1, HeldNothing DEF Scheduled
    <3> QED
      BY <1>1, <2>1, <2>2, <3>1, <3>2, <3>3, ConservedWhenReceived
  <2>4. CASE Refuse(Block(d))
    <3>1. drained' = drained \cup {Block(d)} /\ Held' = Held
      BY <2>4 DEF Refuse, Held
    <3> QED
      BY <1>1, <2>1, <2>2, <3>1, ConservedWhenReceived
  <2> QED
    BY <1>3, <2>3, <2>4 DEF ReceiveFirst
<1>4. ASSUME NEW d \in Docs, Drain(d) PROVE Conserved'
  <2>1. /\ Handover(d) /\ UNCHANGED <<first, worker, out, answers>>
        /\ drained' = drained \cup {Block(d)}
    BY <1>4 DEF Drain, processing, handling
  <2>2. Distinct' /\ Carried' = Carried /\ Held' = Held
    BY <1>1, <2>1 DEF Conserved, Distinct, Carried, Held
  <2> QED
    BY <1>1, <2>1, <2>2, ConservedWhenReceived
<1>5. ASSUME NEW d \in Docs, NEW w \in Workers, WorkerReceive(w, d) PROVE Conserved'
  <2>1. Handover(d) /\ UNCHANGED <<first, out, answers, drained>>
    BY <1>5 DEF WorkerReceive, handling, background
  <2>2. /\ worker[w].at = "receiving" /\ worker'[w].exam = Block(d)
        /\ \A v \in Workers \ {w} : worker'[v] = worker[v]
    BY <1>1, <1>5, ReceiveMoves
  <2>3. worker[w].exam = None
    BY <1>1, <2>2 DEF Scheduled
  <2>4. Block(d) \in Exams /\ Block(d) # None /\ Block(d) \notin Carried
    BY <1>1, <2>1, HandedGrows, NoneAssumption DEF Conserved, Whole
  <2>5. Carried' = Carried \cup {Block(d)}
    BY <2>2, <2>3, <2>4 DEF Carried
  <2>6. \A v \in Workers : worker[v].exam # Block(d)
    BY <2>4, CarriedBy
  <2>7. Distinct'
    BY <1>1, <2>1, <2>2, <2>6 DEF Conserved, Distinct
  <2>8. Held' = Held
    BY <2>1 DEF Held
  <2> QED
    BY <1>1, <2>1, <2>5, <2>7, <2>8, ConservedWhenReceived
<1>6. ASSUME NEW w \in Workers, Spawn(w) PROVE Conserved'
  <2>1. UNCHANGED <<sub, first, out, answers, drained>>
    BY <1>6 DEF Spawn, rendering, handling, background
  <2>2. \A v \in Workers : worker'[v].exam = worker[v].exam
    BY <1>1, <1>6, SpawnMoves
  <2> QED
    BY <1>1, <2>1, <2>2, ConservedUnlessMoved DEF Handed
<1>7. ASSUME NEW w \in Workers, WorkerProcess(w) PROVE Conserved'
  <2>1. UNCHANGED <<sub, first, out, answers, drained>>
    BY <1>7 DEF WorkerProcess, rendering, handling, background
  <2>2. \A v \in Workers : worker'[v].exam = worker[v].exam
    BY <1>1, <1>7, ProcessMoves
  <2> QED
    BY <1>1, <2>1, <2>2, ConservedUnlessMoved DEF Handed
<1>8. ASSUME NEW w \in Workers, WorkerSend(w) PROVE Conserved'
  <2> DEFINE e == worker[w].exam
             r == Result(e, worker[w].ok)
  <2>1. /\ UNCHANGED <<sub, first, answers, drained>>
        /\ WorkerAt(w, "receiving", NoWork) /\ worker[w].at = "sending"
        /\ out' = Append(out, r)
    BY <1>8 DEF WorkerSend, Crash, rendering, handling, background
  <2>2. e \in Exams /\ r \in ResultType /\ r.exam = e
    BY <1>1, <2>1, Sendable, Results
  <2>3. worker'[w].exam = None /\ \A v \in Workers \ {w} : worker'[v] = worker[v]
    BY <1>1, <2>1, EmptyHanded DEF WorkerPlaces
  <2>4. e # None /\ e \in Carried /\ e \notin Queued
    BY <1>1, <2>2, NoneAssumption, CarriedBy DEF Conserved, Apart
  <2>5. Carried' = Carried \ {e}
    BY <1>1, <2>3, <2>4 DEF Carried, Conserved, Distinct
  <2>6. /\ Queued' = Queued \cup {e}
        /\ \A i, j \in DOMAIN out' : out'[i].exam = out'[j].exam => i = j
    <3>1. r.exam \notin Queued /\ Distinct
      BY <1>1, <2>2, <2>4 DEF Conserved
    <3>2. /\ Queued' = Queued \cup {r.exam}
          /\ \A i, j \in DOMAIN out' : out'[i].exam = out'[j].exam => i = j
      BY <1>1, <2>1, <2>2, <3>1, QueuedWhenSent
    <3> QED
      BY <2>2, <3>2
  <2>7. Distinct'
    BY <1>1, <2>1, <2>3, <2>6 DEF Conserved, Distinct
  <2>8. Handed' = Handed /\ Held' = Held /\ Answered' = Answered /\ drained' = drained
    BY <2>1 DEF Handed, Held, Answered
  <2>9. Apart' /\ Whole'
    BY <1>1, <2>2, <2>4, <2>5, <2>6, <2>8, ApartWhenMoved
  <2> QED
    BY <2>7, <2>9 DEF Conserved
<1>9. ASSUME NEW w \in Workers, WorkerEnd(w) \/ WorkerClose(w) \/ WorkerTidy(w) PROVE Conserved'
  <2>1. /\ UNCHANGED <<sub, first, out, answers, drained>>
        /\ worker[w].at \in {"receiving", "closing", "tidying"}
    BY <1>9 DEF WorkerEnd, WorkerClose, WorkerTidy, Crash, rendering, handling, background
  <2>2. PICK place \in {"closing", "tidying", "ended"} : WorkerAt(w, place, NoWork)
    BY <1>9 DEF WorkerEnd, WorkerClose, WorkerTidy, Crash
  <2>3. worker'[w].exam = None /\ \A v \in Workers \ {w} : worker'[v] = worker[v]
    BY <1>1, <2>2, EmptyHanded DEF WorkerPlaces
  <2>4. worker[w].exam = None
    BY <1>1, <2>1 DEF Scheduled
  <2> QED
    BY <1>1, <2>1, <2>3, <2>4, ConservedUnlessMoved DEF Handed
<1>10. ASSUME SendFirst PROVE Conserved'
  <2>1. UNCHANGED <<sub, worker, answers, drained>> /\ main = "spawning"
    BY <1>10 DEF SendFirst, rendering, background
  <2>2. CASE outClosed
    <3>1. UNCHANGED <<first, out>>
      BY <1>10, <2>2 DEF SendFirst
    <3> QED
      BY <1>1, <2>1, <3>1, ConservedUnlessMoved DEF Handed
  <2>3. CASE ~outClosed
    <3> DEFINE e == first.exam
    <3>1. out' = Append(out, first) /\ first' = NoWork
      BY <1>10, <2>3 DEF SendFirst
    <3>2. first \in ResultType
      BY <1>1, <2>1, Sendable
    <3>3. e \in Exams
      BY <3>2 DEF ResultType
    <3>4. e \in Held /\ Held' = Held \ {e}
      BY <3>1, <3>3, HeldNothing DEF Held
    <3>5. e \notin Queued
      BY <1>1, <3>3, <3>4 DEF Conserved, Apart
    <3>6. /\ Queued' = Queued \cup {e}
          /\ \A i, j \in DOMAIN out' : out'[i].exam = out'[j].exam => i = j
      BY <1>1, <3>1, <3>2, <3>5, QueuedWhenSent DEF Conserved
    <3>7. Distinct'
      BY <1>1, <2>1, <3>6 DEF Conserved, Distinct
    <3>8. Handed' = Handed /\ Carried' = Carried /\ Answered' = Answered /\ drained' = drained
      BY <2>1 DEF Handed, Carried, Answered
    <3>9. Apart' /\ Whole'
      BY <1>1, <3>3, <3>4, <3>6, <3>8, ApartWhenMoved
    <3> QED
      BY <3>7, <3>9 DEF Conserved
  <2> QED
    BY <2>2, <2>3
<1>11. ASSUME Consume PROVE Conserved'
  <2> DEFINE e == Head(out).exam
  <2>1. /\ UNCHANGED <<sub, first, worker, drained>> /\ out # <<>>
        /\ answers' = Append(answers, e) /\ out' = Tail(out)
    BY <1>11 DEF Consume, rendering, background
  <2>2. /\ e \in Queued /\ e \in Exams /\ Queued' = Queued \ {e}
        /\ \A i, j \in DOMAIN out' : out'[i].exam = out'[j].exam => i = j
    BY <1>1, <2>1, QueuedWhenTaken DEF Conserved
  <2>3. e \notin Answered
    BY <1>1, <2>2 DEF Conserved, Apart
  <2>4. /\ Answered' = Answered \cup {e}
        /\ \A i, j \in DOMAIN answers' : answers'[i] = answers'[j] => i = j
    BY <1>1, <2>1, <2>2, <2>3, AnsweredWhenTaken DEF Conserved
  <2>5. Distinct'
    BY <1>1, <2>1, <2>2, <2>4 DEF Conserved, Distinct
  <2>6. Handed' = Handed /\ Carried' = Carried /\ Held' = Held /\ drained' = drained
    BY <2>1 DEF Handed, Carried, Held
  <2>7. Apart' /\ Whole'
    BY <1>1, <2>2, <2>4, <2>6, ApartWhenMoved
  <2> QED
    BY <2>5, <2>7 DEF Conserved
<1>12. ASSUME Respond \/ DrainEnd PROVE Conserved'
  <2>1. UNCHANGED <<sub, first, worker, out, answers, drained>>
    BY <1>12 DEF Respond, DrainEnd, rendering, processing, background, handling
  <2> QED
    BY <1>1, <2>1, ConservedUnlessMoved DEF Handed
<1> QED
  BY <1>2, <1>3, <1>4, <1>5, <1>6, <1>7, <1>8, <1>9, <1>10, <1>11, <1>12
     DEF Next, Render, Take, Work, Handle, RendererPanic, Crash
-----------------------------------------------------------------------------
(* Memory.                                                                 *)

LEMMA MatricesDiffer ==
  /\ Loaded # Scaled
  /\ \A e : Input(e) \notin {Loaded, Scaled} /\ Output(e) \notin {Loaded, Scaled}
  /\ \A e, f : Input(e) # Output(f) /\ (Input(e) = Input(f) => e = f)
BY DEF Loaded, Scaled, Input, Output

LEMMA MadeIfSound ==
  /\ \A m : m \in Made(m, TRUE)
  /\ \A m, n, ok : n \in Made(m, ok) => n = m
BY DEF Made

\* Every step that closes a matrix closes one that nobody needs any more.
LEMMA MemoryStep ==
  ASSUME IInv, Next, ~crashed'
  PROVE  Memory'
<1>1. TypeOK /\ Scheduled /\ Closed /\ Conserved /\ Memory
  BY DEF IInv
<1>2. ASSUME NEW d \in Docs, RendererStart(d) \/ RendererEnd(d) \/ RendererClose(d)
      PROVE  Memory'
  BY <1>1, <1>2 DEF Memory, RendererStart, RendererEnd, RendererClose, Crash, processing, handling
<1>3. ASSUME NEW d \in Docs, ReceiveFirst(d) PROVE Memory'
  <2>1. main = "calibrating" /\ UNCHANGED <<worker, out, outClosed>>
    BY <1>3 DEF ReceiveFirst
  <2>2. \A w \in Workers : worker'[w].at = "unborn"
    BY <1>1, <2>1 DEF Scheduled
  <2>3. CASE Calibrate(Block(d))
    <3>1. PICK ok \in BOOLEAN :
            /\ main' = "spawning"
            /\ first'.exam = Block(d) /\ first'.ok = ok
            /\ open \cup {Scaled} \cup Made(Output(Block(d)), ok) \subseteq open'
      BY <2>3, Results DEF Calibrate
    <3>2. first'.ok => Output(first'.exam) \in open'
      BY <3>1, MadeIfSound
    <3>3. \A i \in DOMAIN out' : out'[i].ok => Output(out'[i].exam) \in open'
      BY <1>1, <2>1, <3>1 DEF Memory
    <3> QED
      BY <2>2, <3>1, <3>2, <3>3 DEF Memory
  <2>4. CASE Refuse(Block(d))
    <3>1. main' = "refused" /\ first' = first /\ open \ {Loaded} \subseteq open'
      BY <2>4 DEF Refuse
    <3> QED
      BY <1>1, <2>1, <2>2, <3>1, MatricesDiffer DEF Memory
  <2> QED
    BY <1>3, <2>3, <2>4 DEF ReceiveFirst
<1>4. ASSUME NEW d \in Docs, Drain(d) PROVE Memory'
  BY <1>1, <1>4 DEF Memory, Drain, processing, handling
<1>5. ASSUME NEW d \in Docs, NEW w \in Workers, WorkerReceive(w, d) PROVE Memory'
  <2>1. UNCHANGED <<first, out, outClosed, main>>
    BY <1>5 DEF WorkerReceive, handling
  <2>2. PICK ok \in BOOLEAN :
          /\ worker'[w].at = "working" /\ worker'[w].exam = Block(d) /\ worker'[w].ok = ok
          /\ \A v \in Workers \ {w} : worker'[v] = worker[v]
          /\ open' = open \cup Made(Input(Block(d)), ok)
    BY <1>1, <1>5, ReceiveMoves
  <2>3. worker'[w].ok => Input(worker'[w].exam) \in open'
    BY <2>2, MadeIfSound
  <2> QED
    BY <1>1, <2>1, <2>2, <2>3 DEF Memory
<1>6. ASSUME NEW w \in Workers, Spawn(w) PROVE Memory'
  <2>1. UNCHANGED <<first, out, outClosed, main, open>>
    BY <1>6 DEF Spawn, handling
  <2>2. worker'[w].at = "receiving" /\ \A v \in Workers \ {w} : worker'[v] = worker[v]
    BY <1>1, <1>6, SpawnMoves
  <2> QED
    BY <1>1, <2>1, <2>2 DEF Memory
<1>7. ASSUME NEW w \in Workers, WorkerProcess(w) PROVE Memory'
  <2> DEFINE e == worker[w].exam
  <2>1. UNCHANGED <<first, out, outClosed, main>>
    BY <1>7 DEF WorkerProcess, handling
  <2>2. PICK ok \in BOOLEAN :
          /\ worker[w].at = "working" /\ worker'[w].at = "sending"
          /\ worker'[w].exam = e /\ worker'[w].ok = ok
          /\ \A v \in Workers \ {w} : worker'[v] = worker[v]
          /\ Stored(e, ok)
    BY <1>1, <1>7, ProcessMoves
  <2>3. Made(Output(e), ok) \subseteq open' /\ open \ {Input(e)} \subseteq open'
    BY <2>2 DEF Stored
  <2>4. worker'[w].ok => Output(worker'[w].exam) \in open'
    BY <2>2, <2>3, MadeIfSound
  <2>5. \A v \in Workers \ {w} : worker[v].exam # e
    <3>1. e # None
      BY <1>1, <2>2 DEF Scheduled
    <3> QED
      BY <1>1, <3>1 DEF Conserved, Distinct
  <2>6. \A m \in open : m # Input(e) => m \in open'
    BY <2>3
  <2>7. ASSUME NEW v \in Workers \ {w}, worker'[v].ok
        PROVE  /\ worker'[v].at = "working" => Input(worker'[v].exam) \in open'
               /\ worker'[v].at = "sending" => Output(worker'[v].exam) \in open'
    BY <1>1, <2>2, <2>5, <2>6, <2>7, MatricesDiffer DEF Memory
  <2>8. /\ first'.ok => Output(first'.exam) \in open'
        /\ \A i \in DOMAIN out' : out'[i].ok => Output(out'[i].exam) \in open'
    BY <1>1, <2>1, <2>6, MatricesDiffer DEF Memory
  <2>9. /\ main' = "calibrating" => Loaded \in open'
        /\ main' \in {"spawning", "consuming"} /\ ~outClosed' => Scaled \in open'
    BY <1>1, <2>1, <2>6, MatricesDiffer DEF Memory
  <2> QED
    BY <2>2, <2>4, <2>7, <2>8, <2>9 DEF Memory
<1>8. ASSUME NEW w \in Workers, WorkerSend(w) PROVE Memory'
  <2> DEFINE r == Result(worker[w].exam, worker[w].ok)
             n == Len(out)
  <2>1. /\ UNCHANGED <<first, outClosed, main, open>>
        /\ WorkerAt(w, "receiving", NoWork) /\ worker[w].at = "sending"
        /\ out' = Append(out, r)
    BY <1>8 DEF WorkerSend, Crash, handling
  <2>2. worker'[w].at = "receiving" /\ \A v \in Workers \ {w} : worker'[v] = worker[v]
    BY <1>1, <2>1, EmptyHanded DEF WorkerPlaces
  <2>3. r \in ResultType /\ r.exam = worker[w].exam /\ r.ok = worker[w].ok
    BY <1>1, <2>1, Sendable, Results
  <2>4. r.ok => Output(r.exam) \in open
    BY <1>1, <2>1, <2>3 DEF Memory
  <2>5. \A i \in DOMAIN out' : out'[i] = r \/ (i \in DOMAIN out /\ out'[i] = out[i])
    BY <1>1, <2>1, <2>3, SentIsLast DEF TypeOK
  <2>6. \A i \in DOMAIN out' : out'[i].ok => Output(out'[i].exam) \in open'
    BY <1>1, <2>1, <2>4, <2>5 DEF Memory
  <2> QED
    BY <1>1, <2>1, <2>2, <2>6 DEF Memory
<1>9. ASSUME NEW w \in Workers, WorkerEnd(w) \/ WorkerClose(w) \/ WorkerTidy(w) PROVE Memory'
  <2>1. /\ UNCHANGED <<first, out, main>>
        /\ outClosed => outClosed'
        /\ open' = open \/ (open' = open \ {Scaled} /\ worker[w].at = "tidying")
    BY <1>9 DEF WorkerEnd, WorkerClose, WorkerTidy, Crash, handling
  <2>2. PICK place \in {"closing", "tidying", "ended"} : WorkerAt(w, place, NoWork)
    BY <1>9 DEF WorkerEnd, WorkerClose, WorkerTidy, Crash
  <2>3. worker'[w].at = place /\ \A v \in Workers \ {w} : worker'[v] = worker[v]
    BY <1>1, <2>2, EmptyHanded DEF WorkerPlaces
  <2>4. CASE open' = open
    BY <1>1, <2>1, <2>3, <2>4 DEF Memory
  <2>5. CASE open' = open \ {Scaled} /\ worker[w].at = "tidying"
    <3>1. outClosed'
      BY <1>1, <2>1, <2>5 DEF Scheduled
    <3> QED
      BY <1>1, <2>1, <2>3, <2>5, <3>1, MatricesDiffer DEF Memory
  <2> QED
    BY <2>1, <2>4, <2>5
<1>10. ASSUME SendFirst PROVE Memory'
  <2>1. UNCHANGED <<worker, outClosed>> /\ main = "spawning"
    BY <1>10 DEF SendFirst
  <2>2. CASE outClosed
    <3>1. UNCHANGED <<first, out>> /\ main' = "panicked" /\ open' = open \ {Loaded}
      BY <1>10, <2>2 DEF SendFirst, Return
    <3> QED
      BY <1>1, <2>1, <3>1, MatricesDiffer DEF Memory
  <2>3. CASE ~outClosed
    <3>1. /\ out' = Append(out, first) /\ first' = NoWork /\ main' = "consuming"
          /\ open' = open
      BY <1>10, <2>3 DEF SendFirst
    <3>2. first \in ResultType
      BY <1>1, <2>1, Sendable
    <3>3. \A i \in DOMAIN out' : out'[i] = first \/ (i \in DOMAIN out /\ out'[i] = out[i])
      BY <1>1, <3>1, <3>2, SentIsLast DEF TypeOK
    <3>4. \A i \in DOMAIN out' : out'[i].ok => Output(out'[i].exam) \in open'
      BY <1>1, <3>1, <3>3 DEF Memory
    <3>5. ~first'.ok
      BY <3>1, Results
    <3> QED
      BY <1>1, <2>1, <3>1, <3>4, <3>5 DEF Memory
  <2> QED
    BY <2>2, <2>3
<1>11. ASSUME Consume PROVE Memory'
  <2>1. UNCHANGED <<first, worker, outClosed, main, open>> /\ out # <<>> /\ out' = Tail(out)
    BY <1>11 DEF Consume
  <2>2. \A i \in DOMAIN out' : i + 1 \in DOMAIN out /\ out'[i] = out[i + 1]
    BY <1>1, <2>1, QueuedWhenTaken DEF Conserved
  <2>3. \A i \in DOMAIN out' : out'[i].ok => Output(out'[i].exam) \in open'
    BY <1>1, <2>1, <2>2 DEF Memory
  <2> QED
    BY <1>1, <2>1, <2>3 DEF Memory
<1>12. ASSUME Respond PROVE Memory'
  <2>1. UNCHANGED processing /\ main' = "answered" /\ open' = open \ {Loaded}
    BY <1>12 DEF Respond, Return
  <2> QED
    BY <1>1, <2>1, MatricesDiffer DEF Memory, processing
<1>13. ASSUME DrainEnd PROVE Memory'
  BY <1>1, <1>13 DEF Memory, DrainEnd, processing, handling
<1> QED
  BY <1>2, <1>3, <1>4, <1>5, <1>6, <1>7, <1>8, <1>9, <1>10, <1>11, <1>12, <1>13
     DEF Next, Render, Take, Work, Handle, RendererPanic, Crash

-----------------------------------------------------------------------------
(* The theorems.                                                           *)

LEMMA Step ==
  ASSUME IInv, [Next]_vars
  PROVE  IInv'
<1>1. CASE UNCHANGED vars
  <2>1. UNCHANGED <<rendering, processing, handling, background, open, crashed>>
    BY <1>1 DEF vars
  <2>2. TypeOK' /\ Counted' /\ Scheduled' /\ Closed'
    BY <2>1 DEF IInv, TypeOK, Counted, Running, Active, Scheduled, Closed, rendering,
         processing, handling, background
  <2>3. Conserved'
    BY <2>1 DEF IInv, Conserved, Distinct, Apart, Whole, Handed, Carried, Queued, Answered,
         Held, rendering, processing, handling, background
  <2>4. Memory'
    BY <2>1 DEF IInv, Memory, rendering, processing, handling, background
  <2> QED
    BY <2>2, <2>3, <2>4 DEF IInv
<1>2. CASE Next /\ ~crashed'
  BY <1>2, TypeStep, CountedStep, ScheduledStep, ClosedStep, ConservedStep, MemoryStep DEF IInv
<1>3. CASE Next /\ crashed'
  <2>1. Crash
    BY <1>3 DEF Next, Render, Take, Work, Handle, RendererStart, RendererPanic, RendererEnd,
         RendererClose, ReceiveFirst, WorkerReceive, Drain, Handover, Spawn, SendFirst,
         WorkerProcess, WorkerSend, WorkerEnd, WorkerClose, WorkerTidy, Consume, Respond,
         DrainEnd, Alive
  <2> QED
    BY <2>1, CrashKeeps
<1> QED
  BY <1>1, <1>2, <1>3

LEMMA Invariant == Spec => []IInv
<1>1. Init => IInv
  BY Initially
<1>2. IInv /\ [Next]_vars => IInv'
  BY Step
<1> QED
  BY <1>1, <1>2, PTL DEF Spec

\* The counters, the goroutines and the channels hold what they may.
THEOREM PipelineTypeCorrect == Spec => []TypeOK
<1>1. IInv => TypeOK
  BY DEF IInv
<1> QED
  BY <1>1, Invariant, PTL

Tagged(tag, S) == {<<tag, s>> : s \in S}

\* Tagging keeps a set of one element a set of one element.
LEMMA OneTagged ==
  ASSUME NEW S, NEW tag, \A x, y \in S : x = y
  PROVE  /\ S # {} => \E x : Tagged(tag, S) = {x}
         /\ S = {} => Tagged(tag, S) = {}
<1>1. ASSUME NEW x \in S PROVE Tagged(tag, S) = {<<tag, x>>}
  <2>1. S = {x}
    OBVIOUS
  <2> QED
    BY <2>1 DEF Tagged
<1>2. S = {} => Tagged(tag, S) = {}
  BY DEF Tagged
<1> QED
  BY <1>1, <1>2

\* An exam that left its renderer has one holder, any other has none.
THEOREM ExamsAreConserved == Spec => []ExamsConserved
<1>1. ASSUME IInv, NEW e \in Exams
      PROVE  Cardinality(Holders(e)) = IF e \in Handed THEN 1 ELSE 0
  <2>1. Distinct /\ Apart /\ Whole
    BY <1>1 DEF IInv, Conserved
  <2>2. e # None
    BY NoneAssumption
  <2> DEFINE W == {<<"worker", w>> : w \in {w \in Workers : worker[w].exam = e}}
             O == {<<"out", i>> : i \in {i \in DOMAIN out : out[i].exam = e}}
             A == {<<"answer", i>> : i \in {i \in DOMAIN answers : answers[i] = e}}
             F == IF first.exam = e THEN {<<"first", 0>>} ELSE {}
             D == IF e \in drained THEN {<<"drained", 0>>} ELSE {}
  <2>3. Holders(e) = W \cup O \cup A \cup F \cup D
    BY DEF Holders
  <2>4. /\ e \in Carried <=> \E w \in Workers : worker[w].exam = e
        /\ e \in Queued <=> \E i \in DOMAIN out : out[i].exam = e
        /\ e \in Answered <=> \E i \in DOMAIN answers : answers[i] = e
        /\ e \in Held <=> first.exam = e
    BY <2>2, CarriedBy DEF Queued, Answered, Held
  <2>5. /\ e \in Carried => \E x : W = {x}
        /\ e \notin Carried => W = {}
    <3> DEFINE S == {w \in Workers : worker[w].exam = e}
    <3>1. \A v, w \in S : v = w
      BY <2>1, <2>2 DEF Distinct
    <3>2. e \in Carried <=> S # {}
      BY <2>4
    <3>3. W = Tagged("worker", S)
      BY DEF Tagged
    <3> HIDE DEF S, W
    <3> QED
      BY <3>1, <3>2, <3>3, OneTagged
  <2>6. /\ e \in Queued => \E x : O = {x}
        /\ e \notin Queued => O = {}
    <3> DEFINE S == {i \in DOMAIN out : out[i].exam = e}
    <3>1. \A i, j \in S : i = j
      BY <2>1 DEF Distinct
    <3>2. e \in Queued <=> S # {}
      BY <2>4
    <3>3. O = Tagged("out", S)
      BY DEF Tagged
    <3> HIDE DEF S, O
    <3> QED
      BY <3>1, <3>2, <3>3, OneTagged
  <2>7. /\ e \in Answered => \E x : A = {x}
        /\ e \notin Answered => A = {}
    <3> DEFINE S == {i \in DOMAIN answers : answers[i] = e}
    <3>1. \A i, j \in S : i = j
      BY <2>1 DEF Distinct
    <3>2. e \in Answered <=> S # {}
      BY <2>4
    <3>3. A = Tagged("answer", S)
      BY DEF Tagged
    <3> HIDE DEF S, A
    <3> QED
      BY <3>1, <3>2, <3>3, OneTagged
  <2>8. /\ e \in Held => F = {<<"first", 0>>}
        /\ e \notin Held => F = {}
        /\ e \in drained => D = {<<"drained", 0>>}
        /\ e \notin drained => D = {}
    BY <2>4
  <2>9. CASE e \in Handed
    <3>1. e \in Carried \cup Queued \cup Answered \cup Held \cup drained
      BY <2>1, <2>9 DEF Whole
    <3> HIDE DEF W, O, A, F, D
    <3>2. \E x : W \cup O \cup A \cup F \cup D = {x}
      <4>1. CASE e \in Carried
        BY <2>1, <2>5, <2>6, <2>7, <2>8, <4>1 DEF Apart
      <4>2. CASE e \in Queued
        BY <2>1, <2>5, <2>6, <2>7, <2>8, <4>2 DEF Apart
      <4>3. CASE e \in Answered
        BY <2>1, <2>5, <2>6, <2>7, <2>8, <4>3 DEF Apart
      <4>4. CASE e \in Held
        BY <2>1, <2>5, <2>6, <2>7, <2>8, <4>4 DEF Apart
      <4>5. CASE e \in drained
        BY <2>1, <2>5, <2>6, <2>7, <2>8, <4>5 DEF Apart
      <4> QED
        BY <3>1, <4>1, <4>2, <4>3, <4>4, <4>5
    <3> QED
      BY <2>3, <2>9, <3>2, FS_Singleton
  <2>10. CASE e \notin Handed
    <3>1. e \notin Carried \cup Queued \cup Answered \cup Held \cup drained
      BY <2>1, <2>10 DEF Whole
    <3>2. Holders(e) = {}
      BY <2>3, <2>5, <2>6, <2>7, <2>8, <3>1
    <3> QED
      BY <2>10, <3>2, FS_EmptySet
  <2> QED
    BY <2>9, <2>10
<1>2. IInv => ExamsConserved
  BY <1>1 DEF ExamsConserved
<1> QED
  BY <1>2, Invariant, PTL

\* Nobody holds an exam when the channel of results is closed.
THEOREM ClosesAfterLastSend == Spec => []ClosedAfterLastSend
<1>1. IInv => ClosedAfterLastSend
  BY DEF IInv, Closed, ClosedAfterLastSend
<1> QED
  BY <1>1, Invariant, PTL

\* The answer has a place for every exam of a renderer that is through.
THEOREM AnswersAreComplete == Spec => []AnswerIsComplete
<1>1. ASSUME IInv, main = "answered", NEW d \in Docs, sub[d].at \in {"ended", "closing"}
      PROVE  {d} \X (1..Blocks[d]) \subseteq Answered
  <2>1. TypeOK /\ Scheduled /\ Closed /\ Whole
    BY <1>1 DEF IInv, Conserved
  <2>2. outClosed /\ out = <<>> /\ first = NoWork /\ drained = {}
    BY <1>1, <2>1 DEF Scheduled
  <2>3. Carried = {} /\ Queued = {} /\ Held = {}
    <3>1. Carried = {}
      BY <2>1, <2>2 DEF Closed, Carried
    <3>2. DOMAIN out = {}
      BY <2>2
    <3>3. Queued = {}
      BY <3>2 DEF Queued
    <3> QED
      BY <2>2, <3>1, <3>3, HeldNothing
  <2>4. Handed = Answered
    BY <2>1, <2>2, <2>3 DEF Whole
  <2>5. sub[d].next = Blocks[d] + 1
    BY <1>1, <2>1 DEF Scheduled
  <2>6. sub[d].next - 1 = Blocks[d]
    BY <2>5, BlocksAreNat, SMT
  <2>7. {d} \X (1..Blocks[d]) \subseteq Handed
    BY <2>6 DEF Handed
  <2> QED
    BY <2>4, <2>7
<1>2. IInv => AnswerIsComplete
  BY <1>1 DEF AnswerIsComplete
<1> QED
  BY <1>2, Invariant, PTL

\* Matrices are in memory while they are used.
THEOREM MatricesAreOpenInUse == Spec => []UsedWhileOpen
<1>1. ASSUME IInv, NEW w \in Workers, worker[w].at = "working", worker[w].ok
      PROVE  {Input(worker[w].exam), Scaled} \subseteq open
  <2>1. TypeOK /\ Scheduled /\ Closed /\ Memory
    BY <1>1 DEF IInv
  <2>2. worker[w].exam # None
    BY <1>1, <2>1 DEF Scheduled
  <2>3. ~outClosed
    BY <2>1, <2>2 DEF Closed
  <2>4. main \in {"spawning", "consuming"}
    BY <1>1, <2>1, <2>3 DEF Scheduled, TypeOK, Places, Done
  <2> QED
    BY <1>1, <2>1, <2>3, <2>4 DEF Memory
<1>2. IInv => UsedWhileOpen
  BY <1>1 DEF UsedWhileOpen, IInv, Memory
<1> QED
  BY <1>2, Invariant, PTL
=============================================================================
