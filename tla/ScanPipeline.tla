---------------------------- MODULE ScanPipeline ----------------------------
(***************************************************************************)
(* One POST of a PDF, from pages to saved scans: the goroutines of         *)
(* RenderPageBlocks (internal/pdf/pdf.go), the first receive, the workers  *)
(* and the output channel of PreprocessStream (internal/omr/stream.go),    *)
(* and the loop of PostScanPdf (internal/server/handler/scan.go), which    *)
(* inUse admits one at a time.                                             *)
(*                                                                         *)
(* The channel of rendered exams is unbuffered: a send and a receive are   *)
(* one step.  The channel of results has a buffer of one slot per worker.  *)
(* What is done to the pages is left out: an exam carries pages or an      *)
(* error.  Pages and templates are OpenCV matrices that nobody collects:   *)
(* open has those that were made and not closed.  A panic in a goroutine   *)
(* nobody recovers ends the process, and with it every step.               *)
(***************************************************************************)
EXTENDS Naturals, Sequences, FiniteSets

CONSTANTS
  Docs,             \* the sub-documents of blockPartitionPdf, one goroutine each
  Blocks,           \* how many exams each holds
  Workers,          \* the goroutines of PreprocessStream
  None              \* no exam

ASSUME DocsAssumption    == IsFiniteSet(Docs) /\ Docs # {}
ASSUME BlocksAssumption  == Blocks \in [Docs -> Nat \ {0}]
ASSUME WorkersAssumption == IsFiniteSet(Workers) /\ Workers # {}

Exams == UNION {{d} \X (1..Blocks[d]) : d \in Docs}
Cap   == Cardinality(Workers)

ASSUME NoneAssumption == None \notin Exams

VARIABLES
  sub,              \* each renderer: where it is, the next block to send
  threadCount,      \* RenderPageBlocks's counter of running renderers
  examsClosed,      \* whether the channel of rendered exams is closed
  main,             \* where the handler's goroutine is
  first,            \* the result PreprocessStream holds back
  worker,           \* each worker: where it is, the exam it holds
  threads,          \* PreprocessStream's counter of workers
  out, outClosed,   \* the channel of results
  draining,         \* whether CloseAllInStream reads the exams
  drained,          \* the exams it closed
  answers,          \* the exams the handler's loop has taken, in order
  open,             \* the matrices in memory
  crashed           \* a panic in a goroutine ended the process

rendering  == <<sub, threadCount, examsClosed>>
processing == <<first, worker, threads, out, outClosed>>
handling   == <<main, answers>>
background == <<draining, drained>>
vars == <<rendering, processing, handling, background, open, crashed>>

Result(exam, ok) == [exam |-> exam, ok |-> ok]
NoWork == Result(None, FALSE)

\* The matrices: an exam's rendered pages and its preprocessed ones, the
\* anchors of the template as it was loaded and as it was scaled.
Input(e)  == <<"input", e>>
Output(e) == <<"output", e>>
Loaded    == <<"loaded", None>>
Scaled    == <<"scaled", None>>

\* And those the code makes and forgets: one for each candidate angle of an
\* anchor, the page whose warping failed, the anchor whose scaling failed.
Candidates == <<"candidates", None>>
Warped     == <<"warped", None>>
Unscaled   == <<"unscaled", None>>

\* What a set of pages adds to memory, if it is there and not an error.
Made(m, ok) == IF ok THEN {m} ELSE {}

\* What Preprocess forgets: it fails before, during or after the search for the
\* anchors, or while it warps.
Forgotten(ok) == IF ok THEN {{Candidates}} ELSE {{}, {Candidates}, {Candidates, Warped}}

\* The process lives on, or a panic ends it here.
Alive == ~crashed /\ crashed' = FALSE
Crash == ~crashed /\ crashed' = TRUE /\ UNCHANGED <<rendering, processing, handling, background, open>>

-----------------------------------------------------------------------------
(* A renderer: a goroutine that counts itself in once it runs.             *)

RendererStart(d) ==
  /\ sub[d].at = "spawned"
  /\ sub' = [sub EXCEPT ![d].at = "running"]
  /\ threadCount' = threadCount + 1
  /\ UNCHANGED <<examsClosed, processing, handling, background, open>> /\ Alive

HasBlock(d) == sub[d].at = "running" /\ sub[d].next <= Blocks[d]

Block(d) == <<d, sub[d].next>>

\* The channel takes the block d sends next.
Handover(d) ==
  /\ ~examsClosed /\ HasBlock(d)
  /\ sub' = [sub EXCEPT ![d].next = @ + 1]
  /\ UNCHANGED <<threadCount, examsClosed>> /\ Alive

RendererPanic(d) == examsClosed /\ HasBlock(d) /\ Crash

\* doc.close, then the deferred count; the last one out closes the channel.
RendererEnd(d) ==
  /\ sub[d].at = "running" /\ sub[d].next > Blocks[d]
  /\ threadCount' = threadCount - 1
  /\ sub' = [sub EXCEPT ![d].at = IF threadCount = 1 THEN "closing" ELSE "ended"]
  /\ UNCHANGED <<examsClosed, processing, handling, background, open>> /\ Alive

RendererClose(d) ==
  /\ sub[d].at = "closing"
  /\ IF examsClosed THEN Crash
     ELSE /\ examsClosed' = TRUE
          /\ sub' = [sub EXCEPT ![d].at = "ended"]
          /\ UNCHANGED <<threadCount, processing, handling, background, open>> /\ Alive

-----------------------------------------------------------------------------
(* PreprocessStream on the handler's goroutine.                            *)

\* The handler returns: defer tmpl.Close().
Return(place) == main' = place /\ open' = open \ {Loaded}

\* Bug: nobody reads what is left after an error.
RefuseAndLeave(e) ==
  Return("refused") /\ UNCHANGED <<background, first>>

\* The first exam has no pages, or the template could not be scaled to it: its
\* pages are closed and the anchors scaled before, the rest is drained in the
\* background and the client is answered 400.
Refuse(e) ==
  /\ main' = "refused"
  /\ \E failed \in BOOLEAN : open' = (open \ {Loaded}) \cup Made(Unscaled, failed)
  /\ draining' = TRUE /\ drained' = drained \cup {e}
  /\ UNCHANGED first

\* The first exam calibrates the template and is preprocessed here, where
\* its pages are closed too.
Calibrate(e) ==
  /\ main' = "spawning"
  /\ \E ok \in BOOLEAN : \E forgotten \in Forgotten(ok) :
       /\ first' = Result(e, ok)
       /\ open' = open \cup {Scaled} \cup Made(Output(e), ok) \cup forgotten
  /\ UNCHANGED background

ReceiveFirst(d) ==
  /\ main = "calibrating"
  /\ Handover(d)
  /\ Calibrate(Block(d)) \/ Refuse(Block(d))
  /\ UNCHANGED <<worker, threads, out, outClosed, answers>>

\* One turn of the loop that starts the workers.
Spawn(w) ==
  /\ main = "spawning" /\ worker[w].at = "unborn"
  /\ threads' = threads + 1
  /\ worker' = [worker EXCEPT ![w].at = "receiving"]
  /\ UNCHANGED <<rendering, first, out, outClosed, handling, background, open>> /\ Alive

AllSpawned == \A w \in Workers : worker[w].at # "unborn"

\* Bug: the result held back is forgotten.
SkipFirst ==
  /\ main = "spawning" /\ AllSpawned
  /\ main' = "consuming" /\ first' = NoWork
  /\ UNCHANGED <<rendering, worker, threads, out, outClosed, answers, background, open>> /\ Alive

\* Bug: the scaled template is closed where it was made.
SendFirstAndClose ==
  /\ main = "spawning" /\ AllSpawned /\ ~outClosed /\ Len(out) < Cap
  /\ out' = Append(out, first) /\ first' = NoWork
  /\ main' = "consuming" /\ open' = open \ {Scaled}
  /\ UNCHANGED <<rendering, worker, threads, outClosed, answers, background>> /\ Alive

\* out <- firstResult, with the workers already running.  It waits while the
\* buffer is full; if the workers closed the channel it panics, which the
\* wrapper around the handler recovers.
SendFirst ==
  /\ main = "spawning" /\ AllSpawned
  /\ IF outClosed
     THEN Return("panicked") /\ UNCHANGED <<first, out>>
     ELSE /\ Len(out) < Cap
          /\ out' = Append(out, first)
          /\ first' = NoWork
          /\ main' = "consuming" /\ UNCHANGED open
  /\ UNCHANGED <<rendering, worker, threads, outClosed, answers, background>> /\ Alive

-----------------------------------------------------------------------------
(* A worker: for pageSet := range pageStream { out <- preprocessSet(...) } *)

WorkerAt(w, place, item) ==
  worker' = [worker EXCEPT ![w] = [at |-> place, exam |-> item.exam, ok |-> item.ok]]

\* A block that could not be rendered has an error and no pages.
WorkerReceive(w, d) ==
  /\ worker[w].at = "receiving"
  /\ Handover(d)
  /\ \E ok \in BOOLEAN :
       /\ WorkerAt(w, "working", Result(Block(d), ok))
       /\ open' = open \cup Made(Input(Block(d)), ok)
  /\ UNCHANGED <<first, threads, out, outClosed, handling, background>>

\* Preprocess, and defer CloseAll(pages).
Process(e, ok) ==
  \E forgotten \in Forgotten(ok) :
    open' = (open \ {Input(e)}) \cup Made(Output(e), ok) \cup forgotten

\* preprocessSet: an error is passed on, and preprocessing may add one.
WorkerProcess(w) ==
  /\ worker[w].at = "working"
  /\ \E ok \in {worker[w].ok, FALSE} :
       /\ IF worker[w].ok THEN Process(worker[w].exam, ok) ELSE UNCHANGED open
       /\ WorkerAt(w, "sending", Result(worker[w].exam, ok))
  /\ UNCHANGED <<rendering, first, threads, out, outClosed, handling, background>> /\ Alive

WorkerSend(w) ==
  /\ worker[w].at = "sending"
  /\ IF outClosed THEN Crash
     ELSE /\ Len(out) < Cap
          /\ out' = Append(out, Result(worker[w].exam, worker[w].ok))
          /\ WorkerAt(w, "receiving", NoWork)
          /\ UNCHANGED <<rendering, first, threads, outClosed, handling, background, open>> /\ Alive

\* Bug: any worker that ends closes the channel.
LastWorkerAny == TRUE

\* Bug: no worker closes the channel.
LastWorkerNone == FALSE

LastWorker == threads = 1

WorkerEnd(w) ==
  /\ worker[w].at = "receiving" /\ examsClosed
  /\ threads' = threads - 1
  /\ WorkerAt(w, IF LastWorker THEN "closing" ELSE "ended", NoWork)
  /\ UNCHANGED <<rendering, first, out, outClosed, handling, background, open>> /\ Alive

WorkerClose(w) ==
  /\ worker[w].at = "closing"
  /\ IF outClosed THEN Crash
     ELSE /\ outClosed' = TRUE
          /\ WorkerAt(w, "tidying", NoWork)
          /\ UNCHANGED <<rendering, first, threads, out, handling, background, open>> /\ Alive

\* Bug: the last worker closes the channel and nothing else.
WorkerTidyNothing(w) ==
  /\ worker[w].at = "tidying"
  /\ WorkerAt(w, "ended", NoWork)
  /\ UNCHANGED <<rendering, first, threads, out, outClosed, handling, background, open>> /\ Alive

\* template.Close(), the scaled one, when the handler may be gone.
WorkerTidy(w) ==
  /\ worker[w].at = "tidying"
  /\ WorkerAt(w, "ended", NoWork)
  /\ open' = open \ {Scaled}
  /\ UNCHANGED <<rendering, first, threads, out, outClosed, handling, background>> /\ Alive

-----------------------------------------------------------------------------
(* The rest of the handler, and the drain.                                 *)

\* One turn of the loop: saved or not, the exam takes the next index, of
\* scanIds or of errors.  The pages stay open.
Consume ==
  /\ main = "consuming" /\ out # <<>>
  /\ answers' = Append(answers, Head(out).exam)
  /\ out' = Tail(out)
  /\ UNCHANGED <<rendering, first, worker, threads, outClosed, main, background, open>> /\ Alive

\* Bug: an empty buffer is taken for the end of the stream.
RespondEarly ==
  /\ main = "consuming" /\ out = <<>>
  /\ Return("answered")
  /\ UNCHANGED <<rendering, processing, answers, background>> /\ Alive

\* The loop ends and the response is sent.
Respond ==
  /\ main = "consuming" /\ out = <<>> /\ outClosed
  /\ Return("answered")
  /\ UNCHANGED <<rendering, processing, answers, background>> /\ Alive

\* CloseAllInStream closes what it takes at once.
Drain(d) ==
  /\ draining
  /\ Handover(d)
  /\ drained' = drained \cup {Block(d)}
  /\ UNCHANGED <<processing, handling, draining, open>>

DrainEnd ==
  /\ draining /\ examsClosed
  /\ draining' = FALSE
  /\ UNCHANGED <<rendering, processing, handling, drained, open>> /\ Alive

-----------------------------------------------------------------------------

Init ==
  /\ sub = [d \in Docs |-> [at |-> "spawned", next |-> 1]]
  /\ threadCount = 0 /\ examsClosed = FALSE
  /\ main = "calibrating" /\ first = NoWork
  /\ worker = [w \in Workers |-> [at |-> "unborn", exam |-> None, ok |-> FALSE]]
  /\ threads = 0 /\ out = <<>> /\ outClosed = FALSE
  /\ draining = FALSE /\ drained = {}
  /\ answers = <<>> /\ open = {Loaded} /\ crashed = FALSE

Render(d) == RendererStart(d) \/ RendererPanic(d) \/ RendererEnd(d) \/ RendererClose(d)
Work(w) == WorkerProcess(w) \/ WorkerSend(w) \/ WorkerEnd(w) \/ WorkerClose(w) \/ WorkerTidy(w)
Handle == SendFirst \/ Consume \/ Respond \/ \E w \in Workers : Spawn(w)
Take(d) == ReceiveFirst(d) \/ Drain(d) \/ \E w \in Workers : WorkerReceive(w, d)

Next ==
  \/ \E d \in Docs : Render(d) \/ Take(d)
  \/ \E w \in Workers : Work(w)
  \/ Handle
  \/ DrainEnd

Spec == Init /\ [][Next]_vars

\* Every goroutine that can run does, and a channel with a sender and a
\* receiver hands over.
FairSpec ==
  /\ Spec
  /\ \A d \in Docs : WF_vars(Render(d)) /\ WF_vars(Take(d))
  /\ \A w \in Workers : WF_vars(Work(w))
  /\ WF_vars(Handle) /\ WF_vars(DrainEnd)

-----------------------------------------------------------------------------
(* What holds.                                                             *)

Done   == {"refused", "panicked", "answered"}
Places == {"calibrating", "spawning", "consuming"} \cup Done
WorkerPlaces == {"unborn", "receiving", "working", "sending", "closing", "tidying", "ended"}
ResultType == [exam : Exams, ok : BOOLEAN]
Matrices ==
  {Loaded, Scaled, Candidates, Warped, Unscaled}
    \cup {Input(e) : e \in Exams} \cup {Output(e) : e \in Exams}

\* The goroutines are where they can be and the buffer is never overrun.
TypeOK ==
  /\ sub \in [Docs -> [at : {"spawned", "running", "closing", "ended"}, next : Nat \ {0}]]
  /\ \A d \in Docs : sub[d].next <= Blocks[d] + 1
  /\ threadCount \in Nat /\ threads \in Nat
  /\ examsClosed \in BOOLEAN /\ outClosed \in BOOLEAN /\ crashed \in BOOLEAN
  /\ main \in Places
  /\ first \in ResultType \cup {NoWork}
  /\ worker \in [Workers -> [at : WorkerPlaces, exam : Exams \cup {None}, ok : BOOLEAN]]
  /\ out \in Seq(ResultType) /\ Len(out) <= Cap
  /\ draining \in BOOLEAN /\ drained \subseteq Exams
  /\ answers \in Seq(Exams)
  /\ open \subseteq Matrices

Handed == UNION {{d} \X (1..(sub[d].next - 1)) : d \in Docs}

Holders(e) ==
  {<<"worker", w>> : w \in {w \in Workers : worker[w].exam = e}}
    \cup {<<"out", i>> : i \in {i \in DOMAIN out : out[i].exam = e}}
    \cup {<<"answer", i>> : i \in {i \in DOMAIN answers : answers[i] = e}}
    \cup (IF first.exam = e THEN {<<"first", 0>>} ELSE {})
    \cup (IF e \in drained THEN {<<"drained", 0>>} ELSE {})

\* No exam that left its renderer is lost or copied, whatever the order of
\* the goroutines: one of them holds it, or it waits in the channel, was
\* drained, or has its one place in the answer (RenderPageBlocks,
\* PreprocessStream, the loop of PostScanPdf).
ExamsConserved ==
  \A e \in Exams : Cardinality(Holders(e)) = IF e \in Handed THEN 1 ELSE 0

\* The results' channel is closed only when no worker can still send on it
\* (stream.go's count of threads), even though workers may start after that.
ClosedAfterLastSend ==
  outClosed => \A w \in Workers : worker[w].exam = None

Answered == {answers[i] : i \in DOMAIN answers}

\* When PostScanPdf answers, every exam of every renderer that is through has
\* its place in the answer (RenderPageBlocks, PreprocessStream, PostScanPdf).
AnswerIsComplete ==
  main = "answered" =>
    \A d \in Docs : sub[d].at \in {"ended", "closing"} => {d} \X (1..Blocks[d]) \subseteq Answered

\* The buffer filled up before the handler could add the result it holds
\* back, and nobody reads it until it has.
Stuck == main = "spawning" /\ Len(out) = Cap /\ ~outClosed

\* Unless that happens, the handler comes to an end, releasing inUse.
HandlerReturns == <>(main \in Done \/ crashed \/ []Stuck)

\* And the renderers too, whatever the handler answered: nobody leaves them
\* blocked on a channel without a reader, their documents open.
RenderersEnd ==
  <>((\A d \in Docs : sub[d].at = "ended") \/ crashed \/ []Stuck)

\* The pages and the scaled template are in memory while a worker looks for
\* the anchors, and a result's pages until they are saved, whatever was closed
\* by another goroutine: a worker that ends, a handler that returns or panics
\* (preprocessSet, the end of a worker, the deferred calls of PostScanPdf).
UsedWhileOpen ==
  /\ \A w \in Workers : worker[w].at = "working" /\ worker[w].ok =>
       {Input(worker[w].exam), Scaled} \subseteq open
  /\ main = "calibrating" => Loaded \in open
  /\ \A i \in DOMAIN out : out[i].ok => Output(out[i].exam) \in open

\* In the end the pages as they were rendered and the template, as it was
\* loaded and as it was scaled, are closed, whoever held them last and however
\* its work ended (preprocessSet, the end of a worker, the deferred calls of
\* PreprocessStream and PostScanPdf).  That is not so of the results, saved or
\* not (PostScanPdf), nor of what the search, the warp and the scaling forget.
MatricesEnd ==
  <>(\/ [](open \cap ({Loaded, Scaled} \cup {Input(e) : e \in Exams}) = {})
     \/ crashed \/ []Stuck)

-----------------------------------------------------------------------------
(* What the comments say and the code does not.                            *)

\* "gracefully recover from a panic" (recovery.go): no panic ends the process.
NeverCrashes == ~crashed
=============================================================================
