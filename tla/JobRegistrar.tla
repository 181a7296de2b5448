---------------------------- MODULE JobRegistrar ----------------------------
(***************************************************************************)
(* The job registrar of internal/server/mw/job.go: the maps of jobs and    *)
(* results, the AsyncJob and SyncJob wrappers that run a handler on behalf *)
(* of a request, the eviction goroutine, and the clients that ask GET /job *)
(* and GET /job/result.  Every method of the registrar holds j.mu for its  *)
(* whole body, so each is one step; a request takes one step per call.     *)
(* ListHandler alone keeps j.mu, to read, while it sends its response.     *)
(*                                                                         *)
(* Time is relative: a job carries the time since Started, which stops     *)
(* mattering (and growing) one unit past MaxAge.  Method and Path never    *)
(* change and are left out.  A result is its status class and the request  *)
(* whose handler wrote it.                                                 *)
(***************************************************************************)
EXTENDS Naturals, Functions

CONSTANTS
  Requests,         \* the POSTs that reach a job endpoint
  Clients,          \* who asks GET /job and GET /job/result
  Ids,              \* what uuid.New can return
  Items,            \* exams (or scans) in a job's body: progress 1.0
  MaxAge,           \* JobCacheLifetime, in clock ticks
  Unset             \* the id of a request that has none yet

ASSUME SetsAssumption   == Unset \notin Ids
ASSUME BoundsAssumption == Items \in Nat \ {0} /\ MaxAge \in Nat

VARIABLES
  jobs,             \* j.jobs: the details of each registered job
  jobResults,       \* j.jobResults
  tickerOn,         \* whether evictionTicker still fires
  used,             \* every id ever registered
  req,              \* each request: where it is and what it holds
  query,            \* each client's GET /job/result in flight
  answer,           \* what each client was last told of each id
  listing           \* a GET /jobs is being answered: j.mu is held to read

vars == <<jobs, jobResults, tickerOn, used, req, query, answer, listing>>

Statuses == {"success", "error"}          \* 2xx, or anything else
Notes    == {"blank", "started", "ended"}
Places   == {"idle", "parsing", "entered", "looping", "noting", "responding",
             "returned", "answered", "rejected", "panicked"}
\* The places of a request whose handler is running.
InHandler == {"entered", "looping", "noting", "responding"}
Answers  == {"none", "pending", "finished", "gone"}

\* The map assignment m[k] = v.
Put(m, k, v) == [x \in DOMAIN m \cup {k} |-> IF x = k THEN v ELSE m[x]]

NewJob == [progress |-> 0, age |-> 0, finished |-> FALSE, success |-> FALSE,
           notes |-> "blank"]

NoResult == [status |-> "none"]           \* the nil that SyncJob passes

-----------------------------------------------------------------------------
(* The registrar's methods, as updates of its two maps.                    *)

IsRegistered(id) == id \in DOMAIN jobs

\* Whether j.mu.Lock is granted.  A Lock that waits keeps new readers out, so
\* it is granted once the list being sent is out: Fairness says so.
Writable == ~listing

\* Bug: an unknown job is registered on the fly.
SetProgressUpsert(id, progress) ==
  /\ Writable
  /\ jobs' = IF IsRegistered(id) THEN [jobs EXCEPT ![id].progress = progress]
             ELSE Put(jobs, id, [NewJob EXCEPT !.progress = progress])

\* ErrJobNotFound and ErrJobFinished leave the job alone; jobRes drops both.
SetProgress(id, progress) ==
  /\ Writable
  /\ jobs' = IF IsRegistered(id) /\ ~jobs[id].finished
             THEN [jobs EXCEPT ![id].progress = progress] ELSE jobs

\* A finished job's notes can still be written.
WriteNotes(id, notes) ==
  /\ Writable
  /\ jobs' = IF IsRegistered(id) THEN [jobs EXCEPT ![id].notes = notes] ELSE jobs

Register(id) == jobs' = Put(jobs, id, NewJob) /\ used' = used \cup {id}

\* Bug: every job that ends is a success.
FinishedGladly(job, success) ==
  [job EXCEPT !.finished = TRUE, !.progress = Items, !.success = TRUE]

FinishedJob(job, success) ==
  [progress |-> Items, age |-> job.age, finished |-> TRUE,
   success |-> success, notes |-> job.notes]

\* Bug: a job whose progress is full is taken to be finished already.
CanFinishEarly(id) == IsRegistered(id) /\ jobs[id].progress < Items

\* Neither ErrJobNotFound nor ErrJobFinished.
CanFinish(id) == IsRegistered(id) /\ ~jobs[id].finished

\* Bug: a nil result is cached as if it were a response.
SetFinishedNil(id, success, result) ==
  /\ Writable
  /\ IF CanFinish(id)
     THEN /\ jobResults' = Put(jobResults, id, result)
          /\ jobs' = [jobs EXCEPT ![id] = FinishedJob(@, success)]
     ELSE UNCHANGED <<jobs, jobResults>>

\* A nil result returns before the lock is asked for.
SetFinished(id, success, result) ==
  /\ result # NoResult => Writable
  /\ IF result # NoResult /\ CanFinish(id)
     THEN /\ jobResults' = Put(jobResults, id, result)
          /\ jobs' = [jobs EXCEPT ![id] = FinishedJob(@, success)]
     ELSE UNCHANGED <<jobs, jobResults>>

\* Bug: only finished jobs grow old.
ExpiredDone == {i \in DOMAIN jobs : jobs[i].age > MaxAge /\ jobs[i].finished}

Expired == {i \in DOMAIN jobs : jobs[i].age > MaxAge}

\* Bug: results outlive their jobs.
EvictJobsOnly ==
  /\ tickerOn /\ Expired # {} /\ Writable
  /\ jobs' = Restrict(jobs, DOMAIN jobs \ Expired)
  /\ UNCHANGED <<jobResults, tickerOn, used, req, query, answer, listing>>

\* The goroutine of NewJobRegistrar: evictAllOlderThan(maxAge) on a tick.
Evict ==
  /\ tickerOn /\ Expired # {} /\ Writable
  /\ jobs' = Restrict(jobs, DOMAIN jobs \ Expired)
  /\ jobResults' = Restrict(jobResults, DOMAIN jobResults \ Expired)
  /\ UNCHANGED <<tickerOn, used, req, query, answer, listing>>

\* Close stops the ticker; the goroutine waits on it for ever after.
Close ==
  /\ tickerOn
  /\ tickerOn' = FALSE
  /\ UNCHANGED <<jobs, jobResults, used, req, query, answer, listing>>

Aged(job) == [job EXCEPT !.age = IF @ > MaxAge THEN @ ELSE @ + 1]

ClockTick ==
  /\ \E i \in DOMAIN jobs : jobs[i].age <= MaxAge
  /\ jobs' = [i \in DOMAIN jobs |-> Aged(jobs[i])]
  /\ UNCHANGED <<jobResults, tickerOn, used, req, query, answer, listing>>

-----------------------------------------------------------------------------
(* A request: AsyncJob or SyncJob around a handler.                        *)

Goto(r, place) == req' = [req EXCEPT ![r].at = place]

\* The handler's function returns, having written a response.
Return(r, status) ==
  req' = [req EXCEPT ![r] = [at |-> "returned", id |-> @.id, async |-> @.async,
                             done |-> @.done, status |-> status]]

\* Bug: an id in use is registered again.
ConflictNever(id) == FALSE

Conflict(id) == IsRegistered(id)

\* Both wrappers begin by registering an id.  uuid.New is taken to repeat no
\* id that was forgotten; an id still registered is ErrJobIdConflict, which
\* is answered 500 before the handler runs.
Start(r) ==
  /\ req[r].at = "idle" /\ Writable
  /\ \E id \in Ids, async \in BOOLEAN :
       /\ id \in used => IsRegistered(id)
       /\ IF Conflict(id)
          THEN Goto(r, "rejected") /\ UNCHANGED <<jobs, used>>
          ELSE /\ Register(id)
               /\ req' = [req EXCEPT ![r].id = id, ![r].async = async,
                             ![r].at = IF async THEN "parsing" ELSE "entered"]
  /\ UNCHANGED <<jobResults, tickerOn, query, answer, listing>>

\* AsyncJob reads the whole body.  A bad one is answered 4xx and the job
\* stays registered; a good one is answered 202 and the goroutine starts.
ParseBody(r) ==
  /\ req[r].at = "parsing"
  /\ \E ok \in BOOLEAN : Goto(r, IF ok THEN "entered" ELSE "rejected")
  /\ UNCHANGED <<jobs, jobResults, tickerOn, used, query, answer, listing>>

\* The handler's early returns: a bad query or body, no such template, a
\* malformed PDF, and after the first note a stream that could not be calibrated.
\* The response is an error and no progress was reported.
HandlerRefuse(r) ==
  /\ req[r].at = "entered" \/ (req[r].at = "looping" /\ req[r].done = 0)
  /\ Return(r, "error")
  /\ UNCHANGED <<jobs, jobResults, tickerOn, used, query, answer, listing>>

HandlerBegin(r) ==
  /\ req[r].at = "entered"
  /\ Goto(r, "looping")
  /\ WriteNotes(req[r].id, "started")
  /\ UNCHANGED <<jobResults, tickerOn, used, query, answer, listing>>

\* One exam.  One that fails may be counted without being reported.
HandlerItem(r) ==
  /\ req[r].at = "looping" /\ req[r].done < Items
  /\ req' = [req EXCEPT ![r].done = @ + 1]
  /\ \/ SetProgress(req[r].id, req[r].done + 1)
     \/ UNCHANGED jobs
  /\ UNCHANGED <<jobResults, tickerOn, used, query, answer, listing>>

\* SetProgress(1.0) after the loop.
HandlerFull(r) ==
  /\ req[r].at = "looping" /\ req[r].done = Items
  /\ Goto(r, "noting")
  /\ SetProgress(req[r].id, Items)
  /\ UNCHANGED <<jobResults, tickerOn, used, query, answer, listing>>

HandlerNote(r) ==
  /\ req[r].at = "noting"
  /\ Goto(r, "responding")
  /\ WriteNotes(req[r].id, "ended")
  /\ UNCHANGED <<jobResults, tickerOn, used, query, answer, listing>>

\* 200 when an exam got through, 422 when none did.
HandlerRespond(r) ==
  /\ req[r].at = "responding"
  /\ \E status \in Statuses : Return(r, status)
  /\ UNCHANGED <<jobs, jobResults, tickerOn, used, query, answer, listing>>

\* A panic skips SetFinished: RecoverAndRespond runs in the goroutine's
\* defer (or in the Recovery middleware of a synchronous request).
HandlerPanic(r) ==
  /\ req[r].at \in InHandler
  /\ Goto(r, "panicked")
  /\ UNCHANGED <<jobs, jobResults, tickerOn, used, query, answer, listing>>

\* The wrapper's last call.
Finish(r) ==
  /\ req[r].at = "returned"
  /\ Goto(r, "answered")
  /\ SetFinished(req[r].id, req[r].status = "success",
                 IF req[r].async THEN [status |-> req[r].status, by |-> r]
                                 ELSE NoResult)
  /\ UNCHANGED <<tickerOn, used, query, answer, listing>>

-----------------------------------------------------------------------------
(* A client.  It asks about ids it was given in a 202 or found in GET      *)
(* /jobs, one request at a time.                                           *)

Tell(c, id, a) == answer' = [answer EXCEPT ![c][id] = a]

Standing(id) == IF ~IsRegistered(id) THEN "gone"
                ELSE IF jobs[id].finished THEN "finished" ELSE "pending"

\* Handler: one Get under the read lock.
GetJob(c, id) ==
  /\ query[c] = Unset /\ id \in used
  /\ Tell(c, id, Standing(id))
  /\ UNCHANGED <<jobs, jobResults, tickerOn, used, req, query, listing>>

\* Bug: the two lookups of ResultHandler are swapped.
GetResultLate(c, id) ==
  /\ query[c] = Unset /\ id \in used
  /\ IF IsRegistered(id)
     THEN query' = [query EXCEPT ![c] = id] /\ UNCHANGED answer
     ELSE Tell(c, id, "gone") /\ UNCHANGED query
  /\ UNCHANGED <<jobs, jobResults, tickerOn, used, req, listing>>

\* ResultHandler's first lookup.  A hit is answered from the copy.
GetResult(c, id) ==
  /\ query[c] = Unset /\ id \in used
  /\ IF id \in DOMAIN jobResults
     THEN Tell(c, id, "finished") /\ UNCHANGED query
     ELSE query' = [query EXCEPT ![c] = id] /\ UNCHANGED answer
  /\ UNCHANGED <<jobs, jobResults, tickerOn, used, req, listing>>

\* ResultHandler's second lookup, under a second lock.  The branch for an
\* unknown id lacks a return: the 404 is out, then result.Body is nil and
\* Recovery takes the panic.
GetResultMissed(c) ==
  /\ query[c] # Unset
  /\ Tell(c, query[c], IF IsRegistered(query[c]) THEN "pending" ELSE "gone")
  /\ query' = [query EXCEPT ![c] = Unset]
  /\ UNCHANGED <<jobs, jobResults, tickerOn, used, req, listing>>

\* ListHandler makes its list and keeps the read lock while it sends it, to a
\* client or to someone else.  An id that is not in the list is forgotten.
BeginList ==
  /\ listing' = TRUE
  /\ \/ UNCHANGED answer
     \/ \E c \in Clients :
          /\ query[c] = Unset
          /\ answer' = [answer EXCEPT ![c] =
               [i \in Ids |-> IF i \in used THEN Standing(i) ELSE @[i]]]
  /\ UNCHANGED <<jobs, jobResults, tickerOn, used, req, query>>

\* The list is out, or its reader is gone: RUnlock.
EndList ==
  /\ listing
  /\ listing' = FALSE
  /\ UNCHANGED <<jobs, jobResults, tickerOn, used, req, query, answer>>

-----------------------------------------------------------------------------

Init ==
  /\ jobs = [i \in {} |-> NewJob]
  /\ jobResults = [i \in {} |-> NoResult]
  /\ tickerOn = TRUE
  /\ used = {}
  /\ req = [r \in Requests |-> [at |-> "idle", id |-> Unset, async |-> FALSE,
                                done |-> 0, status |-> "error"]]
  /\ query = [c \in Clients |-> Unset]
  /\ answer = [c \in Clients |-> [i \in Ids |-> "none"]]
  /\ listing = FALSE

Proceed(r) ==
  \/ HandlerRefuse(r) \/ HandlerBegin(r) \/ HandlerItem(r) \/ HandlerFull(r)
  \/ HandlerNote(r) \/ HandlerRespond(r) \/ Finish(r)

Serve(r) == ParseBody(r) \/ Proceed(r) \/ HandlerPanic(r)

Ask(c) == GetResultMissed(c) \/ \E id \in Ids : GetJob(c, id) \/ GetResult(c, id)

Next ==
  \/ \E r \in Requests : Start(r) \/ Serve(r)
  \/ \E c \in Clients : Ask(c)
  \/ BeginList \/ EndList
  \/ Evict \/ Close \/ ClockTick

Spec == Init /\ [][Next]_vars

\* Goroutines run, a Lock is granted between two lists, and the clock
\* advances.  Nothing obliges a client to send the rest of a body, to ask
\* again or to read its list to the end, or anyone to call Close.
Fairness ==
  /\ \A r \in Requests : SF_vars(Proceed(r))
  /\ SF_vars(Evict) /\ WF_vars(ClockTick)

FairSpec == Spec /\ Fairness

-----------------------------------------------------------------------------
(* What must hold.                                                         *)

JobDetails == [progress : 0..Items, age : 0..(MaxAge + 1), finished : BOOLEAN,
               success : BOOLEAN, notes : Notes]

Results == [status : Statuses, by : Requests]

RequestState == [at : Places, id : Ids \cup {Unset}, async : BOOLEAN,
                 done : 0..Items, status : Statuses]

\* The registrar's maps, the requests and the clients hold what they may: above
\* all a cached result is a response, never the nil of SyncJob, which GetResult
\* would follow (SetFinished).
TypeOK ==
  /\ DOMAIN jobs \subseteq used /\ used \subseteq Ids
  /\ jobs \in [DOMAIN jobs -> JobDetails]
  /\ DOMAIN jobResults \subseteq Ids
  /\ jobResults \in [DOMAIN jobResults -> Results]
  /\ tickerOn \in BOOLEAN
  /\ req \in [Requests -> RequestState]
  /\ query \in [Clients -> Ids \cup {Unset}]
  /\ answer \in [Clients -> [Ids -> Answers]]
  /\ listing \in BOOLEAN

\* The two maps agree (SetFinished, evictAllOlderThan): a result is cached
\* exactly for the registered jobs that are finished, so neither can a result
\* leak past its job nor a finished job be without its response.
ResultsMatchJobs == DOMAIN jobResults = {i \in DOMAIN jobs : jobs[i].finished}

\* A cached result was written by the handler of the request the id was
\* given to, is complete, and agrees with the job's success flag and its
\* progress (AsyncJob, SetFinished), whatever else uses the registrar.
ResultIsOwn ==
  \A i \in DOMAIN jobResults :
    LET r == jobResults[i].by IN
    /\ req[r].id = i /\ req[r].at = "answered" /\ req[r].async
    /\ jobResults[i].status = req[r].status
    /\ i \in DOMAIN jobs =>
         /\ jobs[i].success = (req[r].status = "success")
         /\ jobs[i].progress = Items

\* Once the goroutine of AsyncJob is through without a panic, its job has
\* its outcome or is forgotten: nothing a client polls stays pending.
AnsweredIsResolved ==
  \A r \in Requests :
    req[r].at = "answered" /\ req[r].async /\ IsRegistered(req[r].id)
      => jobs[req[r].id].finished

\* The progress a client sees of a job never goes back (HandlerItem may skip
\* reports, SetFinished jumps to the end).
ProgressNeverRegresses ==
  [][\A i \in DOMAIN jobs \cap DOMAIN jobs' :
       jobs'[i].progress >= jobs[i].progress]_jobs

Rank == [none |-> 0, pending |-> 1, finished |-> 2, gone |-> 3]

\* What GET /job, GET /jobs and GET /job/result tell one client of one id only
\* moves on: pending, then finished, then unknown, however the two lookups of
\* ResultHandler interleave with SetFinished and with an eviction.
AnswersNeverRegress ==
  [][\A c \in Clients, i \in Ids :
       Rank[answer'[c][i]] >= Rank[answer[c][i]]]_answer

\* Each job goes through the promised life cycle and no other.
Phase ==
  [i \in Ids |-> IF i \notin used THEN "unused"
                 ELSE IF i \notin DOMAIN jobs THEN "forgotten"
                 ELSE IF ~jobs[i].finished THEN "running"
                 ELSE IF jobs[i].success THEN "succeeded" ELSE "failed"]

Promise == INSTANCE JobLifecycle WITH phase <- Phase

Lifecycle == Promise!Spec

\* A list that is never read to its end: ListHandler keeps j.mu for ever.
Stalled == <>[]listing

\* While the ticker runs no job stays for ever: not one whose handler
\* panicked, not a synchronous one, not one whose body was refused.  Only a
\* stalled list can keep them (evictAllOlderThan needs the lock).
JobsAreForgotten ==
  \A i \in Ids : []<>(~IsRegistered(i) \/ ~tickerOn) \/ Stalled

\* The body was accepted, and a client that polls is told to wait.
Awaited(r) ==
  /\ req[r].async /\ req[r].at \in InHandler \cup {"returned", "answered"}
  /\ IsRegistered(req[r].id) /\ ~jobs[req[r].id].finished

\* No background job whose body was accepted keeps its clients waiting for
\* ever: it is finished or forgotten unless its handler panics, or waits for
\* the lock behind a stalled list (AsyncJob, SetFinished, ListHandler).
AcceptedIsResolved == \A r \in Requests : []<>~Awaited(r) \/ Stalled
=============================================================================
