------------------------- MODULE JobRegistrarProofs -------------------------
(***************************************************************************)
(* Proofs about JobRegistrar, for any sets of requests, clients and ids,   *)
(* any number of items and any age limit.                                  *)
(***************************************************************************)
EXTENDS JobRegistrar, TLAPS

(***************************************************************************)
(* Type correctness.                                                       *)
(***************************************************************************)

\* The registrar's methods keep the details of every job well formed, and
\* only Register adds a job.
LEMMA SetProgressType ==
  ASSUME TypeOK, NEW id, NEW p \in 0..Items, SetProgress(id, p)
  PROVE  jobs' \in [DOMAIN jobs -> JobDetails] /\ DOMAIN jobs' = DOMAIN jobs
  BY DEF TypeOK, SetProgress, IsRegistered, JobDetails

LEMMA WriteNotesType ==
  ASSUME TypeOK, NEW id, NEW n \in Notes, WriteNotes(id, n)
  PROVE  jobs' \in [DOMAIN jobs -> JobDetails] /\ DOMAIN jobs' = DOMAIN jobs
  BY DEF TypeOK, WriteNotes, IsRegistered, JobDetails

LEMMA FinishedJobType ==
  ASSUME NEW job \in JobDetails, NEW success \in BOOLEAN
  PROVE  FinishedJob(job, success) \in JobDetails
  BY BoundsAssumption DEF JobDetails, FinishedJob

LEMMA SetFinishedType ==
  ASSUME TypeOK, NEW id, NEW success \in BOOLEAN,
         NEW result \in Results \cup {NoResult},
         SetFinished(id, success, result)
  PROVE  /\ jobs' \in [DOMAIN jobs -> JobDetails]
         /\ DOMAIN jobs' = DOMAIN jobs
         /\ DOMAIN jobResults' \subseteq Ids
         /\ jobResults' \in [DOMAIN jobResults' -> Results]
  <1>1. CASE result # NoResult /\ CanFinish(id)
    <2>1. jobs' = [jobs EXCEPT ![id] = FinishedJob(jobs[id], success)]
      BY <1>1 DEF SetFinished
    <2>2. id \in DOMAIN jobs
      BY <1>1 DEF CanFinish, IsRegistered
    <2>3. FinishedJob(jobs[id], success) \in JobDetails
      <3>1. jobs[id] \in JobDetails
        BY <2>2 DEF TypeOK
      <3> QED
        BY <3>1, FinishedJobType
    <2>4. jobResults' = Put(jobResults, id, result)
      BY <1>1 DEF SetFinished
    <2>5. result \in Results
      BY <1>1
    <2> QED
      BY <2>1, <2>2, <2>3, <2>4, <2>5 DEF TypeOK, Put
  <1>2. CASE ~(result # NoResult /\ CanFinish(id))
    BY <1>2 DEF SetFinished, TypeOK
  <1> QED
    BY <1>1, <1>2

LEMMA RegisterType ==
  ASSUME TypeOK, NEW id \in Ids, Register(id)
  PROVE  /\ jobs' \in [DOMAIN jobs \cup {id} -> JobDetails]
         /\ DOMAIN jobs' = DOMAIN jobs \cup {id}
         /\ used' = used \cup {id}
  <1>1. NewJob \in JobDetails
    BY BoundsAssumption DEF NewJob, JobDetails, Notes
  <1> QED
    BY <1>1 DEF Register, TypeOK, Put

\* Moving a request to another place keeps it well formed.
LEMMA GotoType ==
  ASSUME TypeOK, NEW r \in Requests, NEW place \in Places, Goto(r, place)
  PROVE  req' \in [Requests -> RequestState]
  BY DEF TypeOK, Goto, RequestState

LEMMA ReturnType ==
  ASSUME TypeOK, NEW r \in Requests, NEW status \in Statuses, Return(r, status)
  PROVE  req' \in [Requests -> RequestState]
  BY DEF TypeOK, Return, RequestState, Places

LEMMA TypeInit == Init => TypeOK
  <1> SUFFICES ASSUME Init PROVE TypeOK
    OBVIOUS
  <1>1. req \in [Requests -> RequestState]
    BY BoundsAssumption DEF Init, RequestState, Places, Statuses
  <1> QED
    BY <1>1 DEF Init, TypeOK, Answers

\* TypeOK holds initially and every step of the registrar, of a request or
\* of a client keeps it.
THEOREM TypeCorrect == Spec => []TypeOK
  <1>1. Init => TypeOK
    BY TypeInit
  <1>2. TypeOK /\ [Next]_vars => TypeOK'
    <2> SUFFICES ASSUME TypeOK, [Next]_vars PROVE TypeOK'
      OBVIOUS
    <2>1. ASSUME NEW r \in Requests, Start(r) PROVE TypeOK'
      <3>1. PICK id \in Ids, async \in BOOLEAN :
              IF Conflict(id)
              THEN Goto(r, "rejected") /\ UNCHANGED <<jobs, used>>
              ELSE /\ Register(id)
                   /\ req' = [req EXCEPT ![r].id = id, ![r].async = async,
                        ![r].at = IF async THEN "parsing" ELSE "entered"]
        BY <2>1 DEF Start
      <3>2. CASE Conflict(id)
        <4>1. req' \in [Requests -> RequestState]
          BY <3>1, <3>2, GotoType DEF Places
        <4> QED
          BY <2>1, <3>1, <3>2, <4>1 DEF Start, TypeOK
      <3>3. CASE ~Conflict(id)
        <4>1. Register(id)
          BY <3>1, <3>3
        <4>2. req' \in [Requests -> RequestState]
          BY <3>1, <3>3 DEF TypeOK, Places, RequestState
        <4>3. /\ jobs' \in [DOMAIN jobs' -> JobDetails]
              /\ DOMAIN jobs' \subseteq used' /\ used' \subseteq Ids
          BY <4>1, RegisterType DEF TypeOK
        <4> QED
          BY <2>1, <4>2, <4>3 DEF Start, TypeOK
      <3> QED
        BY <3>2, <3>3
    <2>2. ASSUME NEW r \in Requests, ParseBody(r) PROVE TypeOK'
      <3>1. req' \in [Requests -> RequestState]
        BY <2>2, GotoType DEF ParseBody, Places
      <3> QED
        BY <2>2, <3>1 DEF ParseBody, TypeOK
    <2>3. ASSUME NEW r \in Requests, HandlerRefuse(r) PROVE TypeOK'
      <3>1. req' \in [Requests -> RequestState]
        BY <2>3, ReturnType DEF HandlerRefuse, Statuses
      <3> QED
        BY <2>3, <3>1 DEF HandlerRefuse, TypeOK
    <2>4. ASSUME NEW r \in Requests, HandlerBegin(r) PROVE TypeOK'
      <3>1. req' \in [Requests -> RequestState]
        BY <2>4, GotoType DEF HandlerBegin, Places
      <3> QED
        BY <2>4, <3>1, WriteNotesType DEF HandlerBegin, TypeOK, Notes
    <2>5. ASSUME NEW r \in Requests, HandlerItem(r) PROVE TypeOK'
      <3>1. req[r].done + 1 \in 0..Items
        BY <2>5, BoundsAssumption DEF HandlerItem, TypeOK, RequestState
      <3>2. req' \in [Requests -> RequestState]
        BY <2>5, <3>1 DEF HandlerItem, TypeOK, RequestState
      <3>3. jobs' \in [DOMAIN jobs -> JobDetails] /\ DOMAIN jobs' = DOMAIN jobs
        BY <2>5, <3>1, SetProgressType DEF HandlerItem, TypeOK
      <3> QED
        BY <2>5, <3>2, <3>3 DEF HandlerItem, TypeOK
    <2>6. ASSUME NEW r \in Requests, HandlerFull(r) PROVE TypeOK'
      <3>1. jobs' \in [DOMAIN jobs -> JobDetails] /\ DOMAIN jobs' = DOMAIN jobs
        BY <2>6, BoundsAssumption, SetProgressType DEF HandlerFull
      <3>2. req' \in [Requests -> RequestState]
        BY <2>6, GotoType DEF HandlerFull, Places
      <3> QED
        BY <2>6, <3>1, <3>2 DEF HandlerFull, TypeOK
    <2>7. ASSUME NEW r \in Requests, HandlerNote(r) PROVE TypeOK'
      <3>1. req' \in [Requests -> RequestState]
        BY <2>7, GotoType DEF HandlerNote, Places
      <3> QED
        BY <2>7, <3>1, WriteNotesType DEF HandlerNote, TypeOK, Notes
    <2>8. ASSUME NEW r \in Requests, HandlerRespond(r) PROVE TypeOK'
      <3>1. req' \in [Requests -> RequestState]
        BY <2>8, ReturnType DEF HandlerRespond
      <3> QED
        BY <2>8, <3>1 DEF HandlerRespond, TypeOK
    <2>9. ASSUME NEW r \in Requests, HandlerPanic(r) PROVE TypeOK'
      <3>1. req' \in [Requests -> RequestState]
        BY <2>9, GotoType DEF HandlerPanic, Places
      <3> QED
        BY <2>9, <3>1 DEF HandlerPanic, TypeOK
    <2>10. ASSUME NEW r \in Requests, Finish(r) PROVE TypeOK'
      <3>1. req[r].status \in Statuses
        BY DEF TypeOK, RequestState
      <3>2. [status |-> req[r].status, by |-> r] \in Results
        BY <3>1 DEF Results
      <3>3. /\ jobs' \in [DOMAIN jobs -> JobDetails]
            /\ DOMAIN jobs' = DOMAIN jobs
            /\ DOMAIN jobResults' \subseteq Ids
            /\ jobResults' \in [DOMAIN jobResults' -> Results]
        BY <2>10, <3>2, SetFinishedType DEF Finish
      <3>4. req' \in [Requests -> RequestState]
        BY <2>10, GotoType DEF Finish, Places
      <3> QED
        BY <2>10, <3>3, <3>4 DEF Finish, TypeOK
    <2>11. ASSUME NEW c \in Clients, Ask(c) PROVE TypeOK'
      <3>1. query' \in [Clients -> Ids \cup {Unset}]
        BY <2>11 DEF Ask, GetJob, GetResult, GetResultMissed, TypeOK
      <3>2. answer' \in [Clients -> [Ids -> Answers]]
        <4>1. ASSUME NEW id \in Ids, NEW a \in Answers, Tell(c, id, a)
              PROVE  answer' \in [Clients -> [Ids -> Answers]]
          BY <4>1 DEF Tell, TypeOK
        <4>2. CASE GetResultMissed(c)
          BY <4>1, <4>2 DEF GetResultMissed, TypeOK, Answers
        <4>3. ASSUME NEW id \in Ids, GetJob(c, id)
              PROVE  answer' \in [Clients -> [Ids -> Answers]]
          BY <4>1, <4>3 DEF GetJob, Standing, Answers
        <4>4. ASSUME NEW id \in Ids, GetResult(c, id)
              PROVE  answer' \in [Clients -> [Ids -> Answers]]
          BY <4>1, <4>4 DEF GetResult, TypeOK, Answers
        <4> QED
          BY <2>11, <4>2, <4>3, <4>4 DEF Ask
      <3>3. UNCHANGED <<jobs, jobResults, tickerOn, used, req, listing>>
        BY <2>11 DEF Ask, GetJob, GetResult, GetResultMissed
      <3> QED
        BY <3>1, <3>2, <3>3 DEF TypeOK
    <2>12. CASE Evict
      BY <2>12 DEF Evict, Restrict, TypeOK
    <2>13. CASE Close
      BY <2>13 DEF Close, TypeOK
    <2>14. CASE ClockTick
      <3>1. \A i \in DOMAIN jobs : Aged(jobs[i]) \in JobDetails
        BY BoundsAssumption DEF TypeOK, JobDetails, Aged
      <3> QED
        BY <2>14, <3>1 DEF ClockTick, TypeOK
    <2>15. CASE BeginList
      <3>1. \A i \in Ids : Standing(i) \in Answers
        BY DEF Standing, Answers
      <3>2. answer' \in [Clients -> [Ids -> Answers]]
        BY <2>15, <3>1 DEF BeginList, TypeOK
      <3> QED
        BY <2>15, <3>2 DEF BeginList, TypeOK
    <2>16. CASE EndList
      BY <2>16 DEF EndList, TypeOK
    <2>17. CASE UNCHANGED vars
      BY <2>17 DEF vars, TypeOK
    <2> QED
      BY <2>1, <2>2, <2>3, <2>4, <2>5, <2>6, <2>7, <2>8, <2>9, <2>10, <2>11,
         <2>12, <2>13, <2>14, <2>15, <2>16, <2>17 DEF Next, Serve, Proceed
  <1> QED
    BY <1>1, <1>2, PTL DEF Spec

-----------------------------------------------------------------------------
(***************************************************************************)
(* The inductive invariant.  ResultIsOwn and AnsweredIsResolved speak of   *)
(* the request behind an id, so no two requests may hold the same id       *)
(* (Owners); the progress of a running job is bounded by what its handler  *)
(* has been through (Reported).                                            *)
(***************************************************************************)

Owners ==
  /\ \A r \in Requests : req[r].id # Unset => req[r].id \in used
  /\ \A r, s \in Requests :
       req[r].id # Unset /\ req[r].id = req[s].id => r = s

Reported ==
  \A r \in Requests :
    req[r].id \in DOMAIN jobs /\ ~jobs[req[r].id].finished
      => jobs[req[r].id].progress <= req[r].done

IInv == /\ TypeOK /\ Owners /\ Reported
        /\ ResultsMatchJobs /\ ResultIsOwn /\ AnsweredIsResolved

\* What a method does to the outcome and the progress of each job.
SameOutcome(i) == /\ jobs'[i].finished = jobs[i].finished
                  /\ jobs'[i].success = jobs[i].success

LEMMA SetProgressEffect ==
  ASSUME TypeOK, NEW id, NEW p \in 0..Items, SetProgress(id, p)
  PROVE  /\ DOMAIN jobs' = DOMAIN jobs
         /\ \A i \in DOMAIN jobs :
              /\ SameOutcome(i)
              /\ \/ jobs'[i].progress = jobs[i].progress
                 \/ i = id /\ ~jobs[i].finished /\ jobs'[i].progress = p
  BY DEF TypeOK, SetProgress, IsRegistered, JobDetails, SameOutcome

LEMMA WriteNotesEffect ==
  ASSUME TypeOK, NEW id, NEW n \in Notes, WriteNotes(id, n)
  PROVE  /\ DOMAIN jobs' = DOMAIN jobs
         /\ \A i \in DOMAIN jobs :
              SameOutcome(i) /\ jobs'[i].progress = jobs[i].progress
  BY DEF TypeOK, WriteNotes, IsRegistered, JobDetails, SameOutcome

LEMMA ClockTickEffect ==
  ASSUME TypeOK, ClockTick
  PROVE  /\ DOMAIN jobs' = DOMAIN jobs
         /\ \A i \in DOMAIN jobs :
              SameOutcome(i) /\ jobs'[i].progress = jobs[i].progress
  BY DEF TypeOK, ClockTick, Aged, JobDetails, SameOutcome

\* A step of one request that resolves nothing keeps the invariant: every
\* action of a handler is such a step.
LEMMA HandlerKeeps ==
  ASSUME IInv, TypeOK', NEW r \in Requests, req[r].at # "answered",
         \A s \in Requests : s # r => req'[s] = req[s],
         req'[r].id = req[r].id, req'[r].at # "answered",
         req'[r].done >= req[r].done,
         UNCHANGED <<used, jobResults>>,
         DOMAIN jobs' = DOMAIN jobs,
         \A i \in DOMAIN jobs :
           /\ SameOutcome(i)
           /\ \/ jobs'[i].progress = jobs[i].progress
              \/ i = req[r].id /\ ~jobs[i].finished
                 /\ jobs'[i].progress <= req'[r].done
  PROVE  IInv'
  <1> USE DEF SameOutcome
  <1>1. Owners'
    BY DEF IInv, Owners
  <1>2. Reported'
    <2>1. \A i \in DOMAIN jobs : jobs[i].progress \in Nat
      BY BoundsAssumption DEF IInv, TypeOK, JobDetails
    <2>2. \A s \in Requests : req[s].done \in Nat /\ req'[s].done \in Nat
      BY BoundsAssumption DEF IInv, TypeOK, RequestState
    <2>3. \A s \in Requests : req[s].id \in Ids \cup {Unset}
      BY DEF IInv, TypeOK, RequestState
    <2> SUFFICES ASSUME NEW s \in Requests, req'[s].id \in DOMAIN jobs',
                        ~jobs'[req'[s].id].finished
                 PROVE  jobs'[req'[s].id].progress <= req'[s].done
      BY DEF Reported
    <2>4. req'[s].id = req[s].id
      OBVIOUS
    <2>5. jobs[req[s].id].progress <= req[s].done
      BY <2>4 DEF IInv, Reported
    <2>6. CASE s = r
      BY <2>1, <2>2, <2>4, <2>5, <2>6
    <2>7. CASE s # r
      <3>1. req[s].id # req[r].id
        BY <2>4, <2>7, SetsAssumption DEF IInv, TypeOK, Owners
      <3> QED
        BY <2>4, <2>5, <2>7, <3>1
    <2> QED
      BY <2>6, <2>7
  <1>3. ResultsMatchJobs'
    BY DEF IInv, ResultsMatchJobs
  <1>4. ResultIsOwn'
    <2> SUFFICES ASSUME NEW i \in DOMAIN jobResults
                 PROVE  LET s == jobResults[i].by IN
                        /\ req'[s].id = i /\ req'[s].at = "answered"
                        /\ req'[s].async
                        /\ jobResults[i].status = req'[s].status
                        /\ i \in DOMAIN jobs' =>
                             /\ jobs'[i].success = (req'[s].status = "success")
                             /\ jobs'[i].progress = Items
      BY DEF ResultIsOwn
    <2>1. jobResults[i].by \in Requests
      BY DEF IInv, TypeOK, Results
    <2>2. i \in DOMAIN jobs /\ jobs[i].finished
      BY DEF IInv, ResultsMatchJobs
    <2>3. jobResults[i].by # r
      BY DEF IInv, ResultIsOwn
    <2> QED
      BY <2>1, <2>2, <2>3 DEF IInv, ResultIsOwn
  <1>5. AnsweredIsResolved'
    BY DEF IInv, AnsweredIsResolved, IsRegistered
  <1> QED
    BY <1>1, <1>2, <1>3, <1>4, <1>5 DEF IInv

\* A step that touches neither the maps nor the requests keeps it too.
LEMMA IdleKeeps ==
  ASSUME IInv, TypeOK', UNCHANGED <<jobs, jobResults, used, req>>
  PROVE  IInv'
  BY DEF IInv, Owners, Reported, ResultsMatchJobs, ResultIsOwn,
         AnsweredIsResolved, IsRegistered

\* A new job's id was never used, so it is no other request's.
LEMMA RegisterKeeps ==
  ASSUME IInv, TypeOK', NEW r \in Requests, NEW id \in Ids, id \notin used,
         req[r].at # "answered", req'[r].at # "answered", req'[r].id = id,
         \A s \in Requests : s # r => req'[s] = req[s],
         req'[r].done = req[r].done,
         Register(id), UNCHANGED jobResults
  PROVE  IInv'
  <1>1. /\ DOMAIN jobs' = DOMAIN jobs \cup {id} /\ used' = used \cup {id}
        /\ jobs'[id] = NewJob
        /\ \A i \in DOMAIN jobs : jobs'[i] = jobs[i]
        /\ id \notin DOMAIN jobs /\ id \notin DOMAIN jobResults
    BY DEF Register, Put, IInv, TypeOK, ResultsMatchJobs
  <1>2. \A s \in Requests : s # r => req[s].id # id
    BY SetsAssumption DEF IInv, Owners
  <1>3. Owners'
    BY <1>1, <1>2 DEF IInv, Owners
  <1>4. Reported'
    <2>1. NewJob.progress = 0 /\ ~NewJob.finished
      BY DEF NewJob
    <2>2. req[r].done \in Nat
      BY BoundsAssumption DEF IInv, TypeOK, RequestState
    <2> QED
      BY <1>1, <1>2, <2>1, <2>2 DEF IInv, Reported
  <1>5. ResultsMatchJobs'
    BY <1>1 DEF IInv, ResultsMatchJobs, NewJob
  <1>6. ResultIsOwn'
    <2>1. \A i \in DOMAIN jobResults :
            /\ jobResults[i].by \in Requests /\ jobResults[i].by # r
            /\ i \in DOMAIN jobs
      BY DEF IInv, TypeOK, Results, ResultIsOwn, ResultsMatchJobs
    <2> QED
      BY <1>1, <2>1 DEF IInv, ResultIsOwn
  <1>7. AnsweredIsResolved'
    BY <1>1, <1>2 DEF IInv, AnsweredIsResolved, IsRegistered
  <1> QED
    BY <1>3, <1>4, <1>5, <1>6, <1>7 DEF IInv

\* SetFinished stores the result of the request that owns the job, with the
\* outcome the job is given.
LEMMA FinishKeeps ==
  ASSUME IInv, TypeOK', NEW r \in Requests, Finish(r)
  PROVE  IInv'
  <1> DEFINE id == req[r].id
             result == [status |-> req[r].status, by |-> r]
  <1>1. /\ req[r].at = "returned"
        /\ req'[r] = [req[r] EXCEPT !.at = "answered"]
        /\ \A s \in Requests : s # r => req'[s] = req[s]
        /\ used' = used
    BY DEF Finish, Goto, IInv, TypeOK
  <1>2. /\ req'[r].id = id /\ req'[r].at = "answered"
        /\ req'[r].async = req[r].async /\ req'[r].done = req[r].done
        /\ req'[r].status = req[r].status
    BY <1>1 DEF IInv, TypeOK, RequestState
  <1>3. \A i \in DOMAIN jobResults :
          /\ jobResults[i].by \in Requests /\ jobResults[i].by # r
          /\ i \in DOMAIN jobs /\ jobs[i].finished
    BY <1>1 DEF IInv, TypeOK, Results, ResultIsOwn, ResultsMatchJobs
  <1>3a. \A s \in Requests : /\ req'[s].id = req[s].id
                             /\ req'[s].done = req[s].done
                             /\ req'[s].async = req[s].async
    BY <1>1, <1>2
  <1>4. Owners'
    BY <1>1, <1>3a DEF IInv, Owners
  <1>5. CASE req[r].async /\ CanFinish(id)
    <2>1. result # NoResult
      BY DEF NoResult
    <2>2. /\ jobResults' = Put(jobResults, id, result)
          /\ jobs' = [jobs EXCEPT ![id] =
                        FinishedJob(jobs[id], req[r].status = "success")]
      BY <1>5, <2>1 DEF Finish, SetFinished
    <2>3. id \in DOMAIN jobs /\ ~jobs[id].finished
      BY <1>5 DEF CanFinish, IsRegistered
    <2>4. /\ DOMAIN jobs' = DOMAIN jobs
          /\ jobs'[id].finished /\ jobs'[id].progress = Items
          /\ jobs'[id].success = (req[r].status = "success")
          /\ \A i \in DOMAIN jobs : i # id => jobs'[i] = jobs[i]
      BY <2>2, <2>3 DEF FinishedJob
    <2>5. /\ DOMAIN jobResults' = DOMAIN jobResults \cup {id}
          /\ jobResults'[id] = result
          /\ \A i \in DOMAIN jobResults : i # id /\ jobResults'[i] = jobResults[i]
      BY <1>3, <2>2, <2>3 DEF Put
    <2>6. Reported'
      BY <1>3a, <2>4 DEF IInv, Reported
    <2>7. ResultsMatchJobs'
      BY <2>3, <2>4, <2>5 DEF IInv, ResultsMatchJobs
    <2>8. ResultIsOwn'
      <3>1. ASSUME NEW i \in DOMAIN jobResults'
            PROVE  LET s == jobResults'[i].by IN
                   /\ req'[s].id = i /\ req'[s].at = "answered"
                   /\ req'[s].async
                   /\ jobResults'[i].status = req'[s].status
                   /\ i \in DOMAIN jobs' =>
                        /\ jobs'[i].success = (req'[s].status = "success")
                        /\ jobs'[i].progress = Items
        <4>1. CASE i = id
          <5>1. jobResults'[i].by = r /\ jobResults'[i].status = req[r].status
            BY <2>5, <4>1
          <5> QED
            BY <1>2, <1>5, <2>4, <4>1, <5>1
        <4>2. CASE i # id
          <5>1. i \in DOMAIN jobResults /\ jobResults'[i] = jobResults[i]
                /\ jobs'[i] = jobs[i] /\ req'[jobResults[i].by] = req[jobResults[i].by]
            BY <1>1, <1>3, <2>4, <2>5, <3>1, <4>2
          <5> QED
            BY <1>3, <5>1 DEF IInv, ResultIsOwn
        <4> QED
          BY <4>1, <4>2
      <3> QED
        BY <3>1 DEF ResultIsOwn
    <2>9. AnsweredIsResolved'
      BY <1>1, <1>2, <1>3a, <2>4 DEF IInv, AnsweredIsResolved, IsRegistered
    <2> QED
      BY <1>4, <2>6, <2>7, <2>8, <2>9 DEF IInv
  <1>6. CASE ~(req[r].async /\ CanFinish(id))
    <2>1. UNCHANGED <<jobs, jobResults>>
      BY <1>6 DEF Finish, SetFinished
    <2>2. Reported'
      BY <1>1, <1>2, <2>1 DEF IInv, Reported
    <2>3. ResultIsOwn'
      BY <1>1, <1>3, <2>1 DEF IInv, ResultIsOwn
    <2>4. AnsweredIsResolved'
      BY <1>1, <1>2, <1>6, <2>1
      DEF IInv, AnsweredIsResolved, IsRegistered, CanFinish
    <2> QED
      BY <1>4, <2>1, <2>2, <2>3, <2>4 DEF IInv, ResultsMatchJobs
  <1> QED
    BY <1>5, <1>6

\* Eviction takes a job and its result together.
LEMMA EvictKeeps ==
  ASSUME IInv, TypeOK', Evict
  PROVE  IInv'
  <1>1. /\ DOMAIN jobs' = DOMAIN jobs \ Expired
        /\ DOMAIN jobResults' = DOMAIN jobResults \ Expired
        /\ \A i \in DOMAIN jobs' : jobs'[i] = jobs[i]
        /\ \A i \in DOMAIN jobResults' : jobResults'[i] = jobResults[i]
        /\ UNCHANGED <<req, used>>
    BY DEF Evict, Restrict
  <1> QED
    BY <1>1 DEF IInv, Owners, Reported, ResultsMatchJobs, ResultIsOwn,
                AnsweredIsResolved, IsRegistered

-----------------------------------------------------------------------------
(* The invariant, for every instance.                                      *)

LEMMA Inductive == IInv /\ TypeOK' /\ [Next]_vars => IInv'
  <1> SUFFICES ASSUME IInv, TypeOK', [Next]_vars PROVE IInv'
    OBVIOUS
  <1>0. TypeOK
    BY DEF IInv
  <1>1. ASSUME NEW r \in Requests, Start(r) PROVE IInv'
    <2>1. PICK id \in Ids, async \in BOOLEAN :
            /\ id \in used => IsRegistered(id)
            /\ IF Conflict(id)
               THEN Goto(r, "rejected") /\ UNCHANGED <<jobs, used>>
               ELSE /\ Register(id)
                    /\ req' = [req EXCEPT ![r].id = id, ![r].async = async,
                         ![r].at = IF async THEN "parsing" ELSE "entered"]
      BY <1>1 DEF Start
    <2>2. req[r] \in RequestState /\ req[r].at = "idle"
      BY <1>0, <1>1 DEF TypeOK, Start
    <2>3. CASE Conflict(id)
      <3>1. req' = [req EXCEPT ![r].at = "rejected"]
        BY <2>1, <2>3 DEF Goto
      <3>2. /\ \A s \in Requests : s # r => req'[s] = req[s]
            /\ req'[r].id = req[r].id /\ req'[r].at = "rejected"
            /\ req'[r].done = req[r].done
        BY <1>0, <2>2, <3>1 DEF TypeOK, RequestState
      <3> QED
        BY <1>1, <2>1, <2>2, <2>3, <3>2, HandlerKeeps, BoundsAssumption
        DEF Start, SameOutcome, RequestState
    <2>4. CASE ~Conflict(id)
      <3>1. /\ \A s \in Requests : s # r => req'[s] = req[s]
            /\ req'[r].id = id /\ req'[r].at \in {"parsing", "entered"}
            /\ req'[r].done = req[r].done
        BY <1>0, <2>1, <2>2, <2>4 DEF TypeOK, RequestState
      <3>2. id \notin used
        BY <2>1, <2>4 DEF Conflict
      <3> QED
        BY <1>1, <2>1, <2>2, <2>4, <3>1, <3>2, RegisterKeeps DEF Start
    <2> QED
      BY <2>3, <2>4
  <1>2. ASSUME NEW r \in Requests, NEW place \in Places, Goto(r, place),
               req[r].at # "answered", place # "answered"
        PROVE  /\ \A s \in Requests : s # r => req'[s] = req[s]
               /\ req'[r].id = req[r].id /\ req'[r].at = place
               /\ req'[r].done >= req[r].done
    <2>1. req[r] \in RequestState
      BY <1>0 DEF TypeOK
    <2> QED
      BY <1>0, <1>2, <2>1, BoundsAssumption DEF Goto, TypeOK, RequestState
  <1>3. ASSUME NEW r \in Requests, NEW status, Return(r, status)
        PROVE  /\ \A s \in Requests : s # r => req'[s] = req[s]
               /\ req'[r].id = req[r].id /\ req'[r].at = "returned"
               /\ req'[r].done >= req[r].done
    <2>1. req[r] \in RequestState
      BY <1>0 DEF TypeOK
    <2> QED
      BY <1>0, <1>3, <2>1, BoundsAssumption DEF Return, TypeOK, RequestState
  <1>4. ASSUME NEW r \in Requests, ParseBody(r) PROVE IInv'
    BY <1>2, <1>4, HandlerKeeps DEF ParseBody, Places, SameOutcome
  <1>5. ASSUME NEW r \in Requests, HandlerRefuse(r) PROVE IInv'
    BY <1>3, <1>5, HandlerKeeps DEF HandlerRefuse, SameOutcome
  <1>6. ASSUME NEW r \in Requests, HandlerBegin(r) PROVE IInv'
    BY <1>0, <1>2, <1>6, WriteNotesEffect, HandlerKeeps
    DEF HandlerBegin, Places, Notes
  <1>7. ASSUME NEW r \in Requests, HandlerItem(r) PROVE IInv'
    <2>1. req[r] \in RequestState /\ req[r].done + 1 \in 0..Items
      BY <1>0, <1>7, BoundsAssumption DEF HandlerItem, TypeOK, RequestState
    <2>2. /\ \A s \in Requests : s # r => req'[s] = req[s]
          /\ req'[r].id = req[r].id /\ req'[r].at = "looping"
          /\ req[r].at = "looping" /\ req'[r].done = req[r].done + 1
      BY <1>0, <1>7, <2>1 DEF HandlerItem, TypeOK, RequestState
    <2>3. /\ DOMAIN jobs' = DOMAIN jobs
          /\ \A i \in DOMAIN jobs :
               /\ SameOutcome(i)
               /\ \/ jobs'[i].progress = jobs[i].progress
                  \/ i = req[r].id /\ ~jobs[i].finished
                     /\ jobs'[i].progress = req[r].done + 1
      BY <1>0, <1>7, <2>1, SetProgressEffect DEF HandlerItem, SameOutcome
    <2>4. req[r].done \in Nat
      BY <2>1, BoundsAssumption DEF RequestState
    <2> QED
      BY <1>7, <2>2, <2>3, <2>4, HandlerKeeps DEF HandlerItem
  <1>8. ASSUME NEW r \in Requests, HandlerFull(r) PROVE IInv'
    <2>1. /\ \A s \in Requests : s # r => req'[s] = req[s]
          /\ req'[r].id = req[r].id /\ req'[r].at = "noting"
          /\ req[r].at = "looping" /\ req'[r].done = Items /\ req[r].done = Items
      <3>1. req[r] \in RequestState
        BY <1>0 DEF TypeOK
      <3> QED
        BY <1>0, <1>8, <3>1 DEF HandlerFull, Goto, TypeOK, RequestState
    <2>2. /\ DOMAIN jobs' = DOMAIN jobs
          /\ \A i \in DOMAIN jobs :
               /\ SameOutcome(i)
               /\ \/ jobs'[i].progress = jobs[i].progress
                  \/ i = req[r].id /\ ~jobs[i].finished
                     /\ jobs'[i].progress = Items
      BY <1>0, <1>8, BoundsAssumption, SetProgressEffect DEF HandlerFull
    <2> QED
      BY <1>8, <2>1, <2>2, HandlerKeeps, BoundsAssumption DEF HandlerFull
  <1>9. ASSUME NEW r \in Requests, HandlerNote(r) PROVE IInv'
    BY <1>0, <1>2, <1>9, WriteNotesEffect, HandlerKeeps
    DEF HandlerNote, Places, Notes
  <1>10. ASSUME NEW r \in Requests, HandlerRespond(r) PROVE IInv'
    BY <1>3, <1>10, HandlerKeeps DEF HandlerRespond, SameOutcome
  <1>11. ASSUME NEW r \in Requests, HandlerPanic(r) PROVE IInv'
    BY <1>2, <1>11, HandlerKeeps DEF HandlerPanic, Places, InHandler, SameOutcome
  <1>12. ASSUME NEW r \in Requests, Finish(r) PROVE IInv'
    BY <1>12, FinishKeeps
  <1>13. ASSUME NEW c \in Clients, Ask(c) PROVE IInv'
    <2>1. UNCHANGED <<jobs, jobResults, used, req>>
      BY <1>13 DEF Ask, GetJob, GetResult, GetResultMissed
    <2> QED
      BY <2>1, IdleKeeps
  <1>14. CASE Evict
    BY <1>14, EvictKeeps
  <1>15. CASE Close
    BY <1>15, IdleKeeps DEF Close
  <1>16. CASE ClockTick
    BY <1>0, <1>16, ClockTickEffect
    DEF IInv, Owners, Reported, ResultsMatchJobs, ResultIsOwn,
        AnsweredIsResolved, IsRegistered, SameOutcome, ClockTick
  <1>17. CASE BeginList \/ EndList
    BY <1>17, IdleKeeps DEF BeginList, EndList
  <1>18. CASE UNCHANGED vars
    BY <1>18, IdleKeeps DEF vars
  <1> QED
    BY <1>1, <1>4, <1>5, <1>6, <1>7, <1>8, <1>9, <1>10, <1>11, <1>12, <1>13,
       <1>14, <1>15, <1>16, <1>17, <1>18 DEF Next, Serve, Proceed

LEMMA Invariant == Spec => []IInv
  <1>1. Init => IInv
    BY TypeInit DEF IInv, Init, Owners, Reported, ResultsMatchJobs, ResultIsOwn,
                    AnsweredIsResolved, IsRegistered
  <1> QED
    BY <1>1, Inductive, TypeCorrect, PTL DEF Spec

\* The maps of jobs and of results never disagree.
THEOREM MapsAgree == Spec => []ResultsMatchJobs
  BY Invariant, PTL DEF IInv

\* No result is ever another request's, half written, or at odds with the
\* outcome of its job.
THEOREM ResultsOwned == Spec => []ResultIsOwn
  BY Invariant, PTL DEF IInv

\* A background job whose handler returned never stays pending.
THEOREM AnsweredResolved == Spec => []AnsweredIsResolved
  BY Invariant, PTL DEF IInv

\* No step takes the progress of a job back.
THEOREM ProgressMonotone == Spec => ProgressNeverRegresses
  <1> DEFINE Grows == \A i \in DOMAIN jobs \cap DOMAIN jobs' :
                        jobs'[i].progress >= jobs[i].progress
  <1>1. IInv /\ [Next]_vars => [Grows]_jobs
    <2> SUFFICES ASSUME IInv, [Next]_vars, jobs' # jobs PROVE Grows
      OBVIOUS
    <2>1. TypeOK
      BY DEF IInv
    <2>2. \A i \in DOMAIN jobs : jobs[i].progress \in 0..Items
      BY <2>1 DEF TypeOK, JobDetails
    <2> SUFFICES ASSUME NEW i \in DOMAIN jobs, i \in DOMAIN jobs',
                        jobs'[i].progress # jobs[i].progress
                 PROVE  jobs'[i].progress >= jobs[i].progress
      BY <2>2, BoundsAssumption
    <2>3. ASSUME NEW r \in Requests, Start(r) PROVE FALSE
      BY <2>3 DEF Start, Register, Put, Conflict, IsRegistered
    <2>4. ASSUME NEW r \in Requests, HandlerItem(r)
          PROVE  jobs'[i].progress >= jobs[i].progress
      <3>1. req[r].done + 1 \in 0..Items /\ req[r].done \in Nat
        BY <2>1, <2>4, BoundsAssumption DEF HandlerItem, TypeOK, RequestState
      <3>2. /\ i = req[r].id /\ ~jobs[i].finished
            /\ jobs'[i].progress = req[r].done + 1
        BY <2>1, <2>4, <3>1, SetProgressEffect DEF HandlerItem
      <3>3. jobs[i].progress <= req[r].done
        BY <3>2 DEF IInv, Reported
      <3> QED
        BY <2>2, <3>1, <3>2, <3>3, BoundsAssumption
    <2>5. ASSUME NEW r \in Requests, HandlerFull(r)
          PROVE  jobs'[i].progress >= jobs[i].progress
      <3>1. jobs'[i].progress = Items
        BY <2>1, <2>5, BoundsAssumption, SetProgressEffect DEF HandlerFull
      <3> QED
        BY <2>2, <3>1, BoundsAssumption
    <2>6. ASSUME NEW r \in Requests, HandlerBegin(r) \/ HandlerNote(r) PROVE FALSE
      BY <2>1, <2>6, WriteNotesEffect DEF HandlerBegin, HandlerNote, Notes
    <2>7. ASSUME NEW r \in Requests, Finish(r)
          PROVE  jobs'[i].progress >= jobs[i].progress
      <3>1. jobs'[i].progress = Items
        BY <2>7 DEF Finish, SetFinished, FinishedJob, CanFinish, IsRegistered
      <3> QED
        BY <2>2, <3>1, BoundsAssumption
    <2>8. CASE Evict
      BY <2>8 DEF Evict, Restrict
    <2>9. CASE ClockTick
      BY <2>1, <2>9, ClockTickEffect
    <2>10. \A r \in Requests : ParseBody(r) => jobs' = jobs
      BY DEF ParseBody
    <2>11. \A r \in Requests :
             HandlerRefuse(r) \/ HandlerRespond(r) \/ HandlerPanic(r)
               => jobs' = jobs
      BY DEF HandlerRefuse, HandlerRespond, HandlerPanic
    <2>12. \A c \in Clients : Ask(c) => jobs' = jobs
      BY DEF Ask, GetJob, GetResult, GetResultMissed
    <2>13. Close \/ BeginList \/ EndList \/ UNCHANGED vars => jobs' = jobs
      BY DEF Close, BeginList, EndList, vars
    <2> QED
      BY <2>3, <2>4, <2>5, <2>6, <2>7, <2>8, <2>9, <2>10, <2>11, <2>12, <2>13
      DEF Next, Serve, Proceed
  <1> QED
    BY <1>1, Invariant, PTL DEF Spec, ProgressNeverRegresses

-----------------------------------------------------------------------------
(***************************************************************************)
(* The registrar implements the life cycle of JobLifecycle.                *)
(***************************************************************************)

LEMMA SamePhase ==
  ASSUME DOMAIN jobs' = DOMAIN jobs, used' = used,
         \A i \in DOMAIN jobs : SameOutcome(i)
  PROVE  Phase' = Phase
  BY DEF Phase, SameOutcome

\* Every step maps to a step of the life cycle or to none: Start begins a
\* job, Finish resolves one, Evict forgets the expired ones.
LEMMA LifecycleStep == IInv /\ [Next]_vars => [Promise!Next]_Phase
  <1> SUFFICES ASSUME IInv, [Next]_vars PROVE Promise!Next \/ Phase' = Phase
    OBVIOUS
  <1>0. TypeOK
    BY DEF IInv
  <1>1. ASSUME NEW r \in Requests, Start(r) PROVE Promise!Next \/ Phase' = Phase
    <2>1. PICK id \in Ids :
            \/ UNCHANGED <<jobs, used>>
            \/ id \notin used /\ Register(id)
      BY <1>1 DEF Start, Conflict
    <2>2. CASE UNCHANGED <<jobs, used>>
      BY <2>2 DEF Phase
    <2>3. CASE id \notin used /\ Register(id)
      <3>1. Phase[id] = "unused"
        BY <2>3 DEF Phase
      <3>2. Phase' = [Phase EXCEPT ![id] = "running"]
        BY <1>0, <2>3 DEF Phase, Register, Put, NewJob, TypeOK
      <3> QED
        BY <3>1, <3>2 DEF Promise!Next, Promise!Begin
    <2> QED
      BY <2>1, <2>2, <2>3
  <1>2. ASSUME NEW r \in Requests, Finish(r) PROVE Promise!Next \/ Phase' = Phase
    <2>1. CASE UNCHANGED jobs
      BY <1>2, <2>1 DEF Finish, Phase
    <2>2. CASE ~UNCHANGED jobs
      <3> DEFINE id == req[r].id
                 outcome == IF req[r].status = "success"
                            THEN "succeeded" ELSE "failed"
      <3>1. id \in DOMAIN jobs /\ ~jobs[id].finished
        BY <1>2, <2>2 DEF Finish, SetFinished, CanFinish, IsRegistered
      <3>2. jobs' = [jobs EXCEPT ![id] =
                       FinishedJob(jobs[id], req[r].status = "success")]
        BY <1>2, <2>2 DEF Finish, SetFinished
      <3>3. id \in Ids /\ id \in used /\ used' = used
        BY <1>0, <1>2, <3>1 DEF TypeOK, Finish
      <3>4. Phase[id] = "running"
        BY <3>1, <3>3 DEF Phase
      <3>5. Phase' = [Phase EXCEPT ![id] = outcome]
        BY <3>1, <3>2, <3>3 DEF Phase, FinishedJob
      <3>6. outcome \in Promise!Resolved
        BY DEF Promise!Resolved
      <3> QED
        BY <3>3, <3>4, <3>5, <3>6 DEF Promise!Next, Promise!Resolve
    <2> QED
      BY <2>1, <2>2
  <1>3. CASE Evict
    <2>1. Expired \in SUBSET Ids /\ Expired \subseteq DOMAIN jobs
      BY <1>0 DEF TypeOK, Expired
    <2>2. \A i \in Expired : Phase[i] \in Promise!Known
      BY <1>0, <2>1 DEF TypeOK, Phase, Promise!Known, Promise!Resolved
    <2>3. Phase' = [i \in Ids |-> IF i \in Expired THEN "forgotten" ELSE Phase[i]]
      BY <1>0, <1>3, <2>1 DEF Evict, Restrict, Phase, TypeOK
    <2> QED
      BY <2>1, <2>2, <2>3 DEF Promise!Next, Promise!Forget
  <1>4. ASSUME NEW r \in Requests, HandlerItem(r) PROVE Phase' = Phase
    <2>1. req[r].done + 1 \in 0..Items
      BY <1>0, <1>4, BoundsAssumption DEF HandlerItem, TypeOK, RequestState
    <2>2. DOMAIN jobs' = DOMAIN jobs /\ \A i \in DOMAIN jobs : SameOutcome(i)
      BY <1>0, <1>4, <2>1, SetProgressEffect DEF HandlerItem, SameOutcome
    <2> QED
      BY <1>4, <2>2, SamePhase DEF HandlerItem
  <1>5. ASSUME NEW r \in Requests, HandlerFull(r) PROVE Phase' = Phase
    BY <1>0, <1>5, BoundsAssumption, SetProgressEffect, SamePhase DEF HandlerFull
  <1>6. ASSUME NEW r \in Requests, HandlerBegin(r) PROVE Phase' = Phase
    BY <1>0, <1>6, WriteNotesEffect, SamePhase DEF HandlerBegin, Notes
  <1>7. ASSUME NEW r \in Requests, HandlerNote(r) PROVE Phase' = Phase
    BY <1>0, <1>7, WriteNotesEffect, SamePhase DEF HandlerNote, Notes
  <1>8. CASE ClockTick
    BY <1>0, <1>8, ClockTickEffect, SamePhase DEF ClockTick
  <1>9. \A r \in Requests :
          ParseBody(r) \/ HandlerRefuse(r) \/ HandlerRespond(r) \/ HandlerPanic(r)
            => UNCHANGED <<jobs, used>>
    BY DEF ParseBody, HandlerRefuse, HandlerRespond, HandlerPanic
  <1>10. \A c \in Clients : Ask(c) => UNCHANGED <<jobs, used>>
    BY DEF Ask, GetJob, GetResult, GetResultMissed
  <1>11. Close \/ BeginList \/ EndList \/ UNCHANGED vars => UNCHANGED <<jobs, used>>
    BY DEF Close, BeginList, EndList, vars
  <1>12. UNCHANGED <<jobs, used>> => Phase' = Phase
    BY DEF Phase
  <1> QED
    BY <1>1, <1>2, <1>3, <1>4, <1>5, <1>6, <1>7, <1>8, <1>9, <1>10, <1>11, <1>12
    DEF Next, Serve, Proceed

\* The registrar keeps the promise its clients rely on.
THEOREM LifecycleImplemented == Spec => Lifecycle
  <1>1. Init => Promise!Init
    BY DEF Init, Promise!Init, Phase
  <1> QED
    BY <1>1, LifecycleStep, Invariant, PTL DEF Spec, Lifecycle, Promise!Spec

-----------------------------------------------------------------------------
(***************************************************************************)
(* What a client is told only moves on.  The life cycle gives what the     *)
(* registrar's state can do behind an answer; ClientInv says what an       *)
(* answer, and a first lookup that missed, imply about the present.        *)
(***************************************************************************)

\* An id out of the registrar stays out, a finished job stays finished.
MovesOn ==
  /\ used \subseteq used'
  /\ \A i \in used :
       /\ i \notin DOMAIN jobs => i \notin DOMAIN jobs'
       /\ i \in DOMAIN jobs /\ jobs[i].finished /\ i \in DOMAIN jobs'
            => jobs'[i].finished

ClientInv ==
  \A c \in Clients :
    /\ query[c] # Unset => query[c] \in used
    /\ \A i \in Ids :
         /\ answer[c][i] = "gone" => i \in used /\ i \notin DOMAIN jobs
         /\ answer[c][i] = "finished" =>
              /\ i \in used
              /\ i \in DOMAIN jobs => jobs[i].finished /\ query[c] # i

LEMMA EveryStepMovesOn == IInv /\ [Next]_vars => MovesOn
  <1> SUFFICES ASSUME IInv, [Next]_vars PROVE MovesOn
    OBVIOUS
  <1>0. TypeOK
    BY DEF IInv
  <1> USE DEF MovesOn
  <1>1. ASSUME NEW r \in Requests, Start(r) PROVE MovesOn
    BY <1>0, <1>1 DEF Start, Register, Put, Conflict, IsRegistered, TypeOK
  <1>2. ASSUME NEW r \in Requests, Finish(r) PROVE MovesOn
    BY <1>0, <1>2 DEF Finish, SetFinished, FinishedJob, CanFinish, IsRegistered, TypeOK
  <1>3. CASE Evict
    BY <1>3 DEF Evict, Restrict
  <1>4. ASSUME NEW r \in Requests, HandlerItem(r) PROVE MovesOn
    <2>1. req[r].done + 1 \in 0..Items
      BY <1>0, <1>4, BoundsAssumption DEF HandlerItem, TypeOK, RequestState
    <2> QED
      BY <1>0, <1>4, <2>1, SetProgressEffect DEF HandlerItem, SameOutcome
  <1>5. ASSUME NEW r \in Requests, HandlerFull(r) PROVE MovesOn
    BY <1>0, <1>5, BoundsAssumption, SetProgressEffect DEF HandlerFull, SameOutcome
  <1>6. ASSUME NEW r \in Requests, HandlerBegin(r) \/ HandlerNote(r) PROVE MovesOn
    BY <1>0, <1>6, WriteNotesEffect DEF HandlerBegin, HandlerNote, Notes, SameOutcome
  <1>7. CASE ClockTick
    BY <1>0, <1>7, ClockTickEffect DEF ClockTick, SameOutcome
  <1>8. \A r \in Requests :
          ParseBody(r) \/ HandlerRefuse(r) \/ HandlerRespond(r) \/ HandlerPanic(r)
            => UNCHANGED <<jobs, used>>
    BY DEF ParseBody, HandlerRefuse, HandlerRespond, HandlerPanic
  <1>9. \A c \in Clients : Ask(c) => UNCHANGED <<jobs, used>>
    BY DEF Ask, GetJob, GetResult, GetResultMissed
  <1>10. Close \/ BeginList \/ EndList \/ UNCHANGED vars => UNCHANGED <<jobs, used>>
    BY DEF Close, BeginList, EndList, vars
  <1> QED
    BY <1>1, <1>2, <1>3, <1>4, <1>5, <1>6, <1>7, <1>8, <1>9, <1>10
    DEF Next, Serve, Proceed

LEMMA AskStep ==
  ASSUME IInv, ClientInv, NEW c \in Clients, Ask(c)
  PROVE  /\ ClientInv'
         /\ \A d \in Clients, i \in Ids :
              Rank[answer'[d][i]] >= Rank[answer[d][i]]
  <1>0. TypeOK /\ ResultsMatchJobs
    BY DEF IInv
  <1>1. UNCHANGED <<jobs, used>>
    BY DEF Ask, GetJob, GetResult, GetResultMissed
  <1>2. /\ Rank["none"] = 0 /\ Rank["pending"] = 1
        /\ Rank["finished"] = 2 /\ Rank["gone"] = 3
    BY DEF Rank
  <1>3. \A d \in Clients, i \in Ids :
          answer[d][i] \in {"none", "pending", "finished", "gone"}
    BY <1>0 DEF TypeOK, Answers
  <1>4. ASSUME NEW id \in Ids, NEW a \in {"pending", "finished", "gone"},
               Tell(c, id, a),
               a = "pending" => answer[c][id] \notin {"finished", "gone"},
               a = "finished" => id \in DOMAIN jobResults,
               a = "gone" => id \in used /\ id \notin DOMAIN jobs,
               query' \in [Clients -> Ids \cup {Unset}],
               \A d \in Clients : query'[d] \in {query[d], Unset},
               a = "finished" => query'[c] = Unset
        PROVE  /\ ClientInv'
               /\ \A d \in Clients, i \in Ids :
                    Rank[answer'[d][i]] >= Rank[answer[d][i]]
    <2>1. /\ answer'[c][id] = a
          /\ \A d \in Clients, i \in Ids :
               ~(d = c /\ i = id) => answer'[d][i] = answer[d][i]
      BY <1>0, <1>4 DEF Tell, TypeOK
    <2>2. id \in DOMAIN jobResults => id \in DOMAIN jobs /\ jobs[id].finished
      BY <1>0 DEF ResultsMatchJobs
    <2>3. answer[c][id] = "gone" => id \notin DOMAIN jobs
      BY DEF ClientInv
    <2>4. ClientInv'
      <3>1. \A d \in Clients : query'[d] # Unset => query'[d] \in used'
        BY <1>1, <1>4 DEF ClientInv
      <3>2. ASSUME NEW d \in Clients, NEW i \in Ids
            PROVE  /\ answer'[d][i] = "gone" => i \in used /\ i \notin DOMAIN jobs
                   /\ answer'[d][i] = "finished" =>
                        /\ i \in used
                        /\ i \in DOMAIN jobs => jobs[i].finished /\ query'[d] # i
        <4>1. CASE d = c /\ i = id
          <5>1. i # Unset
            BY SetsAssumption
          <5> QED
            BY <1>0, <1>4, <2>1, <2>2, <4>1, <5>1 DEF TypeOK
        <4>2. CASE ~(d = c /\ i = id)
          <5>1. i # Unset /\ answer'[d][i] = answer[d][i]
            BY <2>1, <4>2, SetsAssumption
          <5> QED
            BY <1>4, <5>1 DEF ClientInv
        <4> QED
          BY <4>1, <4>2
      <3> QED
        BY <1>1, <3>1, <3>2 DEF ClientInv
    <2>5. ASSUME NEW d \in Clients, NEW i \in Ids
          PROVE  Rank[answer'[d][i]] >= Rank[answer[d][i]]
      <3>1. CASE d = c /\ i = id
        BY <1>2, <1>3, <1>4, <2>1, <2>2, <2>3, <3>1
      <3>2. CASE ~(d = c /\ i = id)
        BY <1>2, <1>3, <2>1, <3>2
      <3> QED
        BY <3>1, <3>2
    <2> QED
      BY <2>4, <2>5
  <1>5. ASSUME NEW id \in Ids, GetJob(c, id)
        PROVE  /\ ClientInv'
               /\ \A d \in Clients, i \in Ids :
                    Rank[answer'[d][i]] >= Rank[answer[d][i]]
    <2> DEFINE a == IF ~IsRegistered(id) THEN "gone"
                    ELSE IF jobs[id].finished THEN "finished" ELSE "pending"
    <2>1. /\ Tell(c, id, a) /\ query' = query /\ query[c] = Unset /\ id \in used
      BY <1>5 DEF GetJob, Standing
    <2>2. a = "pending" => answer[c][id] \notin {"finished", "gone"}
      BY DEF ClientInv, IsRegistered
    <2>3. a = "finished" => id \in DOMAIN jobResults
      BY <1>0 DEF ResultsMatchJobs, IsRegistered
    <2>4. query \in [Clients -> Ids \cup {Unset}]
      BY <1>0 DEF TypeOK
    <2> HIDE DEF a
    <2>5. a \in {"pending", "finished", "gone"}
      BY DEF a
    <2>6. a = "gone" => id \in used /\ id \notin DOMAIN jobs
      BY <2>1 DEF a, IsRegistered
    <2> QED
      BY <1>4, <2>1, <2>2, <2>3, <2>4, <2>5, <2>6
  <1>6. ASSUME NEW id \in Ids, GetResult(c, id)
        PROVE  /\ ClientInv'
               /\ \A d \in Clients, i \in Ids :
                    Rank[answer'[d][i]] >= Rank[answer[d][i]]
    <2>1. CASE id \in DOMAIN jobResults
      <3>1. Tell(c, id, "finished") /\ query' = query /\ query[c] = Unset
        BY <1>6, <2>1 DEF GetResult
      <3>2. query \in [Clients -> Ids \cup {Unset}]
        BY <1>0 DEF TypeOK
      <3> QED
        BY <1>4, <2>1, <3>1, <3>2
    <2>2. CASE id \notin DOMAIN jobResults
      <3>1. query' = [query EXCEPT ![c] = id] /\ answer' = answer /\ id \in used
        BY <1>6, <2>2 DEF GetResult
      <3>2. id \in DOMAIN jobs => ~jobs[id].finished
        BY <1>0, <2>2 DEF ResultsMatchJobs
      <3>3. ClientInv'
        BY <1>0, <1>1, <3>1, <3>2 DEF ClientInv, TypeOK
      <3> QED
        BY <1>2, <1>3, <3>1, <3>3
    <2> QED
      BY <2>1, <2>2
  <1>7. ASSUME GetResultMissed(c)
        PROVE  /\ ClientInv'
               /\ \A d \in Clients, i \in Ids :
                    Rank[answer'[d][i]] >= Rank[answer[d][i]]
    <2> DEFINE id == query[c]
               a  == IF IsRegistered(id) THEN "pending" ELSE "gone"
    <2>1. /\ Tell(c, id, a) /\ id # Unset
          /\ query' = [query EXCEPT ![c] = Unset]
      BY <1>7 DEF GetResultMissed
    <2>2. id \in Ids /\ id \in used
      BY <1>0, <2>1 DEF TypeOK, ClientInv
    <2>3. a = "pending" => answer[c][id] \notin {"finished", "gone"}
      BY <2>2 DEF ClientInv, IsRegistered
    <2>4. /\ query' \in [Clients -> Ids \cup {Unset}]
          /\ \A d \in Clients : query'[d] \in {query[d], Unset}
      BY <1>0, <2>1 DEF TypeOK
    <2>5. a \in {"pending", "finished", "gone"} /\ a # "finished"
      OBVIOUS
    <2>6. a = "gone" => id \in used /\ id \notin DOMAIN jobs
      BY <2>2 DEF IsRegistered
    <2> HIDE DEF a, id
    <2> QED
      BY <1>4, <2>1, <2>2, <2>3, <2>4, <2>5, <2>6
  <1> QED
    BY <1>5, <1>6, <1>7 DEF Ask

\* A list tells a client where each id it knows stands now.
LEMMA ListStep ==
  ASSUME IInv, ClientInv, BeginList
  PROVE  /\ ClientInv'
         /\ \A d \in Clients, i \in Ids :
              Rank[answer'[d][i]] >= Rank[answer[d][i]]
  <1>0. TypeOK
    BY DEF IInv
  <1>1. UNCHANGED <<jobs, used, query>>
    BY DEF BeginList
  <1>2. /\ Rank["none"] = 0 /\ Rank["pending"] = 1
        /\ Rank["finished"] = 2 /\ Rank["gone"] = 3
    BY DEF Rank
  <1>3. \A d \in Clients, i \in Ids :
          answer[d][i] \in {"none", "pending", "finished", "gone"}
    BY <1>0 DEF TypeOK, Answers
  <1>4. CASE UNCHANGED answer
    BY <1>1, <1>2, <1>3, <1>4 DEF ClientInv
  <1>5. ASSUME NEW c \in Clients, query[c] = Unset,
               answer' = [answer EXCEPT ![c] =
                 [i \in Ids |-> IF i \in used THEN Standing(i) ELSE answer[c][i]]]
        PROVE  /\ ClientInv'
               /\ \A d \in Clients, i \in Ids :
                    Rank[answer'[d][i]] >= Rank[answer[d][i]]
    <2>1. ASSUME NEW d \in Clients, NEW i \in Ids
          PROVE  \/ answer'[d][i] = answer[d][i]
                 \/ d = c /\ i \in used /\ answer'[d][i] = Standing(i)
      BY <1>0, <1>5 DEF TypeOK
    <2>2. \A i \in Ids : i # Unset
      BY SetsAssumption
    <2>3. ClientInv'
      BY <1>1, <1>5, <2>1, <2>2 DEF ClientInv, Standing, IsRegistered
    <2>4. ASSUME NEW i \in Ids, i \in used
          PROVE  Rank[Standing(i)] >= Rank[answer[c][i]]
      BY <1>2, <1>3, <2>4 DEF ClientInv, Standing, IsRegistered
    <2>5. ASSUME NEW d \in Clients, NEW i \in Ids
          PROVE  Rank[answer'[d][i]] >= Rank[answer[d][i]]
      BY <1>2, <1>3, <2>1, <2>4
    <2> QED
      BY <2>3, <2>5
  <1> QED
    BY <1>4, <1>5 DEF BeginList

\* No client is ever told of an earlier phase than it was told before.
THEOREM AnswersMoveOn == Spec => AnswersNeverRegress
  <1> DEFINE Onward == \A c \in Clients, i \in Ids :
                         Rank[answer'[c][i]] >= Rank[answer[c][i]]
  <1>1. Init => ClientInv
    BY DEF Init, ClientInv
  <1>2. IInv /\ ClientInv /\ [Next]_vars => ClientInv' /\ [Onward]_answer
    <2> SUFFICES ASSUME IInv, ClientInv, [Next]_vars
                 PROVE  ClientInv' /\ [Onward]_answer
      OBVIOUS
    <2>1. ASSUME NEW c \in Clients, Ask(c) PROVE ClientInv' /\ [Onward]_answer
      BY <2>1, AskStep
    <2>2. ASSUME UNCHANGED <<query, answer>> PROVE ClientInv' /\ [Onward]_answer
      BY <2>2, EveryStepMovesOn DEF ClientInv, MovesOn
    <2>3. \A r \in Requests : Start(r) => UNCHANGED <<query, answer>>
      BY DEF Start
    <2>4. \A r \in Requests : Serve(r) => UNCHANGED <<query, answer>>
      BY DEF Serve, Proceed, ParseBody, HandlerRefuse, HandlerBegin, HandlerItem,
             HandlerFull, HandlerNote, HandlerRespond, HandlerPanic, Finish
    <2>5. Evict \/ Close \/ ClockTick \/ EndList \/ UNCHANGED vars
            => UNCHANGED <<query, answer>>
      BY DEF Evict, Close, ClockTick, EndList, vars
    <2>6. CASE BeginList
      BY <2>6, ListStep
    <2> QED
      BY <2>1, <2>2, <2>3, <2>4, <2>5, <2>6 DEF Next
  <1> QED
    BY <1>1, <1>2, Invariant, PTL DEF Spec, AnswersNeverRegress
=============================================================================
