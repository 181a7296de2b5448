------------------------------- MODULE Server -------------------------------
(***************************************************************************)
(* The life of the process (internal/server/start.go) around the job       *)
(* registrar: setup opens the database and makes the registrar, hands both *)
(* to the routes and returns; Start then listens.  The two deferred Close  *)
(* calls of setup run when setup returns.                                  *)
(***************************************************************************)
EXTENDS JobRegistrar

VARIABLES
  phase,            \* how far setup and Start have come
  dbOpen            \* whether the *sql.DB of the resources takes statements

serverVars == <<vars, phase, dbOpen>>

\* setup has made the resources and the registrar.
ServerInit == Init /\ phase = "routing" /\ dbOpen = TRUE

Advance(from, to) == phase = from /\ phase' = to

\* The routes are registered, and setup returns: defer j.Close(), made last,
\* runs first.
CloseRegistrar == Advance("routing", "closing") /\ Close /\ UNCHANGED dbOpen

\* defer s.Close(): from here on every statement is an error.
CloseDatabase ==
  /\ Advance("closing", "returned")
  /\ dbOpen' = FALSE
  /\ UNCHANGED vars

\* Start calls ListenAndServe on what setup returned.
ListenAndServe == Advance("returned", "listening") /\ UNCHANGED <<vars, dbOpen>>

\* Both handlers load a template before they do anything; without a database
\* they answer 404.
Work(r) ==
  \/ Start(r) \/ ParseBody(r) \/ Finish(r)
  \/ HandlerRefuse(r) \/ (dbOpen /\ HandlerBegin(r))
  \/ HandlerItem(r) \/ HandlerFull(r) \/ HandlerNote(r) \/ HandlerRespond(r)
  \/ HandlerPanic(r)

Listening ==
  /\ phase = "listening"
  /\ \/ \E r \in Requests : Work(r)
     \/ \E c \in Clients : Ask(c)
     \/ BeginList \/ EndList
  /\ UNCHANGED <<phase, dbOpen>>

Background == (Evict \/ ClockTick) /\ UNCHANGED <<phase, dbOpen>>

ServerNext ==
  CloseRegistrar \/ CloseDatabase \/ ListenAndServe \/ Listening \/ Background

ServerSpec == ServerInit /\ [][ServerNext]_serverVars

-----------------------------------------------------------------------------

\* api/openapi.yaml:304: completed jobs "will be "forgotten" after a while";
\* README.md: the server stores templates and scans.  A server that listens
\* still has its eviction ticker and its database.
ServesWithItsResources == phase = "listening" => tickerOn /\ dbOpen
=============================================================================
