---------------------------- MODULE JobLifecycle ----------------------------
(***************************************************************************)
(* What a job registrar promises its clients, whatever maps, locks and     *)
(* goroutines it is built from: a job begins once, is resolved at most     *)
(* once with an outcome that never changes, and once forgotten it never    *)
(* comes back.  A job may be forgotten before it is resolved.              *)
(***************************************************************************)

CONSTANT Ids                \* the identifiers a job can be given

VARIABLE phase              \* what is known of each identifier

Resolved == {"succeeded", "failed"}
Known    == {"running"} \cup Resolved
Phases   == {"unused", "forgotten"} \cup Known

Init == phase = [i \in Ids |-> "unused"]

Begin(i) ==
  /\ phase[i] = "unused"
  /\ phase' = [phase EXCEPT ![i] = "running"]

Resolve(i, outcome) ==
  /\ phase[i] = "running"
  /\ phase' = [phase EXCEPT ![i] = outcome]

\* Any set of known jobs can be dropped at once.
Forget(gone) ==
  /\ \A i \in gone : phase[i] \in Known
  /\ phase' = [i \in Ids |-> IF i \in gone THEN "forgotten" ELSE phase[i]]

Next ==
  \/ \E i \in Ids : Begin(i)
  \/ \E i \in Ids, outcome \in Resolved : Resolve(i, outcome)
  \/ \E gone \in SUBSET Ids : Forget(gone)

Spec == Init /\ [][Next]_phase
=============================================================================
