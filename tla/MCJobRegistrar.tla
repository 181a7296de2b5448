--------------------------- MODULE MCJobRegistrar ---------------------------
(* Small instances of JobRegistrar for TLC.                                *)
EXTENDS JobRegistrar, TLC

\* Requests and ids are interchangeable, and so are clients; the symmetry is
\* used by the run that checks no liveness.
Symmetry == Permutations(Requests) \cup Permutations(Ids)
=============================================================================
