---------------------------- MODULE MCScanStore ----------------------------
(* A small instance of ScanStore for TLC: the goroutines that load and     *)
(* delete are interchangeable.                                             *)
EXTENDS ScanStore, TLC

Symmetry == Permutations(Tasks)
=============================================================================
