----------------------------- MODULE MCMarking -----------------------------
(* A small instance of Marking for TLC.                                     *)
EXTENDS Marking, TLC

\* The pixels of a square of two by two that a disc around its last one covers
\* when it reaches one pixel far.
MCDisc == {<<0, 1>>, <<1, 0>>, <<1, 1>>}

\* Ids are only compared.
Symmetry == Permutations(Questions) \cup Permutations(Ids)
=============================================================================
