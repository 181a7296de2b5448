--------------------------- MODULE MCAnchorSearch ---------------------------
(* Small instances of AnchorSearch for TLC.                                *)
EXTENDS AnchorSearch

\* Good, fair and bad anchors, whose match falls off slowly, fast, or ever faster.
SomeFalloffs ==
  {[d \in 0..Far |-> 30 - d], [d \in 0..Far |-> 30 - d * d],
   [d \in 0..Far |-> 22 - 3 * d], [d \in 0..Far |-> 16 - d]}

\* Floats much closer than Epsilon, and too far apart for it.
FineAndCoarse == {1, 2}

PowersOfTwo == [n \in 0..MaxIterations |-> 2^n]

Tilted == -5
=============================================================================
