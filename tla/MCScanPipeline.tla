--------------------------- MODULE MCScanPipeline ---------------------------
(* Small instances of ScanPipeline for TLC.                                *)
EXTENDS ScanPipeline, TLC

CONSTANTS d1, d2

TwoDocs == {d1, d2}
TwoEach == d1 :> 2 @@ d2 :> 2
=============================================================================
