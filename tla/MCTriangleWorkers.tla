------------------------ MODULE MCTriangleWorkers --------------------------
(* Instances of TriangleWorkers for TLC.                                   *)
EXTENDS TriangleWorkers
============================================================================
