-------------------- MODULE MCProjectSessionIntegration --------------------
(* Two projects to switch between, two items in each, one library item and  *)
(* one run.                                                                 *)
EXTENDS ProjectSessionIntegration
CONSTANTS p1, p2, i1, i2, l1, r1
=============================================================================
