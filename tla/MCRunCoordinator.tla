-------------------------- MODULE MCRunCoordinator --------------------------
(* Two runs over two setups, so that foreign, mismatched and stale commands *)
(* all occur, and a run whose number comes back after another one.          *)
EXTENDS RunEffects, TLC
CONSTANTS r1, r2, s1, s2, pf1

MCSymmetry == Permutations({r1, r2}) \cup Permutations({s1, s2})
=============================================================================
