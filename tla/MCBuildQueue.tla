---------------------------- MODULE MCBuildQueue ----------------------------
(* Finite instances of BuildQueue for TLC. *)
EXTENDS BuildQueue, TLC

CONSTANTS r1, r2, c1, k1, local
=============================================================================
