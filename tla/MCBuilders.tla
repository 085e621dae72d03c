------------------------------ MODULE MCBuilders ------------------------------
(* Instances of BuilderManager for TLC.                                    *)
EXTENDS BuilderManager, TLC

CONSTANTS j1, j2, j3

\* The names of Jobs are drawn at random.
Names == Permutations(Jobs)
=============================================================================
