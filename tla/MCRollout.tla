------------------------------ MODULE MCRollout ------------------------------
(* Instances of Rollout for TLC.                                           *)
EXTENDS Rollout, TLC

CONSTANTS r1, r2, s0, s1, s2

\* The last system has another kernel.
KernelOf == [s \in Systems |-> IF s = s2 THEN 2 ELSE 1]

Gives(s, nodes, source) == [systems |-> [n \in Nodes |-> s], select |-> nodes,
                            source |-> source, paused |-> FALSE]

\* A system built from a source, whose kubelet may fail, and a prebuilt one
\* that takes a reboot.
Mixed == {Gives(s1, Nodes, TRUE), Gives(s2, Nodes, FALSE)}

\* The first is built from a source; the second leaves the first node out.
Fleet == {Gives(s1, Nodes, TRUE), Gives(s2, Nodes \ {1}, FALSE)}
=============================================================================
