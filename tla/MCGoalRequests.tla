--------------------------- MODULE MCGoalRequests ---------------------------
(* Instances of GoalRequests for TLC.                                      *)
EXTENDS GoalRequests, TLC

CONSTANTS r1, r2, c1, c2, c3, k1, k2, local

\* The first request has the first client, the second the second.
OwnerOf == [r \in Request |-> IF r = r1 THEN c1 ELSE c2]

\* Every request names the first derivation.
SameRoot == [r \in Request |-> {k1}]

\* The first request names two derivations, the second the second of them.
TwoRoots == [r \in Request |-> IF r = r1 THEN {k1, k2} ELSE {k2}]

\* The second derivation needs the first; the requests name one of each.
RootAndInput == [r \in Request |-> IF r = r1 THEN {k2} ELSE {k1}]

\* No derivation has an input.
NoNeeds == [k \in Key |-> {}]

\* The second derivation needs the first.
SecondNeedsFirst == [k \in Key |-> IF k = k2 THEN {k1} ELSE {}]

\* No handler, and one for the first derivation.
NoOps == [c \in {} |-> k1]

OneOp == [c \in {c3} |-> k1]
=============================================================================
