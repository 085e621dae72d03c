--------------------------- MODULE MCSubstitution ---------------------------
(* Two substituters of one path, and clients that name both or only one.    *)
EXTENDS SubstitutionQueue

CONSTANTS a, b, path, c1, c2

RankOf == [s \in Stores |-> IF s = a THEN 1 ELSE 2]
Lists == {{a}, {a, b}}
=============================================================================
