----------------------------- MODULE MCResolver -----------------------------
(* Resolver on three definitions, two of them of one kind and two of them  *)
(* with one value for the key.                                             *)
EXTENDS Resolver

CONSTANTS d1, d2, d3

MCKind == [d \in Definitions |-> IF d = d3 THEN "internal" ELSE "not_found"]

MCField == [d \in Definitions |-> [k \in Keys |-> IF d = d1 THEN 404 ELSE 500]]
=============================================================================
