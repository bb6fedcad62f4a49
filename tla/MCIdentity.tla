----------------------------- MODULE MCIdentity -----------------------------
(* Identity on definitions of one kind, so that only origins tell them     *)
(* apart.                                                                  *)
EXTENDS Identity

(* A definition with a trace and no field, and one with a field and no     *)
(* trace.                                                                  *)
MixedSettings == {[noTrace |-> b, fields |-> IF b THEN {"id"} ELSE {}] : b \in BOOLEAN}
=============================================================================
