---------------------------- MODULE MCDefinition ----------------------------
(* Definition on two keys, two values and lists of at most two options.    *)
EXTENDS Definition

CONSTANTS k1, k2, v1, v2

(* Overwriting and reordering of fields.                                   *)
FieldLists == {<<>>, <<Field(k1, v1)>>, <<Field(k2, v1), Field(k1, v2)>>}

(* Every kind of option, and several of a kind one after the other.        *)
MixedLists ==
    {<<>>,
     <<StackSkip(1), Field(k2, v1), StackSource(-1, 2)>>,
     <<Field(k1, v1), StackSkip(2), StackDepth(5), StackSource(3, 0)>>,
     <<NoTrace, StackDepth(0), Formatter("f"), JSONMarshaler("j"), LogValuer("l")>>}

MCOptions ==
    UNION {{l[i] : i \in DOMAIN l} : l \in FieldLists \cup MixedLists}
=============================================================================
