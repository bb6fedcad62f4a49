---------------------------- MODULE MCUnmarshal ----------------------------
(* Unmarshal with numbers of few bits: an int64 of 6 bits, a float64 with  *)
(* 4 significant bits, a float32 with 2.                                   *)
EXTENDS Unmarshal, FiniteSetsExt, TLC

MCNumbers == -128 .. 200

RoundTo(bits, n) ==
    LET m == Magnitude(n)
        unit == 2 ^ Min({i \in 0 .. 8 : m \div 2 ^ i < 2 ^ bits})
        up == \/ 2 * (m % unit) > unit
              \/ 2 * (m % unit) = unit /\ (m \div unit) % 2 = 1
        rounded == unit * (m \div unit + (IF up THEN 1 ELSE 0))
    IN IF n < 0 THEN - rounded ELSE rounded

Clipped(n) == IF n > 192 THEN 192 ELSE n

MCRound64 == [n \in MCNumbers |-> Clipped(RoundTo(4, n))]
MCRound32 == [n \in MCNumbers |-> Clipped(RoundTo(2, n))]

MCHighest ==
    [k \in Integral |->
        CASE k = "int8" -> 2 [] k = "int16" -> 6 [] k = "int32" -> 14
          [] k \in {"int", "int64"} -> 62
          [] k = "uint8" -> 6 [] k = "uint16" -> 14 [] k = "uint32" -> 30
          [] k \in {"uint", "uint64"} -> 126]

Floats == {n \in MCNumbers : MCRound64[n] = n /\ n % 2 = 0} \cup {-1, 1, 3, NaN, Infinite}
Int64s == {n \in -64 .. 62 : n % 2 = 0}

Values ==
    {Value(Type("float64"), n) : n \in Floats} \cup {Value(Type("int64"), n) : n \in Int64s}
    \cup {Value(Type("string"), h) : h \in {"text", Redacted}}
    \cup {Value(Type("bytes"), h) : h \in {"text", Redacted}}
    \cup {Value(Type("bool"), "true"), Value(Type("nil"), "nil")}
    \cup {Value(Type(k), h) : k \in {"map", "slice"}, h \in {"fits", "misfits", "opaque"}}

Types ==
    {Type(k) : k \in Primitive \cup {"bytes", "struct", "interface", "map"}}
    \cup {Declared(k) : k \in {"int64", "string", "bool", "float64", "map", "slice", "bytes"}}
    \cup {Pointer(k) : k \in {"int64", "float64", "string", "bool", "struct", "slice", "bytes"}}

Key(id, name, type) == [id |-> id, name |-> name, type |-> type]

Node(message, kind, type, fields, causes) ==
    [message |-> message, kind |-> kind, type |-> type, fields |-> fields, causes |-> causes]

Request(tree, definitions, default, strict, custom) ==
    [data |-> tree, decodes |-> TRUE, definitions |-> definitions, default |-> default,
     strictMode |-> strict, customFieldKeys |-> custom,
     sentinelErrors |-> {<<"*errors.errorString", "EOF">>},
     otherKeys |-> {Key(9, "f", Type("int")), Key(9, "f", Type("string"))}]

(* One field, of any value, and one key for it, of any type.               *)
Conversions ==
    {Request(<<Node("m", "k", "", "f" :> v, <<>>)>>, "k" :> {Key(1, "f", t)}, None, FALSE, <<>>)
        : v \in Values, t \in Types}

Small == Key(1, "f", Type("int8"))
Wide  == Key(2, "f", Type("int"))
Record == Key(3, "f", Type("struct"))
Other == Key(4, "g", Type("int"))

Five  == Value(Type("float64"), 10)
Bad   == Value(Type("map"), "misfits")
Secret == Value(Type("string"), Redacted)

FieldSets ==
    {<<>>, "f" :> Five, "f" :> Bad, "f" :> Secret, ("f" :> Five) @@ ("g" :> Five),
     ("f" :> Bad) @@ ("h" :> Five)}

(* Several keys of one name, keys registered apart, strict mode.           *)
Fields ==
    {Request(<<Node("m", "k", "", f, <<>>)>>, "k" :> ks, None, strict, custom) :
        f \in FieldSets, ks \in {{}, {Small}, {Small, Wide}, {Small, Record}, {Wide, Other}},
        strict \in BOOLEAN, custom \in {<<>>, <<Other>>, <<Small, Wide>>, <<Record, Wide>>}}

Causes ==
    {Node("m", "k", "", "f" :> v, <<>>) : v \in {Five, Bad, Secret}}
    \cup {Node("EOF", "", "*errors.errorString", <<>>, <<>>),
          Node("k", "", "*errdef.definition", <<>>, <<>>),
          Node("", "", "", <<>>, <<>>),
          Node("m", "k", "", ("f" :> Bad) @@ ("h" :> Five), <<>>)}

(* The causes of the root and of its first cause.                          *)
Shapes == {[top |-> <<2>>, inner |-> <<>>], [top |-> <<2>>, inner |-> <<3, 4>>],
           [top |-> <<2, 3>>, inner |-> <<>>], [top |-> <<2, 4>>, inner |-> <<3>>]}

TreeOf(shape, kind, fields, last) ==
    SubSeq(<<Node("m", "k", "", <<>>, shape.top),
             Node("EOF", kind, "*errors.errorString", fields, shape.inner)>> \o last,
           1, 1 + Len(shape.top) + Len(shape.inner))

Trees ==
    {TreeOf(shape, kind, fields, last) :
        shape \in Shapes, kind \in {"k", ""}, fields \in {<<>>, "h" :> Five},
        last \in Causes \X Causes}

CauseTrees ==
    {Request(t, IF default = None THEN "k" :> {Record} ELSE ("k" :> {Record}) @@ ("d" :> {}),
             default, strict, <<>>) : t \in Trees, default \in {None, "d"}, strict \in BOOLEAN}

Garbage == {[r EXCEPT !.decodes = FALSE] : r \in {r \in Fields : r.customFieldKeys = <<>>}}

MCRequests == Conversions \cup Fields \cup CauseTrees \cup Garbage

ASSUME MCSentinelsNamed == SentinelsNamed

(* A resolver with a default, and not strict.                              *)
MCLenientRequests == {r \in CauseTrees : r.default # None /\ ~ r.strictMode}
=============================================================================
