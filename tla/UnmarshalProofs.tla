-------------------------- MODULE UnmarshalProofs --------------------------
(***************************************************************************)
(* Safety of reading errors back, for any data, definitions and numbers.   *)
(***************************************************************************)
EXTENDS Unmarshal, FiniteSetTheorems, FunctionTheorems, SequenceTheorems, WellFoundedInduction, TLAPS

-----------------------------------------------------------------------------
(* Conversion                                                              *)

LEMMA OutcomesDiffer ==
    /\ Left # Fails
    /\ \A h : Took(h) # Left /\ Took(h) # Fails /\ Took(h).holds = h
BY DEF Left, Fails, Took

LEMMA TypeKinds ==
    /\ \A k : Type(k).kind = k
    /\ Type("float64") # Type("int64") /\ Type("map") # Type("float64") /\ Type("map") # Type("int64")
    /\ Type("slice") # Type("float64") /\ Type("slice") # Type("int64")
    /\ Type("string") # Type("float64") /\ Type("string") # Type("int64")
    /\ Type("string") # Type("map") /\ Type("string") # Type("slice")
    /\ Type("map").kind = "map" /\ Type("slice").kind = "slice"
<1>1. \A k : Type(k).kind = k
    BY DEF Type
<1> QED
    BY <1>1

(* What a conversion answers with after the attempt for the kind of value. *)
LEMMA LaterOutcome ==
    ASSUME NEW t, NEW v
    PROVE  /\ tryConvertByUnderlyingType(t, v) \in {{Took(v.holds)}, {Left}}
           /\ tryConvertPointer(t, v) \in {{Took(v.holds)}, {Left}}
BY DEF tryConvertByUnderlyingType, tryConvertPointer

LEMMA OutcomeOf ==
    ASSUME NEW t, NEW v, NEW o \in tryConvertFieldValue(t, v)
    PROVE  o = Took(v.holds) \/ o = Left \/ (~ NewValue(t, v) /\ o \in ByKind(t, v))
BY LaterOutcome DEF tryConvertFieldValue

LEMMA NumbersTyped ==
    ASSUME NEW v, ValueTyped(v), Numeric(v)
    PROVE  /\ v.holds \in Int /\ v.holds \in Numbers /\ v.holds \notin NotFinite
           /\ \/ v.type = Type("float64") /\ Round64[v.holds] = v.holds
              \/ v.type = Type("int64") /\ InKind("int64", v.holds)
           /\ v.type # Type("map") /\ v.type # Type("slice")
BY TypeKinds, NumbersAssumption DEF ValueTyped, Numeric

LEMMA Bounds ==
    ASSUME NEW k \in Integral
    PROVE  /\ Highest[k] \in Nat /\ Lowest(k) \in Int /\ Lowest(k) <= Highest[k]
           /\ Highest[k] \in Numbers /\ Lowest(k) \in Numbers
           /\ Round64[Highest[k]] \in Int /\ Round64[Lowest(k)] = Lowest(k)
<1>1. Highest[k] \in Nat
    BY HighestAssumption
<1>2. Lowest(k) \in Int /\ Lowest(k) <= Highest[k]
    BY <1>1 DEF Lowest
<1>3. Highest[k] \in Numbers /\ Lowest(k) \in Numbers
    BY <1>1, <1>2, NumbersAssumption
<1> QED
    BY <1>1, <1>2, <1>3, NumbersAssumption

(* What is taken is the value, or for a number what Kept says; and it      *)
(* belongs to the type, or nearly does.                                    *)
LEMMA TakenIsKept ==
    ASSUME NEW t, NEW v, ValueTyped(v), NEW o \in tryConvertFieldValue(t, v),
           o # Left, o # Fails
    PROVE  o = Took(o.holds) /\ Kept(t.kind, v, o.holds)
<1> DEFINE n == v.holds
<1>1. CASE v.type = Type("float64") /\ o \in tryConvertFloat64(t, n)
    <2>1. n \notin NotFinite => Numeric(v)
        BY <1>1 DEF Numeric
    <2>2. CASE n \in NotFinite
        <3>1. o = Took(n)
            BY <1>1, <2>2 DEF tryConvertFloat64
        <3> QED
            BY <2>2, <3>1, OutcomesDiffer DEF Kept, Numeric
    <2>3. CASE n \notin NotFinite /\ t.kind \in Integral /\ InKind(t.kind, n)
        <3>1. o = Took(n)
            BY <1>1, <2>3 DEF tryConvertFloat64, Integral, Signed, Unsigned
        <3> QED
            BY <2>1, <2>3, <3>1, OutcomesDiffer DEF Kept, Integral, Signed, Unsigned
    <2>4. CASE n \notin NotFinite /\ t.kind \in Integral /\ ~ InKind(t.kind, n)
        <3>1. /\ n % 2 = 0
              /\ ~ (n < Round64[Lowest(t.kind)] \/ n > Round64[Highest[t.kind]])
              /\ o \in {Took(m) : m \in NumbersOf(t.kind)}
            BY <1>1, <2>4 DEF tryConvertFloat64, Integral, Signed, Unsigned
        <3>2. /\ n \in Int /\ Highest[t.kind] \in Nat /\ Lowest(t.kind) \in Int
              /\ Round64[Lowest(t.kind)] = Lowest(t.kind) /\ Round64[Highest[t.kind]] \in Int
            BY <2>1, <2>4, NumbersTyped, Bounds
        <3>3. Highest[t.kind] < n /\ n <= Round64[Highest[t.kind]]
            BY <2>4, <3>1, <3>2 DEF InKind
        <3>4. JustAbove(t.kind, v)
            BY <1>1, <3>1, <3>3 DEF JustAbove
        <3> QED
            BY <2>1, <2>4, <3>1, <3>4, OutcomesDiffer DEF Kept, Integral, Signed, Unsigned
    <2>5. CASE n \notin NotFinite /\ t.kind = "float32"
        <3>1. o = Took(Round32[n])
            BY <1>1, <2>5 DEF tryConvertFloat64, Integral, Signed, Unsigned, NotFinite
        <3> QED
            BY <1>1, <2>1, <2>5, <3>1, OutcomesDiffer, TypeKinds DEF Kept, Integral, Signed, Unsigned
    <2>6. CASE n \notin NotFinite /\ t.kind = "float64"
        <3>1. o = Took(n)
            BY <1>1, <2>6 DEF tryConvertFloat64, Integral, Signed, Unsigned
        <3> QED
            BY <1>1, <2>1, <2>6, <3>1, OutcomesDiffer, TypeKinds DEF Kept, Integral, Signed, Unsigned
    <2> QED
        BY <1>1, <2>2, <2>3, <2>4, <2>5, <2>6 DEF tryConvertFloat64
<1>2. CASE v.type = Type("int64") /\ o \in tryConvertInt64(t, n)
    <2>1. Numeric(v) /\ v.type # Type("float64")
        <3>1. NotFinite \cap Numbers = {}
            BY NumbersAssumption DEF NotFinite
        <3> QED
            BY <1>2, <3>1, TypeKinds DEF Numeric, ValueTyped
    <2>2. CASE t.kind \in Integral
        <3>1. o = Took(n)
            BY <1>2, <2>2 DEF tryConvertInt64, Integral, Signed, Unsigned
        <3> QED
            BY <2>1, <2>2, <3>1, OutcomesDiffer DEF Kept, Integral, Signed, Unsigned
    <2>3. CASE t.kind = "float32"
        <3>1. \/ o = Took(n)
              \/ ~ InKind("int64", Round32[n]) /\ o = Took(Round32[n])
            BY <1>2, <2>3 DEF tryConvertInt64, Integral, Signed, Unsigned
        <3> QED
            BY <1>2, <2>1, <2>3, <3>1, OutcomesDiffer DEF Kept, Integral, Signed, Unsigned
    <2>4. CASE t.kind = "float64"
        <3>1. o = Took(Round64[n])
            BY <1>2, <2>4 DEF tryConvertInt64, Integral, Signed, Unsigned
        <3> QED
            BY <1>2, <2>1, <2>4, <3>1, OutcomesDiffer DEF Kept, Integral, Signed, Unsigned
    <2> QED
        BY <1>2, <2>2, <2>3, <2>4 DEF tryConvertInt64
<1>3. CASE ~ Numeric(v) /\ o = Took(n)
    BY <1>3, OutcomesDiffer DEF Kept
<1>4. CASE Numeric(v) /\ o = Took(n) /\ ~ (o \in ByKind(t, v) /\ ~ NewValue(t, v))
    <2>1. t.kind \notin Integral => Kept(t.kind, v, n)
        <3>1. CASE t.kind = "float64" \/ t.kind = "float32"
            <4>1. NewValue(t, v) \/ t.kind = v.type.kind
                BY <1>4, <3>1 DEF tryConvertFieldValue, tryConvertByUnderlyingType, tryConvertPointer
            <4>2. t.kind = v.type.kind
                BY <3>1, <4>1 DEF NewValue
            <4>3. t.kind = "float64" /\ v.type = Type("float64")
                BY <1>4, <3>1, <4>2, TypeKinds DEF Numeric
            <4> QED
                BY <1>4, <4>3, TypeKinds DEF Kept, Integral, Signed, Unsigned
        <3>2. CASE ~ (t.kind = "float64" \/ t.kind = "float32")
            BY <1>4, <3>2 DEF Kept
        <3> QED
            BY <3>1, <3>2
    <2>2. t.kind \in Integral => Kept(t.kind, v, n)
        BY <1>4 DEF Kept, Integral, Signed, Unsigned
    <2> QED
        BY <1>4, <2>1, <2>2, OutcomesDiffer
<1>5. CASE ~ NewValue(t, v) /\ o \in ByKind(t, v)
          /\ v.type # Type("float64") /\ v.type # Type("int64")
    <2>1. o = Took("fits") /\ v.holds = "fits" /\ ~ Numeric(v)
        BY <1>5 DEF ByKind, tryConvertViaJSON, Numeric
    <2> QED
        BY <1>3, <2>1
<1>6. CASE ~ NewValue(t, v) /\ o \in ByKind(t, v)
          /\ (v.type = Type("float64") \/ v.type = Type("int64"))
    BY <1>1, <1>2, <1>6, TypeKinds DEF ByKind
<1> QED
    BY <1>3, <1>4, <1>5, <1>6, OutcomeOf

LEMMA TakenIsRight ==
    ASSUME NEW t, NEW v, ValueTyped(v), NEW o \in tryConvertFieldValue(t, v),
           o # Left, o # Fails
    PROVE  Belongs(t, v) \/ Nearly(t.kind, v)
<1> DEFINE n == v.holds
<1> SUFFICES ASSUME ~ NewValue(t, v) PROVE Belongs(t, v) \/ Nearly(t.kind, v)
    BY DEF Belongs
<1>1. CASE v.type = Type("float64") /\ o \in tryConvertFloat64(t, n)
    <2>1. n \notin NotFinite => Numeric(v)
        BY <1>1 DEF Numeric
    <2>2. CASE t.kind \in Integral /\ InKind(t.kind, n) /\ n \notin NotFinite
        BY <2>1, <2>2 DEF Belongs, Integral, Signed, Unsigned
    <2>3. CASE t.kind \in Integral /\ ~ InKind(t.kind, n) /\ n \notin NotFinite
        <3>1. /\ n % 2 = 0
              /\ ~ (n < Round64[Lowest(t.kind)] \/ n > Round64[Highest[t.kind]])
            BY <1>1, <2>3 DEF tryConvertFloat64, Integral, Signed, Unsigned
        <3>2. /\ n \in Int /\ Highest[t.kind] \in Nat /\ Lowest(t.kind) \in Int
              /\ Round64[Lowest(t.kind)] = Lowest(t.kind) /\ Round64[Highest[t.kind]] \in Int
            BY <2>1, <2>3, NumbersTyped, Bounds
        <3>3. Highest[t.kind] < n /\ n <= Round64[Highest[t.kind]]
            BY <2>3, <3>1, <3>2 DEF InKind
        <3> QED
            BY <1>1, <2>1, <2>3, <3>1, <3>3 DEF Nearly, JustAbove
    <2>4. CASE t.kind \in Integral /\ n \in NotFinite
        BY <1>1, <2>4 DEF tryConvertFloat64, Integral, Signed, Unsigned
    <2>5. CASE t.kind = "float32"
        <3>1. n # NaN => n \notin NotFinite /\ ~ (Magnitude(n) > MaxFloat32)
            BY <1>1, <2>5 DEF tryConvertFloat64, Integral, Signed, Unsigned
        <3>2. n # NaN => n \in Int /\ Magnitude(n) \in Int /\ MaxFloat32 \in Int
            BY <2>1, <3>1, NumbersTyped, NumbersAssumption DEF Magnitude
        <3>3. n # NaN => Numeric(v) /\ Magnitude(n) <= MaxFloat32
            BY <2>1, <3>1, <3>2
        <3> QED
            BY <1>1, <2>5, <3>3 DEF Nearly
    <2>6. CASE t.kind = "float64"
        BY <1>1, <2>6, TypeKinds DEF Belongs, Primitive
    <2> QED
        BY <1>1, <2>2, <2>3, <2>4, <2>5, <2>6 DEF tryConvertFloat64
<1>2. CASE v.type = Type("int64") /\ o \in tryConvertInt64(t, n)
    <2>1. Numeric(v)
        <3>1. NotFinite \cap Numbers = {}
            BY NumbersAssumption DEF NotFinite
        <3> QED
            BY <1>2, <3>1, TypeKinds DEF Numeric, ValueTyped
    <2>2. CASE t.kind \in Integral
        <3>1. InKind(t.kind, n)
            BY <1>2, <2>2 DEF tryConvertInt64, Integral, Signed, Unsigned
        <3> QED
            BY <2>1, <2>2, <3>1 DEF Belongs, Integral, Signed, Unsigned
    <2>3. CASE t.kind = "float32"
        <3>1. Round32[n] = n \/ ~ InKind("int64", Round32[n])
            BY <1>2, <2>3 DEF tryConvertInt64, Integral, Signed, Unsigned
        <3> QED
            BY <1>2, <2>3, <3>1 DEF Nearly
    <2>4. CASE t.kind = "float64"
        BY <1>2, <2>4 DEF Nearly
    <2> QED
        BY <1>2, <2>2, <2>3, <2>4 DEF tryConvertInt64
<1>3. CASE o \in ByKind(t, v) /\ v.type # Type("float64") /\ v.type # Type("int64")
    <2>1. /\ v.type \in {Type("map"), Type("slice")} /\ v.holds = "fits"
          /\ \/ t.kind \in Composite
             \/ t.kind = "pointer" /\ t.elem = "struct"
        BY <1>3 DEF ByKind, tryConvertViaJSON
    <2> QED
        BY <2>1 DEF Belongs, Composite
<1>4. CASE o \in tryConvertByUnderlyingType(t, v) \/ o \in tryConvertPointer(t, v)
    <2>1. v.type.kind \in Primitive \cup Composite \cup {"nil"}
        BY DEF ValueTyped
    <2>2. CASE o \in tryConvertByUnderlyingType(t, v)
        <3>1. v.type.kind # "nil" /\ t.kind \notin Composite /\ t.kind = v.type.kind
            BY <2>2 DEF tryConvertByUnderlyingType
        <3> QED
            BY <2>1, <3>1 DEF Belongs
    <2>3. CASE o \in tryConvertPointer(t, v)
        <3>1. v.type.kind # "nil" /\ t.kind = "pointer" /\ t.elem \notin Composite /\ t.elem = v.type.kind
            BY <2>3 DEF tryConvertPointer
        <3> QED
            BY <2>1, <3>1 DEF Belongs
    <2> QED
        BY <1>4, <2>2, <2>3
<1>5. \/ o \in ByKind(t, v)
      \/ o \in tryConvertByUnderlyingType(t, v) \/ o \in tryConvertPointer(t, v)
    BY DEF tryConvertFieldValue
<1>6. CASE o \in ByKind(t, v) /\ (v.type = Type("float64") \/ v.type = Type("int64"))
    BY <1>1, <1>2, <1>6, TypeKinds DEF ByKind
<1> QED
    BY <1>3, <1>4, <1>5, <1>6

LEMMA FailsAlone ==
    ASSUME NEW t, NEW v, Fails \in tryConvertFieldValue(t, v)
    PROVE  tryConvertFieldValue(t, v) = {Fails}
<1>1. ~ NewValue(t, v) /\ t.kind # "interface" /\ Fails \in ByKind(t, v)
    BY OutcomesDiffer, OutcomeOf DEF tryConvertFieldValue
<1>2. Fails \notin tryConvertFloat64(t, v.holds) /\ Fails \notin tryConvertInt64(t, v.holds)
    BY OutcomesDiffer DEF tryConvertFloat64, tryConvertInt64
<1>3. ByKind(t, v) = {Fails}
    BY <1>1, <1>2, OutcomesDiffer DEF ByKind, tryConvertViaJSON
<1> QED
    BY <1>1, <1>3, OutcomesDiffer DEF tryConvertFieldValue

(* What belongs to a type is taken.                                        *)
LEMMA BelongsIsTaken ==
    ASSUME NEW t, NEW v, ValueTyped(v), Belongs(t, v)
    PROVE  /\ Left \notin tryConvertFieldValue(t, v)
           /\ \E o \in tryConvertFieldValue(t, v) : o # Left /\ o # Fails
<1> DEFINE n == v.holds
           O == tryConvertFieldValue(t, v)
<1>1. SUFFICES ASSUME ~ NewValue(t, v) PROVE \E h : O = {Took(h)}
    <2>1. NewValue(t, v) => O = {Took(v.holds)}
        BY DEF tryConvertFieldValue
    <2> QED
        BY <1>1, <2>1, OutcomesDiffer
<1>2. CASE v.type.kind \in Primitive /\ t.kind = v.type.kind
    <2>1. t.kind # "interface" /\ t.kind # "nil" /\ t.kind \notin Composite \cup {"pointer"}
        BY <1>2 DEF Primitive, Composite, Integral, Signed, Unsigned
    <2>2. ByKind(t, v) \in {{Left}, {Took(n)}}
        <3>1. CASE v.type = Type("float64")
            BY <1>2, <3>1, TypeKinds DEF ByKind, tryConvertFloat64, Integral, Signed, Unsigned
        <3>2. CASE v.type = Type("int64")
            <4>1. t.kind = "int64" /\ InKind("int64", n)
                BY <1>2, <3>2, TypeKinds DEF ValueTyped
            <4> QED
                BY <3>2, <4>1, TypeKinds DEF ByKind, tryConvertInt64, Integral, Signed
        <3>3. CASE v.type # Type("float64") /\ v.type # Type("int64")
            <4>1. v.type # Type("map") /\ v.type # Type("slice")
                BY <1>2, TypeKinds DEF Primitive, Integral, Signed, Unsigned
            <4> QED
                BY <3>3, <4>1 DEF ByKind
        <3> QED
            BY <3>1, <3>2, <3>3
    <2>3. tryConvertByUnderlyingType(t, v) = {Took(n)}
        BY <1>2, <2>1 DEF tryConvertByUnderlyingType
    <2> QED
        BY <1>1, <2>1, <2>2, <2>3, OutcomesDiffer DEF tryConvertFieldValue
<1>4. CASE v.type.kind \in Primitive /\ t.kind = "pointer" /\ t.elem = v.type.kind
    <2>1. v.type.kind # "nil" /\ t.elem \notin Composite
        BY <1>4 DEF Primitive, Composite, Integral, Signed, Unsigned
    <2>2. ByKind(t, v) = {Left}
        <3>1. v.type # Type("map") /\ v.type # Type("slice")
            BY <1>4, TypeKinds DEF Primitive, Integral, Signed, Unsigned
        <3> QED
            BY <1>4, <3>1 DEF ByKind, tryConvertFloat64, tryConvertInt64, Integral, Signed, Unsigned
    <2>3. tryConvertByUnderlyingType(t, v) = {Left} /\ tryConvertPointer(t, v) = {Took(n)}
        BY <1>4, <2>1 DEF tryConvertByUnderlyingType, tryConvertPointer
    <2> QED
        BY <1>1, <1>4, <2>2, <2>3, OutcomesDiffer DEF tryConvertFieldValue
<1>5. CASE /\ v.type \in {Type("map"), Type("slice")} /\ v.holds = "fits"
           /\ \/ t.kind \in {"struct", "map", "slice", "bytes"}
              \/ t.kind = "pointer" /\ t.elem = "struct"
    <2>1. ByKind(t, v) = {Took("fits")}
        BY <1>5, TypeKinds DEF ByKind, tryConvertViaJSON, Composite
    <2>2. t.kind # "interface"
        BY <1>5
    <2> QED
        BY <1>1, <2>1, <2>2, OutcomesDiffer DEF tryConvertFieldValue
<1>3. CASE /\ Numeric(v)
           /\ CASE t.kind \in Integral -> InKind(t.kind, n)
                [] t.kind = "float64" -> Round64[n] = n
                [] t.kind = "float32" -> Round32[n] = n /\ Magnitude(n) <= MaxFloat32
                [] OTHER -> FALSE
    <2>1. /\ \/ t.kind \in Integral /\ InKind(t.kind, n)
             \/ t.kind = "float64" /\ Round64[n] = n
             \/ t.kind = "float32" /\ Round32[n] = n /\ Magnitude(n) <= MaxFloat32
          /\ t.kind # "interface"
        BY <1>3 DEF Integral, Signed, Unsigned
    <2>2. /\ n \in Int /\ n \in Numbers /\ n \notin NotFinite
          /\ \/ v.type = Type("float64") /\ Round64[n] = n
             \/ v.type = Type("int64") /\ InKind("int64", n)
        BY <1>3, NumbersTyped
    <2>3. SUFFICES \E h : ByKind(t, v) = {Took(h)}
        BY <1>1, <2>1, <2>3, OutcomesDiffer DEF tryConvertFieldValue
    <2>4. CASE v.type = Type("float64")
        <3>1. ByKind(t, v) = tryConvertFloat64(t, n)
            BY <2>4, TypeKinds DEF ByKind
        <3>2. CASE t.kind \in Integral
            <4>1. InKind(t.kind, n)
                BY <2>1, <3>2 DEF Integral, Signed, Unsigned
            <4>2. ~ (n < Round64[Lowest(t.kind)] \/ n > Round64[Highest[t.kind]])
                <5>1. Round64[Lowest(t.kind)] = Lowest(t.kind) /\ Lowest(t.kind) \in Int /\ Lowest(t.kind) <= n
                    BY <3>2, <4>1, Bounds DEF InKind
                <5>2. Round64[n] <= Round64[Highest[t.kind]] /\ Round64[Highest[t.kind]] \in Int
                    BY <2>2, <3>2, <4>1, Bounds, NumbersAssumption DEF InKind
                <5>3. Round64[n] = n
                    BY <2>2, <2>4, TypeKinds
                <5> QED
                    BY <2>2, <5>1, <5>2, <5>3
            <4>3. n % 2 = 0
                BY <4>1 DEF InKind
            <4>4. tryConvertFloat64(t, n) = {Took(n)}
                BY <2>2, <3>2, <4>1, <4>2, <4>3 DEF tryConvertFloat64, Integral, Signed, Unsigned
            <4> QED
                BY <3>1, <4>4
        <3>3. CASE t.kind = "float64"
            <4>1. tryConvertFloat64(t, n) = {Took(n)}
                BY <3>3 DEF tryConvertFloat64, Integral, Signed, Unsigned
            <4> QED
                BY <3>1, <4>1
        <3>4. CASE t.kind = "float32"
            <4>1. ~ (Magnitude(n) > MaxFloat32)
                BY <2>1, <2>2, <3>4, NumbersAssumption DEF Magnitude, Integral, Signed, Unsigned
            <4>2. n # NaN
                BY <2>2 DEF NotFinite
            <4>3. tryConvertFloat64(t, n) = {Took(Round32[n])}
                BY <2>2, <3>4, <4>1, <4>2 DEF tryConvertFloat64, Integral, Signed, Unsigned
            <4> QED
                BY <3>1, <4>3
        <3> QED
            BY <2>1, <3>2, <3>3, <3>4
    <2>5. CASE v.type = Type("int64")
        <3>1. ByKind(t, v) = tryConvertInt64(t, n)
            BY <2>5, TypeKinds DEF ByKind
        <3>2. CASE t.kind \in Integral
            BY <2>1, <3>1, <3>2 DEF tryConvertInt64, Integral, Signed, Unsigned
        <3>3. CASE t.kind = "float64"
            BY <3>1, <3>3 DEF tryConvertInt64, Integral, Signed, Unsigned
        <3>4. CASE t.kind = "float32"
            <4>1. Round32[n] = n
                BY <2>1, <3>4 DEF Integral, Signed, Unsigned
            <4>2. InKind("int64", Round32[n])
                BY <2>2, <2>5, <4>1, TypeKinds
            <4> QED
                BY <3>1, <3>4, <4>1, <4>2 DEF tryConvertInt64, Integral, Signed, Unsigned
        <3> QED
            BY <2>1, <3>2, <3>3, <3>4
    <2> QED
        BY <2>2, <2>4, <2>5
<1> QED
    BY <1>1, <1>2, <1>3, <1>4, <1>5 DEF Belongs

-----------------------------------------------------------------------------
(* The invariant                                                           *)

(* s is a sequence, of whatever it holds.                                  *)
IsSeq(s) == s \in Seq({s[i] : i \in DOMAIN s})

IsFrame(f) ==
    f = [node |-> f.node, def |-> f.def, todo |-> f.todo, fields |-> f.fields,
         unknownFields |-> f.unknownFields, causes |-> f.causes]

(* Why a field of a node is unknown.                                       *)
MayBeUnknown(n, name) ==
    \/ isRedacted(data(n).fields[name])
    \/ /\ ~ request.strictMode
       /\ \A k \in KeysFor(n, name) :
              Left \in tryConvertFieldValue(k.type, data(n).fields[name])

(* The fields read so far, those of the names: each under one key that may *)
(* decide over it and takes its value, or unknown.                         *)
ReadInto(fields, unknownFields, n, names) ==
    /\ {k.name : k \in DOMAIN fields} \cup DOMAIN unknownFields = names
    /\ \A k \in DOMAIN fields :
           /\ k.name \notin DOMAIN unknownFields
           /\ k \in DecidingKeys(n, k.name) /\ ~ isRedacted(data(n).fields[k.name])
           /\ fields[k] \in {o.holds : o \in
                  tryConvertFieldValue(k.type, data(n).fields[k.name]) \ {Left, Fails}}
    /\ \A j, k \in DOMAIN fields : j.name = k.name => j = k
    /\ \A name \in DOMAIN unknownFields :
           unknownFields[name] = Shown(data(n).fields[name]) /\ MayBeUnknown(n, name)

(* A node is read without a definition only after a failure.               *)
Failed(n) == ~ Resolves(n) \/ Refusing(n)

FrameOK(f) ==
    /\ IsFrame(f)
    /\ f.node \in Nodes
    /\ f.todo \subseteq DOMAIN data(f.node).fields
    /\ IF f.def = None THEN f.todo = {} /\ Failed(f.node)
       ELSE /\ f.def = resolveKind(data(f.node).kind)
            /\ ReadInto(f.fields, f.unknownFields, f.node, DOMAIN data(f.node).fields \ f.todo)
    /\ f.causes \in Seq(Nodes) /\ Len(f.causes) <= Len(data(f.node).causes)
    /\ \A i \in DOMAIN f.causes : f.causes[i] = data(f.node).causes[i]
    /\ \A i \in DOMAIN f.causes : f.causes[i] \in DOMAIN built

(* The call of a frame has come to the cause n.                            *)
Awaits(f, n) ==
    /\ f.todo = {}
    /\ Len(f.causes) < Len(data(f.node).causes)
    /\ n = data(f.node).causes[Len(f.causes) + 1]

StackInv ==
    /\ IsSeq(stack)
    /\ stack # <<>> => stack[1].node = 1
    /\ \A i \in DOMAIN stack : FrameOK(stack[i])
    /\ \A i \in DOMAIN stack : i + 1 \in DOMAIN stack => Awaits(stack[i], stack[i + 1].node)

(* What an answer for a node says of it.                                   *)
Explained(n, err) ==
    \/ err = "none" /\ n \in DOMAIN built
    \/ err = "ErrInternal" /\ \E m \in Nodes : Failing(m)
    \/ err = "ErrUnknownKind" /\ ~ Resolves(n)
    \/ err = "ErrUnknownField" /\ Refusing(n)
    \/ err = "ErrDecodeFailure" /\ ~ request.decodes

AnswerInv ==
    answer # None =>
        /\ answer = Error(answer.node, answer.err) /\ answer.node \in Nodes
        /\ IF stack = <<>> THEN answer.node = 1 ELSE Awaits(frame, answer.node)
        /\ Explained(answer.node, answer.err)
        /\ answer.err = "ErrDecodeFailure" => stack = <<>>

BuiltOK(n, e) ==
    IF e.is = "defined"
    THEN /\ e.def # None /\ e.def = resolveKind(data(n).kind)
         /\ ReadInto(e.fields, e.unknownFields, n, DOMAIN data(n).fields)
         /\ e.causes = data(n).causes
    ELSE /\ Failed(n)
         /\ IF data(n).causes = <<>> THEN e = External(n)
            ELSE e.is = "unknown" /\ e.causes = data(n).causes

BuiltInv ==
    /\ DOMAIN built \subseteq Nodes
    /\ \A n \in DOMAIN built : BuiltOK(n, built[n])
    /\ \A n \in DOMAIN built : \A i \in DOMAIN data(n).causes : data(n).causes[i] \in DOMAIN built

UnmarshalInv == request \in Requests /\ StackInv /\ AnswerInv /\ BuiltInv

-----------------------------------------------------------------------------
(* Sequences                                                               *)

LEMMA Appended ==
    ASSUME NEW s, IsSeq(s), NEW r
    PROVE  /\ IsSeq(Append(s, r))
           /\ Len(s) \in Nat /\ DOMAIN s = 1 .. Len(s) /\ Len(Append(s, r)) = Len(s) + 1
           /\ DOMAIN Append(s, r) = 1 .. Len(s) + 1
           /\ \A i \in DOMAIN s : Append(s, r)[i] = s[i]
           /\ Append(s, r)[Len(s) + 1] = r
<1> DEFINE R == {s[i] : i \in DOMAIN s} \cup {r}
           v == Append(s, r)
<1>1. s \in Seq(R) /\ r \in R
    BY SeqMonotonic DEF IsSeq
<1> HIDE DEF R
<1>2. /\ v \in Seq(R) /\ Len(v) = Len(s) + 1 /\ Len(s) \in Nat /\ DOMAIN s = 1 .. Len(s)
      /\ \A i \in 1 .. Len(s) : v[i] = s[i]
      /\ v[Len(s) + 1] = r
    BY <1>1, AppendProperties, LenProperties
<1> HIDE DEF v
<1>3. DOMAIN v = 1 .. Len(s) + 1
    BY <1>2
<1>4. IsSeq(v)
    BY <1>2 DEF IsSeq
<1> QED
    BY <1>2, <1>3, <1>4 DEF v

LEMMA CutOff ==
    ASSUME NEW s, IsSeq(s), s # <<>>
    PROVE  LET v == SubSeq(s, 1, Len(s) - 1)
           IN /\ IsSeq(v)
              /\ Len(s) \in Nat \ {0} /\ DOMAIN s = 1 .. Len(s) /\ Len(v) = Len(s) - 1
              /\ DOMAIN v = 1 .. Len(s) - 1
              /\ \A i \in DOMAIN v : v[i] = s[i]
              /\ v = <<>> <=> Len(s) = 1
<1> DEFINE R == {s[i] : i \in DOMAIN s}
           v == SubSeq(s, 1, Len(s) - 1)
<1>1. s \in Seq(R)
    BY DEF IsSeq
<1> HIDE DEF R
<1>2. Len(s) \in Nat \ {0} /\ DOMAIN s = 1 .. Len(s)
    BY <1>1
<1>3. /\ v \in Seq(R) /\ Len(v) = Len(s) - 1 /\ DOMAIN v = 1 .. Len(s) - 1
      /\ \A i \in 1 .. Len(s) - 1 : v[i] = s[i]
    BY <1>1, <1>2, SubSeqProperties
<1> HIDE DEF v
<1>4. IsSeq(v)
    <2>1. PICK Q : Q = {v[i] : i \in DOMAIN v}
        OBVIOUS
    <2>2. \A i \in 1 .. Len(v) : v[i] \in Q
        BY <1>3, <2>1
    <2>3. v \in Seq(Q)
        BY <1>3, <2>2, LenProperties
    <2> QED
        BY <2>1, <2>3 DEF IsSeq
<1>5. v = <<>> <=> Len(s) = 1
    BY <1>2, <1>3
<1> QED
    BY <1>2, <1>3, <1>4, <1>5 DEF v

(* The last of a sequence replaced.                                        *)
LEMMA LastReplaced ==
    ASSUME NEW s, IsSeq(s), s # <<>>, NEW r
    PROVE  LET v == Append(SubSeq(s, 1, Len(s) - 1), r)
           IN /\ IsSeq(v)
              /\ Len(s) \in Nat \ {0} /\ DOMAIN s = 1 .. Len(s) /\ Len(v) = Len(s)
              /\ DOMAIN v = DOMAIN s
              /\ \A i \in DOMAIN s : i # Len(s) => v[i] = s[i]
              /\ v[Len(s)] = r
<1>1. PICK c : c = SubSeq(s, 1, Len(s) - 1)
    OBVIOUS
<1>2. /\ IsSeq(c)
      /\ Len(s) \in Nat \ {0} /\ DOMAIN s = 1 .. Len(s) /\ Len(c) = Len(s) - 1
      /\ DOMAIN c = 1 .. Len(s) - 1
      /\ \A i \in DOMAIN c : c[i] = s[i]
    BY <1>1, CutOff
<1>3. PICK v : v = Append(c, r)
    OBVIOUS
<1>4. /\ IsSeq(v)
      /\ Len(v) = Len(c) + 1 /\ DOMAIN v = 1 .. Len(c) + 1
      /\ \A i \in DOMAIN c : v[i] = c[i]
      /\ v[Len(c) + 1] = r
    <2>1. IsSeq(c)
        BY <1>2
    <2> QED
        BY <1>3, <2>1, Appended
<1>5. Len(v) = Len(s) /\ Len(c) + 1 = Len(s)
    BY <1>2, <1>4
<1>6. \A i \in DOMAIN s : i # Len(s) => v[i] = s[i]
    BY <1>2, <1>4
<1> QED
    BY <1>1, <1>2, <1>3, <1>4, <1>5, <1>6

-----------------------------------------------------------------------------
(* What the request determines, and what is built, stays                   *)

LEMMA RequestKept ==
    ASSUME request' = request
    PROVE  /\ Nodes' = Nodes /\ \A n : data(n)' = data(n)
           /\ \A k : resolveKind(k)' = resolveKind(k)
           /\ \A n : External(n)' = External(n)
           /\ \A n : Resolves(n)' <=> Resolves(n)
           /\ \A n : Failing(n)' <=> Failing(n)
           /\ \A n : Refusing(n)' <=> Refusing(n)
           /\ \A f, n : Awaits(f, n)' <=> Awaits(f, n)
           /\ \A f, u, n, s : ReadInto(f, u, n, s)' <=> ReadInto(f, u, n, s)
           /\ \A n, e : BuiltOK(n, e)' <=> BuiltOK(n, e)
<1>1. /\ Nodes' = Nodes /\ \A n : data(n)' = data(n)
      /\ \A k : ResolveKind(k)' = ResolveKind(k)
      /\ \A n : msg(n)' = msg(n) /\ typeName(n)' = typeName(n)
    BY DEF Nodes, data, ResolveKind, msg, typeName
<1>2. \A k : resolveKind(k)' = resolveKind(k)
    BY <1>1 DEF resolveKind
<1>3. \A n : External(n)' = External(n)
    BY <1>1 DEF External
<1>4. \A n, name : KeysFor(n, name)' = KeysFor(n, name)
    BY <1>1, <1>2 DEF KeysFor, FindKeys, Custom
<1>5. \A n : Resolves(n)' <=> Resolves(n)
    BY <1>1, <1>2 DEF Resolves
<1>14. \A k, n, name : OutcomesFor(k, n, name)' = OutcomesFor(k, n, name)
    BY <1>1 DEF OutcomesFor
<1>15. \A n, name : DecidingKeys(n, name)' = DecidingKeys(n, name)
    BY <1>1, <1>2, <1>14 DEF DecidingKeys, FindKeys
<1>6. \A n, name : MayFail(n, name)' <=> MayFail(n, name)
    BY <1>1, <1>14, <1>15 DEF MayFail
<1>7. \A n, name : Refused(n, name)' <=> Refused(n, name)
    BY <1>1, <1>4, <1>14 DEF Refused
<1>8. \A n : Failing(n)' <=> Failing(n)
    BY <1>1, <1>5, <1>6 DEF Failing
<1>9. \A n : Refusing(n)' <=> Refusing(n)
    BY <1>1, <1>5, <1>7 DEF Refusing
<1>10. \A f, n : Awaits(f, n)' <=> Awaits(f, n)
    BY <1>1 DEF Awaits
<1>11. \A n, name : MayBeUnknown(n, name)' <=> MayBeUnknown(n, name)
    BY <1>1, <1>4 DEF MayBeUnknown
<1>12. \A f, u, n, s : ReadInto(f, u, n, s)' <=> ReadInto(f, u, n, s)
    BY <1>1, <1>11, <1>15 DEF ReadInto
<1>13. \A n, e : BuiltOK(n, e)' <=> BuiltOK(n, e)
    BY <1>1, <1>2, <1>3, <1>5, <1>9, <1>12 DEF BuiltOK, Failed
<1> QED
    BY <1>1, <1>2, <1>3, <1>5, <1>8, <1>9, <1>10, <1>12, <1>13

LEMMA FrameKept ==
    ASSUME request' = request, DOMAIN built \subseteq DOMAIN built', NEW f, FrameOK(f)
    PROVE  FrameOK(f)'
<1>1. /\ Nodes' = Nodes /\ \A n : data(n)' = data(n)
      /\ \A k : resolveKind(k)' = resolveKind(k)
      /\ \A n : Failed(n)' <=> Failed(n)
      /\ \A g, u, n, s : ReadInto(g, u, n, s)' <=> ReadInto(g, u, n, s)
    BY RequestKept DEF Failed
<1> QED
    BY <1>1 DEF FrameOK

LEMMA BuiltKept ==
    ASSUME BuiltInv, request' = request, built' = built
    PROVE  BuiltInv'
BY RequestKept DEF BuiltInv

(* The data of a request.                                                  *)
LEMMA DataTyped ==
    ASSUME request \in Requests, NEW n \in Nodes
    PROVE  /\ Nodes = 1 .. Len(request.data) /\ Len(request.data) \in Nat \ {0} /\ 1 \in Nodes
           /\ data(n).causes \in Seq(Nodes) /\ Len(data(n).causes) \in Nat
           /\ DOMAIN data(n).causes = 1 .. Len(data(n).causes)
           /\ \A i \in DOMAIN data(n).causes : data(n).causes[i] \in Nodes /\ data(n).causes[i] > n
           /\ IsFiniteSet(DOMAIN data(n).fields)
           /\ \A name \in DOMAIN data(n).fields : ValueTyped(data(n).fields[name])
<1>1. Tree(request.data)
    BY RequestsAssumption
<1>2. Nodes = 1 .. Len(request.data) /\ Len(request.data) \in Nat \ {0}
    BY <1>1 DEF Tree, Nodes
<1>3. data(n).causes \in Seq(n + 1 .. Len(request.data)) /\ n \in Nat \ {0}
    <2>1. \A m \in DOMAIN request.data : request.data[m].causes \in Seq(m + 1 .. Len(request.data))
        BY <1>1 DEF Tree
    <2> QED
        BY <1>2, <2>1 DEF Nodes, data
<1>4. n + 1 .. Len(request.data) \subseteq Nodes /\ \A m \in n + 1 .. Len(request.data) : m > n
    BY <1>2, <1>3
<1>5. data(n).causes \in Seq(Nodes)
    BY <1>3, <1>4, SeqMonotonic
<1>6. /\ Len(data(n).causes) \in Nat
      /\ DOMAIN data(n).causes = 1 .. Len(data(n).causes)
      /\ \A i \in DOMAIN data(n).causes : data(n).causes[i] \in n + 1 .. Len(request.data)
    BY <1>3
<1>7. /\ IsFiniteSet(DOMAIN data(n).fields)
      /\ \A name \in DOMAIN data(n).fields : ValueTyped(data(n).fields[name])
    BY RequestsAssumption DEF Nodes, data
<1> QED
    BY <1>2, <1>4, <1>5, <1>6, <1>7

-----------------------------------------------------------------------------
(* The stack                                                               *)

(* A key that may decide is one for the field.                             *)
LEMMA DecidingIsFor ==
    ASSUME NEW n, NEW name
    PROVE  DecidingKeys(n, name) \subseteq KeysFor(n, name)
BY DEF DecidingKeys, KeysFor, Custom

LEMMA TopFrame ==
    ASSUME StackInv, stack # <<>>
    PROVE  /\ Len(stack) \in DOMAIN stack /\ Len(stack) \in Nat \ {0} /\ DOMAIN stack = 1 .. Len(stack)
           /\ frame = stack[Len(stack)] /\ FrameOK(frame) /\ IsFrame(frame)
           /\ frame.node \in Nodes
<1>1. Len(stack) \in DOMAIN stack /\ Len(stack) \in Nat \ {0} /\ DOMAIN stack = 1 .. Len(stack)
    BY CutOff DEF StackInv
<1>2. frame = stack[Len(stack)] /\ FrameOK(frame)
    BY <1>1 DEF StackInv, frame
<1> QED
    BY <1>1, <1>2 DEF FrameOK

(* A call begins.                                                          *)
LEMMA Pushed ==
    ASSUME StackInv, NEW f, stack' = Append(stack, f), FrameOK(f)',
           request' = request, DOMAIN built \subseteq DOMAIN built',
           IF stack = <<>> THEN f.node = 1 ELSE Awaits(frame, f.node)
    PROVE  StackInv' /\ stack' # <<>> /\ frame' = f
<1>1. /\ IsSeq(stack')
      /\ Len(stack) \in Nat /\ DOMAIN stack = 1 .. Len(stack) /\ Len(stack') = Len(stack) + 1
      /\ DOMAIN stack' = 1 .. Len(stack) + 1
      /\ \A i \in DOMAIN stack : stack'[i] = stack[i]
      /\ stack'[Len(stack) + 1] = f
    BY Appended DEF StackInv
<1>2. \A i \in DOMAIN stack' : FrameOK(stack[i])'
    <2> SUFFICES ASSUME NEW i \in DOMAIN stack' PROVE FrameOK(stack[i])'
        OBVIOUS
    <2>1. CASE i \in DOMAIN stack
        <3>1. PICK g : g = stack[i]
            OBVIOUS
        <3>2. FrameOK(g)
            BY <2>1, <3>1 DEF StackInv
        <3>3. FrameOK(g)' /\ stack'[i] = g
            BY <1>1, <2>1, <3>1, <3>2, FrameKept
        <3> QED
            BY <3>3
    <2>2. CASE i = Len(stack) + 1
        BY <1>1, <2>2
    <2> QED
        BY <1>1, <2>1, <2>2
<1>3. stack'[1].node = 1
    BY <1>1 DEF StackInv
<1>4. \A i \in DOMAIN stack' : i + 1 \in DOMAIN stack' => Awaits(stack[i], stack[i + 1].node)'
    <2> SUFFICES ASSUME NEW i \in DOMAIN stack', i + 1 \in DOMAIN stack'
                 PROVE  Awaits(stack[i], stack[i + 1].node)'
        OBVIOUS
    <2>1. PICK g, h : g = stack[i] /\ h = stack'[i + 1]
        OBVIOUS
    <2>2. i \in DOMAIN stack /\ stack'[i] = g /\ i \in Nat
        BY <1>1, <2>1
    <2>3. Awaits(g, h.node)
        <3>1. CASE i + 1 \in DOMAIN stack
            BY <1>1, <2>1, <2>2, <3>1 DEF StackInv
        <3>2. CASE i = Len(stack)
            <4>1. stack # <<>> /\ g = frame /\ h = f
                BY <1>1, <2>1, <2>2, <3>2 DEF frame
            <4> QED
                BY <4>1
        <3> QED
            BY <1>1, <2>2, <3>1, <3>2
    <2>4. Awaits(g, h.node)'
        BY <2>3, RequestKept
    <2> QED
        BY <2>1, <2>2, <2>4
<1>5. stack' # <<>> /\ frame' = f
    BY <1>1 DEF frame
<1> QED
    BY <1>1, <1>2, <1>3, <1>4, <1>5 DEF StackInv

(* A call returns.                                                         *)
LEMMA Popped ==
    ASSUME StackInv, stack # <<>>, stack' = callers,
           request' = request, DOMAIN built \subseteq DOMAIN built'
    PROVE  /\ StackInv'
           /\ IF stack' = <<>> THEN frame.node = 1 ELSE Awaits(frame', frame.node)
<1>1. /\ IsSeq(stack')
      /\ Len(stack) \in Nat \ {0} /\ DOMAIN stack = 1 .. Len(stack) /\ Len(stack') = Len(stack) - 1
      /\ DOMAIN stack' = 1 .. Len(stack) - 1
      /\ \A i \in DOMAIN stack' : stack'[i] = stack[i]
      /\ stack' = <<>> <=> Len(stack) = 1
    BY CutOff DEF StackInv, callers
<1>2. \A i \in DOMAIN stack' : FrameOK(stack[i])'
    <2> SUFFICES ASSUME NEW i \in DOMAIN stack' PROVE FrameOK(stack[i])'
        OBVIOUS
    <2>1. PICK g : g = stack[i]
        OBVIOUS
    <2>2. FrameOK(g)
        BY <1>1, <2>1 DEF StackInv
    <2>3. FrameOK(g)' /\ stack'[i] = g
        BY <1>1, <2>1, <2>2, FrameKept
    <2> QED
        BY <2>3
<1>3. stack' # <<>> => stack'[1].node = 1
    <2>1. stack' # <<>> => 1 \in DOMAIN stack'
        BY <1>1
    <2> QED
        BY <1>1, <2>1 DEF StackInv
<1>4. \A i \in DOMAIN stack' : i + 1 \in DOMAIN stack' => Awaits(stack[i], stack[i + 1].node)'
    <2> SUFFICES ASSUME NEW i \in DOMAIN stack', i + 1 \in DOMAIN stack'
                 PROVE  Awaits(stack[i], stack[i + 1].node)'
        OBVIOUS
    <2>1. PICK g, h : g = stack[i] /\ h = stack[i + 1]
        OBVIOUS
    <2>2. stack'[i] = g /\ stack'[i + 1] = h /\ Awaits(g, h.node)
        BY <1>1, <2>1 DEF StackInv
    <2>3. Awaits(g, h.node)'
        BY <2>2, RequestKept
    <2> QED
        BY <2>2, <2>3
<1>5. IF stack' = <<>> THEN frame.node = 1 ELSE Awaits(frame', frame.node)
    <2>1. CASE Len(stack) = 1
        BY <1>1, <2>1 DEF StackInv, frame
    <2>2. CASE Len(stack) # 1
        <3>1. /\ Len(stack) - 1 \in DOMAIN stack' /\ Len(stack) - 1 \in DOMAIN stack
              /\ (Len(stack) - 1) + 1 \in DOMAIN stack /\ (Len(stack) - 1) + 1 = Len(stack)
            BY <1>1, <2>2
        <3>2. Awaits(stack[Len(stack) - 1], frame.node)
            BY <3>1 DEF StackInv, frame
        <3>3. frame' = stack[Len(stack) - 1]
            BY <1>1, <3>1 DEF frame
        <3> QED
            BY <1>1, <2>2, <3>2, <3>3
    <2> QED
        BY <2>1, <2>2
<1> QED
    BY <1>1, <1>2, <1>3, <1>4, <1>5 DEF StackInv

(* A call goes on.                                                         *)
LEMMA Replaced ==
    ASSUME StackInv, stack # <<>>, NEW f, stack' = Append(callers, f), f.node = frame.node,
           FrameOK(f)', request' = request, DOMAIN built \subseteq DOMAIN built'
    PROVE  StackInv' /\ stack' # <<>> /\ frame' = f
<1>1. PICK s, v : s = stack /\ v = stack'
    OBVIOUS
<1>2. IsSeq(s) /\ s # <<>> /\ v = Append(SubSeq(s, 1, Len(s) - 1), f)
    BY <1>1 DEF StackInv, callers
<1>3. /\ IsSeq(stack')
      /\ Len(stack) \in Nat \ {0} /\ DOMAIN stack = 1 .. Len(stack)
      /\ Len(stack') = Len(stack) /\ DOMAIN stack' = DOMAIN stack
      /\ \A i \in DOMAIN stack : i # Len(stack) => stack'[i] = stack[i]
      /\ stack'[Len(stack)] = f
    <2>1. /\ IsSeq(v)
          /\ Len(s) \in Nat \ {0} /\ DOMAIN s = 1 .. Len(s) /\ Len(v) = Len(s)
          /\ DOMAIN v = DOMAIN s
          /\ \A i \in DOMAIN s : i # Len(s) => v[i] = s[i]
          /\ v[Len(s)] = f
        BY <1>2, LastReplaced
    <2> QED
        BY <1>1, <2>1
<1>4. \A i \in DOMAIN stack' : FrameOK(stack[i])'
    <2> SUFFICES ASSUME NEW i \in DOMAIN stack' PROVE FrameOK(stack[i])'
        OBVIOUS
    <2>1. CASE i # Len(stack)
        <3>1. PICK g : g = stack[i]
            OBVIOUS
        <3>2. FrameOK(g)
            BY <1>3, <3>1 DEF StackInv
        <3>3. FrameOK(g)' /\ stack'[i] = g
            BY <1>3, <2>1, <3>1, <3>2, FrameKept
        <3> QED
            BY <3>3
    <2>2. CASE i = Len(stack)
        BY <1>3, <2>2
    <2> QED
        BY <2>1, <2>2
<1>5. stack'[1].node = 1
    <2>1. 1 \in DOMAIN stack /\ stack[1].node = 1
        <3>1. PICK N : N = Len(stack)
            OBVIOUS
        <3>2. N \in Nat \ {0} /\ DOMAIN stack = 1 .. N
            BY <1>3, <3>1
        <3> QED
            BY <3>2 DEF StackInv
    <2>2. CASE Len(stack) = 1
        BY <1>3, <2>1, <2>2 DEF frame
    <2>3. CASE Len(stack) # 1
        BY <1>3, <2>1, <2>3
    <2> QED
        BY <2>2, <2>3
<1>6. \A i \in DOMAIN stack' : i + 1 \in DOMAIN stack' => Awaits(stack[i], stack[i + 1].node)'
    <2> SUFFICES ASSUME NEW i \in DOMAIN stack', i + 1 \in DOMAIN stack'
                 PROVE  Awaits(stack[i], stack[i + 1].node)'
        OBVIOUS
    <2>1. PICK g, h : g = stack[i] /\ h = stack[i + 1]
        OBVIOUS
    <2>2. i # Len(stack) /\ stack'[i] = g /\ stack'[i + 1].node = h.node
        <3>1. i # Len(stack) /\ i \in DOMAIN stack /\ i + 1 \in DOMAIN stack
            <4>1. PICK N : N = Len(stack)
                OBVIOUS
            <4>2. N \in Nat /\ DOMAIN stack = 1 .. N /\ DOMAIN stack' = 1 .. N
                BY <1>3, <4>1
            <4>3. i \in 1 .. N /\ i + 1 \in 1 .. N
                BY <4>2
            <4>4. i # N
                BY <4>2, <4>3
            <4> QED
                BY <4>1, <4>2, <4>3, <4>4
        <3>2. stack'[i] = g
            BY <1>3, <2>1, <3>1
        <3>3. CASE i + 1 = Len(stack)
            BY <1>3, <2>1, <3>1, <3>2, <3>3 DEF frame
        <3>4. CASE i + 1 # Len(stack)
            BY <1>3, <2>1, <3>1, <3>2, <3>4
        <3> QED
            BY <3>3, <3>4
    <2>3. Awaits(g, h.node)
        BY <1>3, <2>1 DEF StackInv
    <2>4. Awaits(g, h.node)'
        BY <2>3, RequestKept
    <2> QED
        BY <2>2, <2>4
<1>7. stack' # <<>> /\ frame' = f
    BY <1>3 DEF frame
<1> QED
    BY <1>3, <1>4, <1>5, <1>6, <1>7 DEF StackInv

LEMMA StackKept ==
    ASSUME StackInv, stack' = stack, request' = request, DOMAIN built \subseteq DOMAIN built'
    PROVE  StackInv'
<1>1. \A i \in DOMAIN stack' : FrameOK(stack[i])'
    <2> SUFFICES ASSUME NEW i \in DOMAIN stack' PROVE FrameOK(stack[i])'
        OBVIOUS
    <2>1. PICK g : g = stack[i]
        OBVIOUS
    <2>2. FrameOK(g)
        BY <2>1 DEF StackInv
    <2>3. FrameOK(g)' /\ stack'[i] = g
        BY <2>1, <2>2, FrameKept
    <2> QED
        BY <2>3
<1>2. \A i \in DOMAIN stack' : i + 1 \in DOMAIN stack' => Awaits(stack[i], stack[i + 1].node)'
    <2> SUFFICES ASSUME NEW i \in DOMAIN stack', i + 1 \in DOMAIN stack'
                 PROVE  Awaits(stack[i], stack[i + 1].node)'
        OBVIOUS
    <2>1. PICK g, h : g = stack[i] /\ h = stack[i + 1]
        OBVIOUS
    <2>2. Awaits(g, h.node)
        BY <2>1 DEF StackInv
    <2>3. Awaits(g, h.node)'
        BY <2>2, RequestKept
    <2> QED
        BY <2>1, <2>3
<1>3. IsSeq(stack)' /\ (stack' # <<>> => stack'[1].node = 1)
    BY DEF StackInv, IsSeq
<1> QED
    BY <1>1, <1>2, <1>3 DEF StackInv

LEMMA ExplainedKept ==
    ASSUME request' = request, DOMAIN built \subseteq DOMAIN built', NEW n, NEW err, Explained(n, err)
    PROVE  Explained(n, err)'
BY RequestKept DEF Explained

(* A call returns with an answer for its node.                             *)
LEMMA Returned ==
    ASSUME UnmarshalInv, stack # <<>>, stack' = callers, NEW err, answer' = Error(frame.node, err),
           request' = request, DOMAIN built \subseteq DOMAIN built', BuiltInv',
           \/ Explained(frame.node, err)
           \/ (err = "none" /\ frame.node \in DOMAIN built'),
           err # "ErrDecodeFailure"
    PROVE  UnmarshalInv'
<1>1. frame.node \in Nodes
    BY TopFrame DEF UnmarshalInv
<1>2. StackInv' /\ (IF stack' = <<>> THEN frame.node = 1 ELSE Awaits(frame', frame.node))
    BY Popped DEF UnmarshalInv
<1>3. PICK m, g : m = frame.node /\ g = frame'
    OBVIOUS
<1>4. answer' = Error(m, err) /\ answer'.node = m /\ answer'.err = err /\ m \in Nodes'
    BY <1>1, <1>3, RequestKept DEF Error
<1>5. IF stack' = <<>> THEN m = 1 ELSE Awaits(g, m)'
    BY <1>2, <1>3, RequestKept
<1>6. Explained(m, err)'
    <2>1. Explained(m, err) \/ (err = "none" /\ m \in DOMAIN built')
        BY <1>3
    <2>2. CASE Explained(m, err)
        BY <2>2, ExplainedKept
    <2> QED
        BY <2>1, <2>2 DEF Explained
<1>7. AnswerInv'
    BY <1>3, <1>4, <1>5, <1>6 DEF AnswerInv
<1> QED
    BY <1>2, <1>7 DEF UnmarshalInv

(* A call begins, or is answered at once.                                  *)
LEMMA Entered ==
    ASSUME UnmarshalInv, answer = None, NEW n \in Nodes, Enter(n, stack), request' = request, built' = built,
           IF stack = <<>> THEN n = 1 ELSE Awaits(frame, n)
    PROVE  UnmarshalInv'
<1> DEFINE def == resolveKind(data(n).kind)
<1>1. BuiltInv' /\ request' \in Requests /\ DOMAIN built \subseteq DOMAIN built'
    BY BuiltKept DEF UnmarshalInv
<1>2. CASE def = None
    <2>1. stack' = stack /\ answer' = Error(n, "ErrUnknownKind")
        BY <1>2 DEF Enter
    <2>2. StackInv'
        BY <2>1, StackKept DEF UnmarshalInv
    <2>3. answer'.node = n /\ answer'.err = "ErrUnknownKind" /\ n \in Nodes'
        BY <2>1, RequestKept DEF Error
    <2>4. Explained(n, "ErrUnknownKind")'
        BY <1>2, RequestKept DEF Explained, Resolves
    <2>5. IF stack' = <<>> THEN n = 1 ELSE Awaits(frame, n)'
        <3>1. PICK g : g = frame
            OBVIOUS
        <3>2. frame' = g
            BY <2>1, <3>1 DEF frame
        <3> QED
            BY <2>1, <3>1, <3>2, RequestKept
    <2>6. AnswerInv'
        BY <2>1, <2>3, <2>4, <2>5 DEF AnswerInv
    <2> QED
        BY <1>1, <2>2, <2>6 DEF UnmarshalInv
<1>3. CASE def # None
    <2>1. PICK f : f = Frame(n, def, DOMAIN data(n).fields)
        OBVIOUS
    <2>2. stack' = Append(stack, f) /\ answer' = None
        BY <1>3, <2>1 DEF Enter
    <2>3. IsFrame(f) /\ f.node = n /\ f.def = def /\ f.todo = DOMAIN data(n).fields
          /\ f.fields = <<>> /\ f.unknownFields = <<>> /\ f.causes = <<>>
        BY <2>1 DEF Frame, IsFrame
    <2>4. ReadInto(f.fields, f.unknownFields, n, {})
        BY <2>3 DEF ReadInto
    <2>5. Len(data(n).causes) \in Nat
        BY DataTyped DEF UnmarshalInv
    <2>6. DOMAIN data(n).fields \ f.todo = {}
        BY <2>3
    <2>7. f.causes \in Seq(Nodes) /\ Len(f.causes) <= Len(data(f.node).causes) /\ DOMAIN f.causes = {}
        BY <2>3, <2>5
    <2>8. FrameOK(f)
        BY <1>3, <2>3, <2>4, <2>6, <2>7 DEF FrameOK
    <2>9. FrameOK(f)'
        BY <1>1, <2>8, FrameKept
    <2>10. StackInv'
        BY <1>1, <2>2, <2>3, <2>9, Pushed DEF UnmarshalInv
    <2> QED
        BY <1>1, <2>2, <2>10 DEF UnmarshalInv, AnswerInv
<1> QED
    BY <1>2, <1>3

(* A call goes on with another frame.                                      *)
LEMMA WentOn ==
    ASSUME UnmarshalInv, stack # <<>>, NEW f, stack' = Append(callers, f), f.node = frame.node,
           FrameOK(f), answer' = None, request' = request, built' = built
    PROVE  UnmarshalInv'
<1>1. BuiltInv' /\ request' \in Requests /\ DOMAIN built \subseteq DOMAIN built'
    BY BuiltKept DEF UnmarshalInv
<1>2. FrameOK(f)'
    BY <1>1, FrameKept
<1>3. StackInv'
    BY <1>1, <1>2, Replaced DEF UnmarshalInv
<1> QED
    BY <1>1, <1>3 DEF UnmarshalInv, AnswerInv

-----------------------------------------------------------------------------
(* Reading the fields                                                      *)

FrameOf(n, def, todo, fields, unknownFields, causes) ==
    [node |-> n, def |-> def, todo |-> todo, fields |-> fields,
     unknownFields |-> unknownFields, causes |-> causes]

WithFields(f, x, name) == [[f EXCEPT !.fields = x] EXCEPT !.todo = @ \ {name}]
WithUnknown(f, x, name) == [[f EXCEPT !.unknownFields = x] EXCEPT !.todo = @ \ {name}]
WithCauses(f, x) == [f EXCEPT !.causes = x]

LEMMA FrameUpdates ==
    ASSUME NEW f, IsFrame(f), NEW x, NEW name
    PROVE  /\ WithFields(f, x, name) =
                  FrameOf(f.node, f.def, f.todo \ {name}, x, f.unknownFields, f.causes)
           /\ WithUnknown(f, x, name) =
                  FrameOf(f.node, f.def, f.todo \ {name}, f.fields, x, f.causes)
           /\ WithCauses(f, x) =
                  FrameOf(f.node, f.def, f.todo, f.fields, f.unknownFields, x)
<1>1. PICK a, b, c, d, e, g : /\ a = f.node /\ b = f.def /\ c = f.todo /\ d = f.fields
                              /\ e = f.unknownFields /\ g = f.causes
    OBVIOUS
<1>2. f = FrameOf(a, b, c, d, e, g)
    BY <1>1 DEF IsFrame, FrameOf
<1>3. PICK p, q : p = [f EXCEPT !.fields = x] /\ q = [f EXCEPT !.unknownFields = x]
    OBVIOUS
<1>4. p = FrameOf(a, b, c, x, e, g) /\ q = FrameOf(a, b, c, d, x, g)
    BY <1>2, <1>3 DEF FrameOf
<1>5. /\ [p EXCEPT !.todo = @ \ {name}] = FrameOf(a, b, c \ {name}, x, e, g)
      /\ [q EXCEPT !.todo = @ \ {name}] = FrameOf(a, b, c \ {name}, d, x, g)
    BY <1>4 DEF FrameOf
<1>6. WithCauses(f, x) = FrameOf(a, b, c, d, e, x)
    BY <1>2 DEF FrameOf, WithCauses
<1>7. /\ WithFields(f, x, name) = [p EXCEPT !.todo = @ \ {name}]
      /\ WithUnknown(f, x, name) = [q EXCEPT !.todo = @ \ {name}]
    BY <1>3 DEF WithFields, WithUnknown
<1> QED
    BY <1>1, <1>5, <1>6, <1>7

LEMMA FrameParts ==
    ASSUME NEW a, NEW b, NEW c, NEW d, NEW e, NEW g
    PROVE  LET f == FrameOf(a, b, c, d, e, g)
           IN /\ IsFrame(f) /\ f.node = a /\ f.def = b /\ f.todo = c
              /\ f.fields = d /\ f.unknownFields = e /\ f.causes = g
BY DEF FrameOf, IsFrame

(* One more field is read.                                                 *)
LEMMA ReadKey ==
    ASSUME NEW f, NEW u, NEW n, NEW names, ReadInto(f, u, n, names),
           NEW k, k \in DecidingKeys(n, k.name), k.name \notin names,
           ~ isRedacted(data(n).fields[k.name]),
           NEW o \in tryConvertFieldValue(k.type, data(n).fields[k.name]) \ {Left, Fails}
    PROVE  ReadInto(With(f, k, o.holds), u, n, names \cup {k.name})
<1> DEFINE g == With(f, k, o.holds)
<1>1. DOMAIN g = DOMAIN f \cup {k} /\ g[k] = o.holds /\ \A j \in DOMAIN f : j # k => g[j] = f[j]
    BY DEF With
<1>2. \A j \in DOMAIN f : j.name \in names /\ j # k
    BY DEF ReadInto
<1>3. DOMAIN u \subseteq names
    BY DEF ReadInto
<1> HIDE DEF g
<1>4. {j.name : j \in DOMAIN g} \cup DOMAIN u = names \cup {k.name}
    BY <1>1 DEF ReadInto
<1>5. \A j \in DOMAIN g :
          /\ j.name \notin DOMAIN u
          /\ j \in DecidingKeys(n, j.name) /\ ~ isRedacted(data(n).fields[j.name])
          /\ g[j] \in {p.holds : p \in
                 tryConvertFieldValue(j.type, data(n).fields[j.name]) \ {Left, Fails}}
    BY <1>1, <1>2, <1>3 DEF ReadInto
<1>6. \A i, j \in DOMAIN g : i.name = j.name => i = j
    BY <1>1, <1>2 DEF ReadInto
<1>7. ReadInto(g, u, n, names \cup {k.name})
    BY <1>4, <1>5, <1>6 DEF ReadInto
<1> QED
    BY <1>7 DEF g

LEMMA ReadUnknown ==
    ASSUME NEW f, NEW u, NEW n, NEW names, ReadInto(f, u, n, names),
           NEW name, name \notin names, MayBeUnknown(n, name)
    PROVE  ReadInto(f, With(u, name, Shown(data(n).fields[name])), n, names \cup {name})
<1> DEFINE w == With(u, name, Shown(data(n).fields[name]))
<1>1. /\ DOMAIN w = DOMAIN u \cup {name} /\ w[name] = Shown(data(n).fields[name])
      /\ \A m \in DOMAIN u : m # name => w[m] = u[m]
    BY DEF With
<1>2. \A j \in DOMAIN f : j.name \in names
    BY DEF ReadInto
<1>3. DOMAIN u \subseteq names
    BY DEF ReadInto
<1> HIDE DEF w
<1>4. {j.name : j \in DOMAIN f} \cup DOMAIN w = names \cup {name}
    BY <1>1 DEF ReadInto
<1>5. \A j \in DOMAIN f : j.name \notin DOMAIN w
    BY <1>1, <1>2 DEF ReadInto
<1>6. \A m \in DOMAIN w : w[m] = Shown(data(n).fields[m]) /\ MayBeUnknown(n, m)
    BY <1>1 DEF ReadInto
<1>7. ReadInto(f, w, n, names \cup {name})
    BY <1>4, <1>5, <1>6 DEF ReadInto
<1> QED
    BY <1>7 DEF w

(* The node being read, its definition and the field visited.              *)
LEMMA Visiting ==
    ASSUME UnmarshalInv, NEW name, Visits(name)
    PROVE  /\ answer = None /\ stack # <<>> /\ name \in frame.todo
           /\ FrameOK(frame) /\ IsFrame(frame) /\ frame.node \in Nodes
           /\ frame.def # None /\ frame.def = resolveKind(data(frame.node).kind)
           /\ Resolves(frame.node)
           /\ name \in DOMAIN data(frame.node).fields
           /\ ReadInto(frame.fields, frame.unknownFields, frame.node,
                       DOMAIN data(frame.node).fields \ frame.todo)
           /\ DOMAIN data(frame.node).fields \ (frame.todo \ {name}) =
                  (DOMAIN data(frame.node).fields \ frame.todo) \cup {name}
           /\ \A m : KeysFor(frame.node, m) = FindKeys(frame.def, m) \cup {k \in Custom : k.name = m}
<1>1. answer = None /\ stack # <<>> /\ name \in frame.todo
    BY DEF Visits
<1>2. FrameOK(frame) /\ IsFrame(frame) /\ frame.node \in Nodes
    BY <1>1, TopFrame DEF UnmarshalInv
<1>3. frame.def # None
    BY <1>1, <1>2 DEF FrameOK
<1>4. /\ frame.def = resolveKind(data(frame.node).kind)
      /\ ReadInto(frame.fields, frame.unknownFields, frame.node,
                  DOMAIN data(frame.node).fields \ frame.todo)
      /\ frame.todo \subseteq DOMAIN data(frame.node).fields
    BY <1>2, <1>3 DEF FrameOK
<1>5. name \in DOMAIN data(frame.node).fields
    BY <1>1, <1>4
<1>6. DOMAIN data(frame.node).fields \ (frame.todo \ {name}) =
          (DOMAIN data(frame.node).fields \ frame.todo) \cup {name}
    BY <1>5
<1>7. \A m : KeysFor(frame.node, m) = FindKeys(frame.def, m) \cup {k \in Custom : k.name = m}
    BY <1>4 DEF KeysFor
<1>8. Resolves(frame.node)
    BY <1>3, <1>4 DEF Resolves
<1> QED
    BY <1>1, <1>2, <1>3, <1>4, <1>5, <1>6, <1>7, <1>8

LEMMA FieldSettled ==
    ASSUME UnmarshalInv, NEW name, Visits(name), NEW fields, NEW unknownFields,
           ReadInto(fields, unknownFields, frame.node,
                    (DOMAIN data(frame.node).fields \ frame.todo) \cup {name}),
           stack' = Append(callers, FrameOf(frame.node, frame.def, frame.todo \ {name},
                                            fields, unknownFields, frame.causes)),
           UNCHANGED <<request, answer, built>>
    PROVE  UnmarshalInv'
<1>1. PICK g : g = FrameOf(frame.node, frame.def, frame.todo \ {name}, fields, unknownFields, frame.causes)
    OBVIOUS
<1>2. /\ IsFrame(g) /\ g.node = frame.node /\ g.def = frame.def /\ g.todo = frame.todo \ {name}
      /\ g.fields = fields /\ g.unknownFields = unknownFields /\ g.causes = frame.causes
    BY <1>1, FrameParts
<1>3. /\ answer = None /\ stack # <<>> /\ FrameOK(frame) /\ frame.node \in Nodes
      /\ frame.def # None /\ frame.def = resolveKind(data(frame.node).kind)
      /\ frame.todo \subseteq DOMAIN data(frame.node).fields
      /\ DOMAIN data(frame.node).fields \ (frame.todo \ {name}) =
             (DOMAIN data(frame.node).fields \ frame.todo) \cup {name}
    BY Visiting DEF FrameOK
<1>4. ReadInto(g.fields, g.unknownFields, g.node, DOMAIN data(g.node).fields \ g.todo)
    BY <1>2, <1>3
<1>5. FrameOK(g)
    BY <1>2, <1>3, <1>4 DEF FrameOK
<1> QED
    BY <1>1, <1>2, <1>3, <1>5, WentOn

LEMMA Refusal ==
    ASSUME UnmarshalInv, NEW name, Visits(name), NEW err, Fail(err), Explained(frame.node, err),
           err # "ErrDecodeFailure"
    PROVE  UnmarshalInv'
<1>1. BuiltInv' /\ DOMAIN built \subseteq DOMAIN built' /\ request' = request
    BY BuiltKept DEF Fail, UnmarshalInv
<1>2. stack # <<>> /\ stack' = callers /\ answer' = Error(frame.node, err)
    BY DEF Fail, Visits
<1> QED
    BY <1>1, <1>2, Returned

LEMMA Converting ==
    ASSUME UnmarshalInv, NEW name, Visits(name), ~ isRedacted(value(name)),
           NEW k \in DecidingKeys(frame.node, name), k.name = name, ConvertTo(k, name)
    PROVE  UnmarshalInv'
<1>1. PICK o \in Outcomes(k, name) \ {Left} :
          IF o = Fails THEN Fail("ErrInternal")
          ELSE Settle(name, [frame EXCEPT !.fields = With(@, k, o.holds)])
    BY DEF ConvertTo
<1>2. o \in tryConvertFieldValue(k.type, data(frame.node).fields[k.name])
    BY <1>1 DEF Outcomes, value
<1>3. CASE o = Fails
    <2>1. Fail("ErrInternal")
        BY <1>1, <1>3
    <2>2. MayFail(frame.node, name)
        BY <1>2, <1>3 DEF MayFail, OutcomesFor, value
    <2>3. Failing(frame.node) /\ frame.node \in Nodes
        BY <2>2, Visiting DEF Failing
    <2>4. Explained(frame.node, "ErrInternal")
        BY <2>3 DEF Explained
    <2> QED
        BY <2>1, <2>4, Refusal
<1>4. CASE o # Fails
    <2>1. Settle(name, [frame EXCEPT !.fields = With(frame.fields, k, o.holds)])
        BY <1>1, <1>4
    <2>2. PICK x : x = With(frame.fields, k, o.holds)
        OBVIOUS
    <2>3. IsFrame(frame)
        BY Visiting
    <2>4. WithFields(frame, x, name) =
              FrameOf(frame.node, frame.def, frame.todo \ {name}, x, frame.unknownFields, frame.causes)
        <3>1. PICK f : f = frame
            OBVIOUS
        <3>2. IsFrame(f)
            BY <2>3, <3>1
        <3>3. WithFields(f, x, name) =
                  FrameOf(f.node, f.def, f.todo \ {name}, x, f.unknownFields, f.causes)
            BY <3>2, FrameUpdates
        <3> QED
            BY <3>1, <3>3
    <2>5. stack' = Append(callers, FrameOf(frame.node, frame.def, frame.todo \ {name}, x,
                                           frame.unknownFields, frame.causes))
        BY <2>1, <2>2, <2>4 DEF Settle, WithFields
    <2>6. /\ ReadInto(frame.fields, frame.unknownFields, frame.node,
                      DOMAIN data(frame.node).fields \ frame.todo)
          /\ k.name \notin DOMAIN data(frame.node).fields \ frame.todo
        BY Visiting
    <2>7. o \in tryConvertFieldValue(k.type, data(frame.node).fields[k.name]) \ {Left, Fails}
        BY <1>1, <1>2, <1>4
    <2>8. k \in DecidingKeys(frame.node, k.name) /\ ~ isRedacted(data(frame.node).fields[k.name])
        BY DEF value
    <2>9. ReadInto(x, frame.unknownFields, frame.node,
                   (DOMAIN data(frame.node).fields \ frame.todo) \cup {name})
        BY <2>2, <2>6, <2>7, <2>8, ReadKey
    <2>10. UNCHANGED <<request, answer, built>>
        BY <2>1 DEF Settle
    <2> QED
        BY <2>5, <2>9, <2>10, FieldSettled
<1> QED
    BY <1>3, <1>4

LEMMA KeepingUnknown ==
    ASSUME UnmarshalInv, NEW name, Visits(name), NEW v, v = Shown(value(name)),
           MayBeUnknown(frame.node, name),
           Settle(name, [frame EXCEPT !.unknownFields = With(@, name, v)])
    PROVE  UnmarshalInv'
<1>1. PICK x : x = With(frame.unknownFields, name, v)
    OBVIOUS
<1>2. IsFrame(frame)
    BY Visiting
<1>3. WithUnknown(frame, x, name) =
          FrameOf(frame.node, frame.def, frame.todo \ {name}, frame.fields, x, frame.causes)
    <2>1. PICK f : f = frame
        OBVIOUS
    <2>2. IsFrame(f)
        BY <1>2, <2>1
    <2>3. WithUnknown(f, x, name) =
              FrameOf(f.node, f.def, f.todo \ {name}, f.fields, x, f.causes)
        BY <2>2, FrameUpdates
    <2> QED
        BY <2>1, <2>3
<1>4. stack' = Append(callers, FrameOf(frame.node, frame.def, frame.todo \ {name}, frame.fields, x, frame.causes))
    BY <1>1, <1>3 DEF Settle, WithUnknown
<1>5. /\ ReadInto(frame.fields, frame.unknownFields, frame.node,
                  DOMAIN data(frame.node).fields \ frame.todo)
      /\ name \notin DOMAIN data(frame.node).fields \ frame.todo
    BY Visiting
<1>6. ReadInto(frame.fields, x, frame.node, (DOMAIN data(frame.node).fields \ frame.todo) \cup {name})
    BY <1>1, <1>5, ReadUnknown DEF value
<1>7. UNCHANGED <<request, answer, built>>
    BY DEF Settle
<1> QED
    BY <1>4, <1>6, <1>7, FieldSettled

LEMMA VisitRedactedStep ==
    ASSUME UnmarshalInv, NEW name, VisitRedacted(name)
    PROVE  UnmarshalInv'
<1>1. Visits(name) /\ isRedacted(value(name))
    BY DEF VisitRedacted
<1>2. PICK v : v = Value(Type("string"), Redacted)
    OBVIOUS
<1>3. v = Shown(value(name))
    BY <1>1, <1>2 DEF Shown
<1>4. MayBeUnknown(frame.node, name)
    BY <1>1 DEF MayBeUnknown, value
<1>5. Settle(name, [frame EXCEPT !.unknownFields = With(@, name, v)])
    BY <1>2 DEF VisitRedacted
<1> QED
    BY <1>1, <1>3, <1>4, <1>5, KeepingUnknown

LEMMA VisitDefinedStep ==
    ASSUME UnmarshalInv, NEW name, VisitDefined(name)
    PROVE  UnmarshalInv'
<1>1. Visits(name) /\ ~ isRedacted(value(name))
    BY DEF VisitDefined
<1>2. PICK k \in FindKeys(frame.def, name) : ConvertTo(k, name)
    BY DEF VisitDefined
<1>3. k \in DecidingKeys(frame.node, name) /\ k.name = name
    BY <1>1, Visiting DEF FindKeys, DecidingKeys
<1> QED
    BY <1>1, <1>2, <1>3, Converting

LEMMA VisitCustomStep ==
    ASSUME UnmarshalInv, NEW name, VisitCustom(name)
    PROVE  UnmarshalInv'
<1>1. Visits(name) /\ ~ isRedacted(value(name))
    BY DEF VisitCustom
<1>2. PICK i \in DOMAIN request.customFieldKeys :
          /\ request.customFieldKeys[i].name = name
          /\ CustomLeaveUpTo(name, i - 1)
          /\ ConvertTo(request.customFieldKeys[i], name)
    BY DEF VisitCustom
<1>3. PICK k : k = request.customFieldKeys[i]
    OBVIOUS
<1>4. \A j \in FindKeys(frame.def, name) : Left \in OutcomesFor(j, frame.node, name)
    BY DEF VisitCustom, DefinedLeave, Leaves, Outcomes, OutcomesFor, value
<1>5. \A j \in 1 .. i - 1 : request.customFieldKeys[j].name = name =>
          Left \in OutcomesFor(request.customFieldKeys[j], frame.node, name)
    BY <1>2 DEF CustomLeaveUpTo, Leaves, Outcomes, OutcomesFor, value
<1>6. k \in DecidingKeys(frame.node, name)
    BY <1>1, <1>2, <1>3, <1>4, <1>5, Visiting DEF DecidingKeys
<1> QED
    BY <1>1, <1>2, <1>3, <1>6, Converting

LEMMA VisitUnknownStep ==
    ASSUME UnmarshalInv, NEW name, VisitUnknown(name)
    PROVE  UnmarshalInv'
<1>1. Visits(name) /\ ~ isRedacted(value(name))
    BY DEF VisitUnknown
<1>2. \A k \in KeysFor(frame.node, name) :
          Left \in tryConvertFieldValue(k.type, data(frame.node).fields[name])
    <2> SUFFICES ASSUME NEW k \in KeysFor(frame.node, name)
                 PROVE  Left \in tryConvertFieldValue(k.type, data(frame.node).fields[name])
        OBVIOUS
    <2>1. CASE k \in FindKeys(frame.def, name)
        BY <2>1 DEF VisitUnknown, DefinedLeave, Leaves, Outcomes, value
    <2>2. CASE k \in Custom /\ k.name = name
        <3>1. PICK i \in DOMAIN request.customFieldKeys : k = request.customFieldKeys[i]
            BY <2>2 DEF Custom
        <3>2. DOMAIN request.customFieldKeys = 1 .. Len(request.customFieldKeys)
            <4>1. PICK r \in Requests : r = request
                BY DEF UnmarshalInv
            <4>2. r.customFieldKeys \in Seq({r.customFieldKeys[j] : j \in DOMAIN r.customFieldKeys})
                BY RequestsAssumption
            <4>3. DOMAIN r.customFieldKeys = 1 .. Len(r.customFieldKeys)
                BY <4>2, LenProperties
            <4> QED
                BY <4>1, <4>3
        <3> QED
            BY <2>2, <3>1, <3>2 DEF VisitUnknown, CustomLeaveUpTo, Leaves, Outcomes, value
    <2> QED
        BY <1>1, <2>1, <2>2, Visiting
<1>3. CASE request.strictMode
    <2>1. Fail("ErrUnknownField")
        BY <1>3 DEF VisitUnknown
    <2>2. Refused(frame.node, name)
        BY <1>1, <1>2, <1>3 DEF Refused, OutcomesFor, value
    <2>3. Refusing(frame.node)
        BY <1>1, <2>2, Visiting DEF Refusing
    <2>4. Explained(frame.node, "ErrUnknownField")
        BY <2>3 DEF Explained
    <2> QED
        BY <1>1, <2>1, <2>4, Refusal
<1>4. CASE ~ request.strictMode
    <2>1. PICK v : v = value(name)
        OBVIOUS
    <2>2. v = Shown(value(name))
        BY <1>1, <2>1 DEF Shown
    <2>3. Settle(name, [frame EXCEPT !.unknownFields = With(@, name, v)])
        BY <1>4, <2>1 DEF VisitUnknown, KeepUnknown
    <2>4. MayBeUnknown(frame.node, name)
        BY <1>2, <1>4 DEF MayBeUnknown
    <2> QED
        BY <1>1, <2>2, <2>3, <2>4, KeepingUnknown
<1> QED
    BY <1>3, <1>4

-----------------------------------------------------------------------------
(* Reading the causes                                                      *)

LEMMA BeginStep ==
    ASSUME UnmarshalInv, Begin
    PROVE  UnmarshalInv'
<1>1. stack = <<>> /\ answer = None /\ request' = request /\ built' = built
    BY DEF Begin
<1>2. 1 \in Nodes
    <2>1. PICK r \in Requests : r = request
        BY DEF UnmarshalInv
    <2>2. Tree(r.data)
        BY RequestsAssumption
    <2>3. 1 \in DOMAIN r.data
        BY <2>2 DEF Tree
    <2> QED
        BY <2>1, <2>3 DEF Nodes
<1>3. CASE request.decodes
    <2>1. Enter(1, stack)
        BY <1>1, <1>3 DEF Begin, Enter
    <2> QED
        BY <1>1, <1>2, <2>1, Entered
<1>4. CASE ~ request.decodes
    <2>1. stack' = <<>> /\ answer' = Error(1, "ErrDecodeFailure")
        BY <1>4 DEF Begin
    <2>2. StackInv' /\ BuiltInv' /\ request' \in Requests
        BY <1>1, <2>1, StackKept, BuiltKept DEF UnmarshalInv
    <2>3. answer'.node = 1 /\ answer'.err = "ErrDecodeFailure" /\ 1 \in Nodes'
        BY <1>1, <1>2, <2>1, RequestKept DEF Error
    <2>4. Explained(1, "ErrDecodeFailure")'
        BY <1>1, <1>4 DEF Explained
    <2>5. AnswerInv'
        BY <2>1, <2>3, <2>4 DEF AnswerInv
    <2> QED
        BY <2>2, <2>5 DEF UnmarshalInv
<1> QED
    BY <1>3, <1>4

LEMMA NextCauseStep ==
    ASSUME UnmarshalInv, NextCause
    PROVE  UnmarshalInv'
<1>1. /\ answer = None /\ stack # <<>> /\ frame.todo = {} /\ request' = request /\ built' = built
      /\ Len(frame.causes) < Len(data(frame.node).causes)
    BY DEF NextCause, HasNextCause
<1>2. PICK n : n = data(frame.node).causes[Len(frame.causes) + 1]
    OBVIOUS
<1>3. FrameOK(frame) /\ frame.node \in Nodes
    BY <1>1, TopFrame DEF UnmarshalInv
<1>4. n \in Nodes
    <2>1. PICK m, c : m = frame.node /\ c = frame.causes
        OBVIOUS
    <2>2. m \in Nodes /\ Len(c) \in Nat /\ Len(c) < Len(data(m).causes)
        BY <1>1, <1>3, <2>1, LenProperties DEF FrameOK
    <2>3. Len(c) + 1 \in DOMAIN data(m).causes
        BY <2>2, DataTyped DEF UnmarshalInv
    <2> QED
        BY <1>2, <2>1, <2>2, <2>3, DataTyped DEF UnmarshalInv
<1>5. Awaits(frame, n)
    BY <1>1, <1>2 DEF Awaits
<1>6. Enter(n, stack)
    BY <1>2 DEF NextCause
<1> QED
    BY <1>1, <1>4, <1>5, <1>6, Entered

LEMMA AddCauseStep ==
    ASSUME UnmarshalInv, AddCause
    PROVE  UnmarshalInv'
<1>1. /\ answer # None /\ answer.err = "none" /\ stack # <<>> /\ answer' = None
      /\ request' = request /\ built' = built
    BY DEF AddCause
<1>2. FrameOK(frame) /\ IsFrame(frame) /\ frame.node \in Nodes
    BY <1>1, TopFrame DEF UnmarshalInv
<1>3. Awaits(frame, answer.node) /\ answer.node \in Nodes /\ answer.node \in DOMAIN built
    BY <1>1 DEF UnmarshalInv, AnswerInv, Explained
<1>4. PICK a, c, x, m : a = answer.node /\ c = frame.causes /\ x = Append(c, a) /\ m = frame.node
    OBVIOUS
<1>5. PICK g : g = FrameOf(frame.node, frame.def, frame.todo, frame.fields, frame.unknownFields, x)
    OBVIOUS
<1>6. stack' = Append(callers, g)
    <2>1. WithCauses(frame, x) = g
        BY <1>2, <1>5, FrameUpdates
    <2> QED
        BY <1>4, <2>1 DEF AddCause, WithCauses
<1>7. /\ IsFrame(g) /\ g.node = frame.node /\ g.def = frame.def /\ g.todo = frame.todo
      /\ g.fields = frame.fields /\ g.unknownFields = frame.unknownFields /\ g.causes = x
    BY <1>5, FrameParts
<1>8. /\ c \in Seq(Nodes) /\ a \in Nodes /\ m \in Nodes
      /\ Len(c) < Len(data(m).causes) /\ Len(data(m).causes) \in Nat
      /\ a = data(m).causes[Len(c) + 1]
      /\ \A i \in DOMAIN c : c[i] = data(m).causes[i] /\ c[i] \in DOMAIN built
    BY <1>2, <1>3, <1>4, DataTyped DEF FrameOK, Awaits, UnmarshalInv
<1>9. /\ x \in Seq(Nodes) /\ Len(x) = Len(c) + 1 /\ Len(c) \in Nat
      /\ DOMAIN x = 1 .. Len(c) + 1 /\ DOMAIN c = 1 .. Len(c)
      /\ \A i \in 1 .. Len(c) : x[i] = c[i]
      /\ x[Len(c) + 1] = a
    BY <1>4, <1>8, AppendProperties, LenProperties
<1>10. /\ Len(x) <= Len(data(m).causes)
       /\ \A i \in DOMAIN x : x[i] = data(m).causes[i] /\ x[i] \in DOMAIN built
    <2>1. \A i \in DOMAIN x : i \in DOMAIN c \/ i = Len(c) + 1
        BY <1>9
    <2> QED
        BY <1>3, <1>4, <1>8, <1>9, <2>1
<1>11. FrameOK(g)
    BY <1>2, <1>4, <1>7, <1>9, <1>10 DEF FrameOK
<1> QED
    BY <1>1, <1>6, <1>7, <1>11, WentOn

LEMMA CauseFailsStep ==
    ASSUME UnmarshalInv, CauseFails
    PROVE  UnmarshalInv'
<1>1. answer # None /\ answer.err # "none" /\ stack # <<>> /\ request' = request /\ built' = built
    BY DEF CauseFails
<1>2. BuiltInv' /\ DOMAIN built \subseteq DOMAIN built' /\ request' \in Requests
    BY <1>1, BuiltKept DEF UnmarshalInv
<1>3. Awaits(frame, answer.node) /\ answer.node \in Nodes /\ Explained(answer.node, answer.err)
    BY <1>1 DEF UnmarshalInv, AnswerInv
<1>4. CASE answer.err = "ErrInternal"
    <2>1. stack' = callers /\ answer' = Error(frame.node, "ErrInternal")
        BY <1>4 DEF CauseFails
    <2>2. Explained(frame.node, "ErrInternal")
        BY <1>3, <1>4 DEF Explained
    <2> QED
        BY <1>1, <1>2, <2>1, <2>2, Returned
<1>5. CASE answer.err # "ErrInternal"
    <2>1. PICK f : f = Frame(answer.node, None, {})
        OBVIOUS
    <2>2. stack' = Append(stack, f) /\ answer' = None
        BY <1>5, <2>1 DEF CauseFails
    <2>3. /\ IsFrame(f) /\ f.node = answer.node /\ f.def = None /\ f.todo = {} /\ f.causes = <<>>
        BY <2>1 DEF Frame, IsFrame
    <2>4. Failed(answer.node)
        <3>1. answer.err # "ErrDecodeFailure"
            BY <1>1 DEF UnmarshalInv, AnswerInv
        <3> QED
            BY <1>1, <1>3, <1>5, <3>1 DEF Explained, Failed
    <2>5. Len(data(answer.node).causes) \in Nat
        BY <1>3, DataTyped DEF UnmarshalInv
    <2>6. f.causes \in Seq(Nodes) /\ Len(f.causes) <= Len(data(f.node).causes) /\ DOMAIN f.causes = {}
        BY <2>3, <2>5
    <2>7. FrameOK(f)
        BY <1>3, <2>3, <2>4, <2>6 DEF FrameOK
    <2>8. FrameOK(f)'
        BY <1>1, <1>2, <2>7, FrameKept
    <2>9. StackInv'
        BY <1>1, <1>2, <1>3, <2>2, <2>3, <2>8, Pushed DEF UnmarshalInv
    <2> QED
        BY <1>2, <2>2, <2>9 DEF UnmarshalInv, AnswerInv
<1> QED
    BY <1>4, <1>5

(* All causes of a call are read.                                          *)
LEMMA CausesRead ==
    ASSUME UnmarshalInv, AllCauses
    PROVE  /\ stack # <<>> /\ FrameOK(frame) /\ frame.node \in Nodes /\ frame.todo = {}
           /\ frame.causes = data(frame.node).causes
           /\ \A i \in DOMAIN data(frame.node).causes : data(frame.node).causes[i] \in DOMAIN built
<1>1. stack # <<>> /\ frame.todo = {} /\ Len(frame.causes) = Len(data(frame.node).causes)
    BY DEF AllCauses
<1>2. FrameOK(frame) /\ frame.node \in Nodes
    BY <1>1, TopFrame DEF UnmarshalInv
<1>3. PICK c, d, m : c = frame.causes /\ d = data(m).causes /\ m = frame.node
    OBVIOUS
<1>4. c \in Seq(Nodes) /\ d \in Seq(Nodes) /\ Len(c) = Len(d)
    BY <1>1, <1>2, <1>3, DataTyped DEF FrameOK, UnmarshalInv
<1>5. \A i \in DOMAIN c : c[i] = d[i] /\ c[i] \in DOMAIN built
    BY <1>2, <1>3 DEF FrameOK
<1>6. DOMAIN c = 1 .. Len(c) /\ DOMAIN d = 1 .. Len(d)
    BY <1>4, LenProperties
<1>7. c = d
    BY <1>4, <1>5, <1>6, SeqEqual
<1>8. \A i \in DOMAIN d : d[i] \in DOMAIN built
    BY <1>5, <1>7
<1> QED
    BY <1>1, <1>2, <1>3, <1>7, <1>8

LEMMA ReturnStep ==
    ASSUME UnmarshalInv, AllCauses, NEW e, Return(e), BuiltOK(frame.node, e)
    PROVE  UnmarshalInv'
<1>1. /\ stack # <<>> /\ frame.node \in Nodes
      /\ \A i \in DOMAIN data(frame.node).causes : data(frame.node).causes[i] \in DOMAIN built
    BY CausesRead
<1>2. PICK m, b : m = frame.node /\ b = built'
    OBVIOUS
<1>3. /\ b = With(built, m, e) /\ stack' = callers /\ answer' = Error(m, "none")
      /\ request' = request
    BY <1>2 DEF Return, Made, Error
<1>4. DOMAIN b = DOMAIN built \cup {m} /\ \A n \in DOMAIN b : b[n] = IF n = m THEN e ELSE built[n]
    BY <1>3 DEF With
<1>5. \A n \in DOMAIN b : BuiltOK(n, b[n])
    BY <1>2, <1>4 DEF UnmarshalInv, BuiltInv
<1>6. \A n \in DOMAIN b : \A i \in DOMAIN data(n).causes : data(n).causes[i] \in DOMAIN b
    BY <1>1, <1>2, <1>4 DEF UnmarshalInv, BuiltInv
<1>7. DOMAIN b \subseteq Nodes
    BY <1>1, <1>2, <1>4 DEF UnmarshalInv, BuiltInv
<1>8. BuiltInv'
    BY <1>2, <1>3, <1>5, <1>6, <1>7, RequestKept DEF BuiltInv
<1>9. DOMAIN built \subseteq DOMAIN built' /\ frame.node \in DOMAIN built'
    BY <1>2, <1>4
<1>10. answer' = Error(frame.node, "none")
    BY <1>2, <1>3
<1> QED
    BY <1>1, <1>3, <1>8, <1>9, <1>10, Returned

LEMMA ReturnDefinedStep ==
    ASSUME UnmarshalInv, ReturnDefined
    PROVE  UnmarshalInv'
<1>1. AllCauses /\ frame.def # None
    BY DEF ReturnDefined
<1>2. FrameOK(frame) /\ frame.todo = {} /\ frame.causes = data(frame.node).causes
    BY <1>1, CausesRead
<1>3. PICK e : e = [is |-> "defined", def |-> frame.def, message |-> data(frame.node).message,
                    fields |-> frame.fields, unknownFields |-> frame.unknownFields,
                    causes |-> frame.causes]
    OBVIOUS
<1>4. Return(e)
    BY <1>3 DEF ReturnDefined
<1>5. /\ e.is = "defined" /\ e.def = frame.def /\ e.fields = frame.fields
      /\ e.unknownFields = frame.unknownFields /\ e.causes = frame.causes
    BY <1>3
<1>6. DOMAIN data(frame.node).fields \ frame.todo = DOMAIN data(frame.node).fields
    BY <1>2
<1>7. /\ frame.def = resolveKind(data(frame.node).kind)
      /\ ReadInto(frame.fields, frame.unknownFields, frame.node, DOMAIN data(frame.node).fields)
    BY <1>1, <1>2, <1>6 DEF FrameOK
<1>8. BuiltOK(frame.node, e)
    BY <1>1, <1>2, <1>5, <1>7 DEF BuiltOK
<1> QED
    BY <1>1, <1>4, <1>8, ReturnStep

LEMMA ExternalIs ==
    ASSUME NEW n
    PROVE  /\ External(n).is \in {"definition", "sentinel", "unknown"}
           /\ External(n).is = "definition" =>
                  typeName(n) = "*errdef.definition" /\ ResolveKind(msg(n)) # None
           /\ External(n).is = "unknown" => External(n).causes = <<>>
BY DEF External

LEMMA ReturnExternalStep ==
    ASSUME UnmarshalInv, ReturnExternal
    PROVE  UnmarshalInv'
<1>1. AllCauses /\ frame.def = None
    BY DEF ReturnExternal
<1>2. FrameOK(frame) /\ frame.node \in Nodes /\ frame.causes = data(frame.node).causes
    BY <1>1, CausesRead
<1>3. Failed(frame.node)
    BY <1>1, <1>2 DEF FrameOK
<1>4. PICK e : e = IF frame.causes = <<>> THEN External(frame.node)
                   ELSE [is |-> "unknown", type |-> typeName(frame.node),
                         message |-> msg(frame.node), causes |-> frame.causes]
    OBVIOUS
<1>5. Return(e)
    BY <1>4 DEF ReturnExternal
<1>6. CASE frame.causes = <<>>
    <2>1. e = External(frame.node)
        BY <1>4, <1>6
    <2>2. e.is # "defined"
        BY <2>1, ExternalIs
    <2>3. BuiltOK(frame.node, e)
        BY <1>2, <1>3, <1>6, <2>1, <2>2 DEF BuiltOK
    <2> QED
        BY <1>1, <1>5, <2>3, ReturnStep
<1>7. CASE frame.causes # <<>>
    <2>1. e.is = "unknown" /\ e.causes = frame.causes
        BY <1>4, <1>7
    <2>2. BuiltOK(frame.node, e)
        BY <1>2, <1>3, <1>7, <2>1 DEF BuiltOK
    <2> QED
        BY <1>1, <1>5, <2>2, ReturnStep
<1> QED
    BY <1>6, <1>7

-----------------------------------------------------------------------------
(* The invariant holds                                                     *)

LEMMA InitSafe ==
    ASSUME Init
    PROVE  UnmarshalInv
<1>1. request \in Requests /\ stack = <<>> /\ answer = None /\ built = <<>>
    BY DEF Init
<1>2. DOMAIN stack = {} /\ DOMAIN built = {}
    BY <1>1
<1>3. StackInv
    BY <1>1, <1>2 DEF StackInv, IsSeq
<1> QED
    BY <1>1, <1>2, <1>3 DEF UnmarshalInv, AnswerInv, BuiltInv

LEMMA StepSafe ==
    ASSUME UnmarshalInv, [Next]_vars
    PROVE  UnmarshalInv'
<1>1. CASE UNCHANGED vars
    <2>1. StackInv' /\ BuiltInv' /\ request' \in Requests
        BY <1>1, StackKept, BuiltKept DEF vars, UnmarshalInv
    <2>2. AnswerInv'
        <3>1. PICK a, m, g : a = answer /\ m = answer.node /\ g = frame
            OBVIOUS
        <3>2. answer' = a /\ stack' = stack /\ frame' = g /\ request' = request /\ built' = built
            BY <1>1, <3>1 DEF vars, frame
        <3>3. Awaits(g, m)' <=> Awaits(g, m)
            BY <3>2, RequestKept
        <3>4. Explained(a.node, a.err) => Explained(a.node, a.err)'
            BY <3>2, ExplainedKept
        <3>5. Nodes' = Nodes
            BY <3>2, RequestKept
        <3> QED
            BY <3>1, <3>2, <3>3, <3>4, <3>5 DEF UnmarshalInv, AnswerInv
    <2> QED
        BY <2>1, <2>2 DEF UnmarshalInv
<1>2. CASE Begin
    BY <1>2, BeginStep
<1>3. ASSUME NEW name, VisitRedacted(name) \/ VisitDefined(name) \/ VisitCustom(name) \/ VisitUnknown(name)
      PROVE  UnmarshalInv'
    BY <1>3, VisitRedactedStep, VisitDefinedStep, VisitCustomStep, VisitUnknownStep
<1>4. CASE NextCause
    BY <1>4, NextCauseStep
<1>5. CASE AddCause
    BY <1>5, AddCauseStep
<1>6. CASE CauseFails
    BY <1>6, CauseFailsStep
<1>7. CASE ReturnDefined
    BY <1>7, ReturnDefinedStep
<1>8. CASE ReturnExternal
    BY <1>8, ReturnExternalStep
<1> QED
    BY <1>1, <1>2, <1>3, <1>4, <1>5, <1>6, <1>7, <1>8 DEF Next

(* Each call of unmarshal is a step down the tree of the data, with the    *)
(* fields it has visited each read under one key or unknown, and the       *)
(* causes before the next one built; an error says what is the matter with *)
(* its node, and what is built is what its data says.                      *)
THEOREM UnmarshalSafe == Spec => []UnmarshalInv
<1>1. Init => UnmarshalInv
    BY InitSafe
<1>2. UnmarshalInv /\ [Next]_vars => UnmarshalInv'
    BY StepSafe
<1> QED
    BY <1>1, <1>2, PTL DEF Spec

-----------------------------------------------------------------------------
(* What it says of the result                                              *)

LEMMA WhatIsDefined ==
    ASSUME UnmarshalInv, NEW n \in Defined
    PROVE  /\ n \in Nodes /\ n \in DOMAIN built
           /\ built[n].def # None /\ built[n].def = resolveKind(data(n).kind)
           /\ ReadInto(built[n].fields, built[n].unknownFields, n, DOMAIN data(n).fields)
           /\ built[n].causes = data(n).causes
           /\ IsFiniteSet(DOMAIN data(n).fields)
           /\ \A name \in DOMAIN data(n).fields : ValueTyped(data(n).fields[name])
<1>1. n \in DOMAIN built /\ n \in Nodes /\ built[n].is = "defined" /\ BuiltOK(n, built[n])
    BY DEF Defined, UnmarshalInv, BuiltInv
<1>2. /\ IsFiniteSet(DOMAIN data(n).fields)
      /\ \A name \in DOMAIN data(n).fields : ValueTyped(data(n).fields[name])
    BY <1>1, DataTyped DEF UnmarshalInv
<1> QED
    BY <1>1, <1>2 DEF BuiltOK

LEMMA NumbersAreKept ==
    ASSUME UnmarshalInv
    PROVE  NumbersKept
<1> SUFFICES ASSUME NEW n \in Defined, NEW k \in DOMAIN built[n].fields
             PROVE  Kept(k.type.kind, data(n).fields[k.name], built[n].fields[k])
    BY DEF NumbersKept
<1>1. PICK v, t : v = data(n).fields[k.name] /\ t = k.type
    OBVIOUS
<1>2. k.name \in DOMAIN data(n).fields
    BY WhatIsDefined DEF ReadInto
<1>3. ValueTyped(v)
    BY <1>1, <1>2, WhatIsDefined
<1>4. PICK o \in tryConvertFieldValue(t, v) \ {Left, Fails} : built[n].fields[k] = o.holds
    BY <1>1, WhatIsDefined DEF ReadInto
<1>5. Kept(t.kind, v, o.holds)
    BY <1>3, <1>4, TakenIsKept
<1> QED
    BY <1>1, <1>4, <1>5

LEMMA UnknownIsExact ==
    ASSUME UnmarshalInv
    PROVE  UnknownExactly
<1>1. ASSUME NEW n \in Defined, NEW name \in DOMAIN built[n].unknownFields,
             ~ isRedacted(data(n).fields[name]),
             NEW k \in KeysFor(n, name), Belongs(k.type, data(n).fields[name])
      PROVE  FALSE
    <2>1. PICK v, t : v = data(n).fields[name] /\ t = k.type
        OBVIOUS
    <2>2. name \in DOMAIN data(n).fields /\ MayBeUnknown(n, name)
        BY WhatIsDefined DEF ReadInto
    <2>3. ValueTyped(v)
        BY <2>1, <2>2, WhatIsDefined
    <2>4. Left \in tryConvertFieldValue(t, v)
        BY <1>1, <2>1, <2>2 DEF MayBeUnknown
    <2> QED
        BY <1>1, <2>1, <2>3, <2>4, BelongsIsTaken
<1>2. ASSUME answer # None, answer.err = "ErrUnknownField"
      PROVE  \E name \in DOMAIN data(answer.node).fields :
                 \A k \in KeysFor(answer.node, name) :
                     ~ Belongs(k.type, data(answer.node).fields[name])
    <2>1. PICK n : n = answer.node
        OBVIOUS
    <2>2. n \in Nodes /\ Refusing(n)
        BY <1>2, <2>1 DEF UnmarshalInv, AnswerInv, Explained
    <2>3. PICK name \in DOMAIN data(n).fields : Refused(n, name)
        BY <2>2 DEF Refusing
    <2>4. ASSUME NEW k \in KeysFor(n, name), Belongs(k.type, data(n).fields[name])
          PROVE  FALSE
        <3>1. PICK v, t : v = data(n).fields[name] /\ t = k.type
            OBVIOUS
        <3>2. ValueTyped(v)
            BY <2>2, <2>3, <3>1, DataTyped DEF UnmarshalInv
        <3>3. Left \in tryConvertFieldValue(t, v)
            BY <2>3, <2>4, <3>1 DEF Refused, OutcomesFor
        <3> QED
            BY <2>4, <3>1, <3>2, <3>3, BelongsIsTaken
    <2> QED
        BY <2>1, <2>3, <2>4
<1>3. WhatBelongsIsTyped
    BY <1>1, <1>2 DEF WhatBelongsIsTyped
<1>4. ASSUME request.strictMode, NEW n \in Defined
      PROVE  /\ built[n].def = data(n).kind
             /\ \A name \in DOMAIN built[n].unknownFields : isRedacted(data(n).fields[name])
    <2>1. built[n].def = data(n).kind
        BY <1>4, WhatIsDefined DEF resolveKind, ResolveKind
    <2>2. \A name \in DOMAIN built[n].unknownFields : isRedacted(data(n).fields[name])
        BY <1>4, WhatIsDefined DEF ReadInto, MayBeUnknown
    <2> QED
        BY <2>1, <2>2
<1>5. StrictIsStrict
    BY <1>4 DEF StrictIsStrict
<1>6. ASSUME NEW n \in Defined, NEW k \in DOMAIN built[n].fields
      PROVE  LET v == data(n).fields[k.name]
             IN /\ k \in KeysFor(n, k.name) /\ ~ isRedacted(v)
                /\ Belongs(k.type, v) \/ Nearly(k.type.kind, v)
    <2>1. PICK v, t : v = data(n).fields[k.name] /\ t = k.type
        OBVIOUS
    <2>2. /\ k \in DecidingKeys(n, k.name) /\ ~ isRedacted(v)
          /\ \E o \in tryConvertFieldValue(t, v) : o # Left /\ o # Fails
        BY <1>6, <2>1, WhatIsDefined DEF ReadInto
    <2>3. ValueTyped(v)
        BY <1>6, <2>1, WhatIsDefined DEF ReadInto
    <2>4. Belongs(t, v) \/ Nearly(t.kind, v)
        BY <2>2, <2>3, TakenIsRight
    <2> QED
        BY <2>1, <2>2, <2>4, DecidingIsFor
<1>7. TypedByRight
    BY <1>6 DEF TypedByRight
<1> QED
    BY <1>3, <1>5, <1>7 DEF UnknownExactly

LEMMA ShownIsTyped ==
    ASSUME NEW v, ValueTyped(v)
    PROVE  ValueTyped(Shown(v))
<1>1. PICK w : w = Value(Type("string"), Redacted)
    OBVIOUS
<1>2. w.type = Type("string") /\ w.holds = Redacted
    BY <1>1 DEF Value
<1>3. ValueTyped(w)
    BY <1>1, <1>2, TypeKinds DEF ValueTyped, Primitive
<1> QED
    BY <1>1, <1>3 DEF Shown

LEMMA FieldsAreReadable ==
    ASSUME UnmarshalInv
    PROVE  FieldsReadable
<1> SUFFICES ASSUME NEW n \in Defined, NEW name \in DOMAIN data(n).fields
             PROVE  /\ FindNames(built[n], name) # {}
                    /\ \A k \in KeysFor(n, name) \cup request.otherKeys :
                           k.name = name /\ Belongs(k.type, Shown(data(n).fields[name])) =>
                               \/ Get(built[n], k) # {}
                               \/ \E j \in DOMAIN built[n].fields : j.name = name
    BY DEF FieldsReadable
<1>1. name \in {k.name : k \in DOMAIN built[n].fields} \cup DOMAIN built[n].unknownFields
    BY WhatIsDefined DEF ReadInto
<1>2. FindNames(built[n], name) # {}
    BY <1>1 DEF FindNames
<1>3. ASSUME NEW k, k.name = name, Belongs(k.type, Shown(data(n).fields[name])),
             ~ \E j \in DOMAIN built[n].fields : j.name = name
      PROVE  Get(built[n], k) # {}
    <2>1. PICK w, t : w = Shown(data(n).fields[name]) /\ t = k.type
        OBVIOUS
    <2>2. ValueTyped(w)
        BY <2>1, WhatIsDefined, ShownIsTyped
    <2>3. PICK o \in tryConvertFieldValue(t, w) : o # Left /\ o # Fails
        BY <1>3, <2>1, <2>2, BelongsIsTaken
    <2>4. name \in DOMAIN built[n].unknownFields
        BY <1>1, <1>3
    <2>5. built[n].unknownFields[name] = w
        BY <2>1, <2>4, WhatIsDefined DEF ReadInto
    <2>6. k \notin DOMAIN built[n].fields
        BY <1>3
    <2> QED
        BY <1>3, <2>1, <2>3, <2>4, <2>5, <2>6 DEF Get
<1> QED
    BY <1>2, <1>3

(* Keys of different names are as many as their names.                     *)
LEMMA AsManyAsNames ==
    ASSUME NEW K, NEW D, IsFiniteSet(D), \A k \in K : k.name \in D,
           \A j, k \in K : j.name = k.name => j = k
    PROVE  LET N == {k.name : k \in K}
           IN IsFiniteSet(K) /\ IsFiniteSet(N) /\ Cardinality(K) = Cardinality(N)
<1>1. PICK N : N = {k.name : k \in K}
    OBVIOUS
<1>2. IsFiniteSet(N)
    BY <1>1, FS_Subset
<1>3. PICK f : f = [k \in K |-> k.name]
    OBVIOUS
<1>4. f \in [K -> N] /\ \A k \in K : f[k] = k.name
    BY <1>1, <1>3
<1>5. f \in Injection(K, N)
    BY <1>4 DEF Injection, IsInjective
<1>6. f \in Surjection(K, N)
    BY <1>1, <1>4 DEF Surjection
<1>7. ExistsBijection(K, N)
    BY <1>5, <1>6 DEF Bijection, ExistsBijection
<1>8. ExistsBijection(N, K)
    BY <1>7, Fun_ExistsBijSymmetric
<1> QED
    BY <1>1, <1>2, <1>8, FS_Bijection

LEMMA NothingIsLost ==
    ASSUME UnmarshalInv
    PROVE  NothingLost
<1> SUFFICES ASSUME NEW n \in Defined
             PROVE  LET e == built[n] IN
                    /\ {k.name : k \in DOMAIN e.fields} \cup DOMAIN e.unknownFields = DOMAIN data(n).fields
                    /\ Size(e) = Cardinality(DOMAIN data(n).fields)
    BY FieldsAreReadable DEF NothingLost
<1>1. PICK K, U, D : K = DOMAIN built[n].fields /\ U = DOMAIN built[n].unknownFields /\ D = DOMAIN data(n).fields
    OBVIOUS
<1>2. PICK N : N = {k.name : k \in K}
    OBVIOUS
<1>3. /\ IsFiniteSet(D) /\ N \cup U = D
      /\ \A k \in K : k.name \notin U /\ k.name \in N
      /\ \A j, k \in K : j.name = k.name => j = k
    BY <1>1, <1>2, WhatIsDefined DEF ReadInto
<1>4. N \cap U = {}
    BY <1>2, <1>3
<1>5. IsFiniteSet(K) /\ IsFiniteSet(N) /\ Cardinality(K) = Cardinality(N)
    BY <1>2, <1>3, AsManyAsNames
<1>6. IsFiniteSet(U)
    BY <1>3, FS_Subset
<1>7. Cardinality(D) = Cardinality(N) + Cardinality(U) - Cardinality(N \cap U)
    BY <1>3, <1>5, <1>6, FS_Union
<1>8. Cardinality(N \cap U) = 0
    BY <1>4, FS_EmptySet
<1>9. Cardinality(N) \in Nat /\ Cardinality(U) \in Nat
    BY <1>5, <1>6, FS_CardinalityType
<1>10. Cardinality(D) = Cardinality(K) + Cardinality(U)
    BY <1>5, <1>7, <1>8, <1>9
<1> QED
    BY <1>1, <1>2, <1>3, <1>10 DEF Size

LEMMA SentinelsAreRestored ==
    ASSUME SentinelsNamed, UnmarshalInv
    PROVE  SentinelsRestored
<1> SUFFICES ASSUME request.default = None \/ request.strictMode, NEW n \in DOMAIN built,
                    IsSentinel(n), data(n).kind \notin DOMAIN request.definitions
             PROVE  built[n] = [is |-> "sentinel", key |-> <<data(n).type, data(n).message>>]
    BY DEF SentinelsRestored
<1>1. resolveKind(data(n).kind) = None
    BY DEF resolveKind, ResolveKind
<1>2. data(n).causes = <<>> /\ <<data(n).type, data(n).message>> \in request.sentinelErrors
    BY DEF IsSentinel
<1>3. BuiltOK(n, built[n])
    BY DEF UnmarshalInv, BuiltInv
<1>4. built[n] = External(n)
    BY <1>1, <1>2, <1>3 DEF BuiltOK
<1>5. PICK r, t, m : r = request /\ t = data(n).type /\ m = data(n).message
    OBVIOUS
<1>6. r \in Requests /\ <<t, m>> \in r.sentinelErrors /\ None \notin DOMAIN r.definitions
    BY <1>2, <1>5, RequestsAssumption DEF UnmarshalInv
<1>7. t # "" /\ m # "" /\ (t = "*errdef.definition" => m \notin DOMAIN r.definitions)
    <2>1. PICK s : s = <<t, m>>
        OBVIOUS
    <2>2. s[1] = t /\ s[2] = m /\ s \in r.sentinelErrors
        BY <1>6, <2>1
    <2> QED
        BY <1>6, <2>2 DEF SentinelsNamed
<1>8. typeName(n) = t /\ msg(n) = m
    BY <1>5, <1>7 DEF typeName, msg
<1>9. ~ (typeName(n) = "*errdef.definition" /\ ResolveKind(msg(n)) # None)
    BY <1>5, <1>7, <1>8 DEF ResolveKind
<1>10. External(n) = [is |-> "sentinel", key |-> <<t, m>>]
    BY <1>5, <1>6, <1>8, <1>9 DEF External
<1> QED
    BY <1>4, <1>5, <1>10

LEMMA CausesAreKept ==
    ASSUME SentinelsNamed, UnmarshalInv
    PROVE  CausesKept
<1>1. UnmarshalTypeOK
    <2>1. answer = None \/ answer.node \in Nodes
        BY DEF UnmarshalInv, AnswerInv
    <2>2. DOMAIN built \subseteq Nodes
        BY DEF UnmarshalInv, BuiltInv
    <2>3. \A i \in DOMAIN stack : stack[i].todo \subseteq DOMAIN data(stack[i].node).fields
        BY DEF UnmarshalInv, StackInv, FrameOK
    <2>4. ASSUME NEW i \in DOMAIN stack, i > 1
          PROVE  stack[i].node = data(stack[i - 1].node).causes[Len(stack[i - 1].causes) + 1]
        <3>1. stack # <<>>
            BY <2>4
        <3>2. PICK N : N = Len(stack)
            OBVIOUS
        <3>3. N \in Nat /\ DOMAIN stack = 1 .. N
            BY <3>1, <3>2, TopFrame DEF UnmarshalInv
        <3>4. i - 1 \in DOMAIN stack /\ (i - 1) + 1 \in DOMAIN stack /\ (i - 1) + 1 = i
            BY <2>4, <3>3
        <3>5. Awaits(stack[i - 1], stack[i].node)
            BY <3>4 DEF UnmarshalInv, StackInv
        <3> QED
            BY <3>5 DEF Awaits
    <2> QED
        BY <2>1, <2>2, <2>3, <2>4 DEF UnmarshalTypeOK
<1>2. ASSUME NEW n \in DOMAIN built
      PROVE  IF HasCauses(n) THEN built[n].causes = data(n).causes ELSE data(n).causes = <<>>
    <2>1. BuiltOK(n, built[n])
        BY DEF UnmarshalInv, BuiltInv
    <2>2. CASE built[n].is = "defined"
        BY <2>1, <2>2 DEF BuiltOK, HasCauses
    <2>3. CASE built[n].is # "defined" /\ data(n).causes = <<>>
        BY <2>1, <2>3, ExternalIs DEF BuiltOK, HasCauses
    <2>4. CASE built[n].is # "defined" /\ data(n).causes # <<>>
        BY <2>1, <2>4 DEF BuiltOK, HasCauses
    <2> QED
        BY <2>2, <2>3, <2>4
<1>3. \A n \in DOMAIN built : \A i \in DOMAIN data(n).causes : data(n).causes[i] \in DOMAIN built
    BY DEF UnmarshalInv, BuiltInv
<1> QED
    BY <1>1, <1>2, <1>3, SentinelsAreRestored DEF CausesKept

(* Every node is below the root.                                           *)
LEMMA AllAreBuilt ==
    ASSUME UnmarshalInv, 1 \in DOMAIN built
    PROVE  Nodes \subseteq DOMAIN built
<1> DEFINE R == OpToRel(<, Nat)
           T == Nodes \ DOMAIN built
<1> SUFFICES ASSUME T # {} PROVE FALSE
    OBVIOUS
<1>1. 1 \in Nodes
    BY DEF UnmarshalInv, BuiltInv
<1>2. Nodes = 1 .. Len(request.data) /\ Len(request.data) \in Nat
    BY <1>1, DataTyped DEF UnmarshalInv
<1>3. T \subseteq Nat
    BY <1>2
<1>4. IsWellFoundedOn(R, Nat)
    BY NatLessThanWellFounded
<1>5. \A x, y \in Nat : y < x => <<y, x>> \in R
    BY DEF OpToRel
<1>6. PICK t : t = T
    OBVIOUS
<1> HIDE DEF R, T
<1>7. t \subseteq Nat /\ t # {}
    BY <1>3, <1>6
<1>8. PICK n \in t : \A m \in t : ~ (<<m, n>> \in R)
    BY <1>4, <1>7, WFMin
<1>9. n \in Nodes /\ n \notin DOMAIN built /\ n # 1
    BY <1>6, <1>8 DEF T
<1>10. PICK p \in Nodes : \E i \in DOMAIN data(p).causes : data(p).causes[i] = n
    <2>1. PICK r \in Requests : r = request
        BY DEF UnmarshalInv
    <2>2. Tree(r.data)
        BY RequestsAssumption
    <2>3. n \in DOMAIN r.data
        BY <1>9, <2>1 DEF Nodes
    <2>4. \E p \in DOMAIN r.data : \E i \in DOMAIN r.data[p].causes : r.data[p].causes[i] = n
        BY <1>9, <2>2, <2>3 DEF Tree
    <2> QED
        BY <2>1, <2>4 DEF Nodes, data
<1>11. p < n
    BY <1>10, DataTyped DEF UnmarshalInv
<1>12. p \in Nat /\ n \in Nat
    BY <1>2, <1>9
<1>13. <<p, n>> \in R
    BY <1>5, <1>11, <1>12
<1>14. p \in DOMAIN built
    BY <1>6, <1>8, <1>13 DEF T
<1> QED
    BY <1>9, <1>10, <1>14 DEF UnmarshalInv, BuiltInv

(* What is built did not have to fail.                                     *)
LEMMA BuiltIsNotFailing ==
    ASSUME UnmarshalInv, NEW n \in DOMAIN built
    PROVE  ~ SurelyFailing(n)
<1>1. BuiltOK(n, built[n])
    BY DEF UnmarshalInv, BuiltInv
<1>2. CASE built[n].is # "defined"
    BY <1>1, <1>2 DEF BuiltOK, Failed, SurelyFailing
<1>3. CASE built[n].is = "defined"
    <2> SUFFICES ASSUME NEW name \in DOMAIN data(n).fields, MustFail(n, name)
                 PROVE  FALSE
        BY DEF SurelyFailing
    <2>1. PICK v : v = data(n).fields[name]
        OBVIOUS
    <2>2. PICK k \in DecidingKeys(n, name) : ~ isRedacted(v) /\ Fails \in tryConvertFieldValue(k.type, v)
        BY <2>1 DEF MustFail, MayFail, OutcomesFor
    <2>3. PICK t : t = k.type
        OBVIOUS
    <2>4. tryConvertFieldValue(t, v) = {Fails}
        BY <2>2, <2>3, FailsAlone
    <2>5. n \in Defined
        BY <1>3 DEF Defined
    <2>6. ReadInto(built[n].fields, built[n].unknownFields, n, DOMAIN data(n).fields)
        BY <2>5, WhatIsDefined
    <2>7. ASSUME NEW j \in DOMAIN built[n].fields, j.name = name
          PROVE  FALSE
        <3>1. /\ j \in DecidingKeys(n, name)
              /\ \E o \in tryConvertFieldValue(j.type, v) \ {Left, Fails} : TRUE
            BY <2>1, <2>6, <2>7 DEF ReadInto
        <3>2. tryConvertFieldValue(j.type, v) \subseteq {Left, Fails}
            BY <2>1, <3>1 DEF MustFail, OutcomesFor
        <3> QED
            BY <3>1, <3>2
    <2>8. name \in DOMAIN built[n].unknownFields
        BY <2>6, <2>7 DEF ReadInto
    <2>9. MayBeUnknown(n, name)
        BY <2>6, <2>8 DEF ReadInto
    <2>10. Left \in tryConvertFieldValue(t, v)
        BY <2>1, <2>2, <2>3, <2>9, DecidingIsFor DEF MayBeUnknown
    <2> QED
        BY <2>4, <2>10, OutcomesDiffer
<1> QED
    BY <1>2, <1>3

LEMMA InternalIsExact ==
    ASSUME UnmarshalInv
    PROVE  InternalExactly
<1> SUFFICES ASSUME Done, request.decodes, Resolves(1)
             PROVE  /\ answer.err \in {"none", "ErrInternal", "ErrUnknownField"}
                    /\ answer.err = "none" => \A n \in Nodes : ~ SurelyFailing(n)
                    /\ answer.err = "ErrInternal" => \E n \in Nodes : Failing(n)
                    /\ answer.err = "ErrUnknownField" => Refusing(1)
    BY DEF InternalExactly
<1>1. Explained(1, answer.err)
    BY DEF Done, UnmarshalInv, AnswerInv
<1>2. ASSUME answer.err = "none" PROVE \A n \in Nodes : ~ SurelyFailing(n)
    <2>1. 1 \in DOMAIN built
        BY <1>1, <1>2 DEF Explained
    <2> QED
        BY <2>1, AllAreBuilt, BuiltIsNotFailing
<1> QED
    BY <1>1, <1>2 DEF Explained

-----------------------------------------------------------------------------
(* The properties                                                          *)

(* The causes of an error are those of its data, in their order, each      *)
(* built, and a registered sentinel that can be told is restored.          *)
THEOREM CausesSurvive ==
    ASSUME SentinelsNamed
    PROVE  Spec => []CausesKept
<1>1. UnmarshalInv => CausesKept
    BY CausesAreKept
<1> QED
    BY <1>1, UnmarshalSafe, PTL

(* A number read is the number written, or its rounding where a float must *)
(* do, or any just above the highest integer, for any numbers and any      *)
(* rounding.                                                               *)
THEOREM NumbersSurvive == Spec => []NumbersKept
<1>1. UnmarshalInv => NumbersKept
    BY NumbersAreKept
<1> QED
    BY <1>1, UnmarshalSafe, PTL

(* Every field of the data is in the result once and can be read from it,  *)
(* and no other is.                                                        *)
THEOREM FieldsSurvive == Spec => []NothingLost
<1>1. UnmarshalInv => NothingLost
    BY NothingIsLost
<1> QED
    BY <1>1, UnmarshalSafe, PTL

(* No value that belongs to the type of a key is left unknown or refused,  *)
(* none that does not is typed, but for the numbers that Kept lets change, *)
(* and strict mode leaves nothing unknown but what was redacted.           *)
THEOREM UnknownAsItMust == Spec => []UnknownExactly
<1>1. UnmarshalInv => UnknownExactly
    BY UnknownIsExact
<1> QED
    BY <1>1, UnmarshalSafe, PTL

(* A call fails with ErrInternal only if a value of some node may fail to  *)
(* convert, and succeeds only if none must: in any order of the fields and *)
(* the keys, strict or not.                                                *)
THEOREM InternalAsItMust == Spec => []InternalExactly
<1>1. UnmarshalInv => InternalExactly
    BY InternalIsExact
<1> QED
    BY <1>1, UnmarshalSafe, PTL
=============================================================================
