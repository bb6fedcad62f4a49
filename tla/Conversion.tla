----------------------------- MODULE Conversion -----------------------------
(***************************************************************************)
(* Fitting a decoded value to the type of a field key                      *)
(* (unmarshaler/converter.go, and NewValue in field.go).                   *)
(*                                                                         *)
(* Numbers are counted in halves, so that a fraction can be told from a    *)
(* whole number: the odd ones have a fraction.  The widths of the integer  *)
(* types and the rounding of the floating-point types are parameters.      *)
(* A conversion answers with the set of outcomes a build may produce.      *)
(***************************************************************************)
EXTENDS Integers

CONSTANTS
    Numbers,        \* the numbers there are
    Highest,        \* the largest number of each integer kind
    Round64,        \* the nearest float64 of a number
    Round32,        \* the nearest float32
    MaxFloat32,
    NaN, Infinite   \* float64 values that are no numbers

Signed   == {"int", "int8", "int16", "int32", "int64"}
Unsigned == {"uint", "uint8", "uint16", "uint32", "uint64"}
Integral == Signed \cup Unsigned

ASSUME HighestAssumption ==
    /\ Highest \in [Integral -> Nat]
    /\ \A k \in Integral : Highest[k] % 2 = 0
    /\ Highest["int"] <= Highest["int64"]
    /\ \A k \in Signed : Highest[k] <= Highest["int64"] /\ Highest[k] <= Highest["uint64"]

NotFinite == {NaN, Infinite}

Lowest(k) == IF k \in Signed THEN - Highest[k] - 2 ELSE 0

(* Rounding keeps the order, and the powers of two.                        *)
ASSUME NumbersAssumption ==
    /\ Numbers \subseteq Int
    /\ \A k \in Integral : Lowest(k) .. Highest[k] \subseteq Numbers
    /\ Round64 \in [Numbers -> Numbers] /\ Round32 \in [Numbers -> Numbers]
    /\ \A m, n \in Numbers : m <= n => Round64[m] <= Round64[n]
    /\ \A k \in Integral : Round64[Lowest(k)] = Lowest(k)
    /\ MaxFloat32 \in Nat
    /\ NaN \notin Numbers /\ Infinite \notin Numbers

(* The numbers of an integer kind.                                         *)
InKind(k, n) == n % 2 = 0 /\ Lowest(k) <= n /\ n <= Highest[k]

NumbersOf(k) == {n \in Lowest(k) .. Highest[k] : n % 2 = 0}

(* A type: its kind, whether it is declared (type UserID string), and for  *)
(* a pointer the kind of what it points to.                                *)
Type(kind)     == [kind |-> kind, declared |-> FALSE, elem |-> "none"]
Declared(kind) == [kind |-> kind, declared |-> TRUE, elem |-> "none"]
Pointer(elem)  == [kind |-> "pointer", declared |-> FALSE, elem |-> elem]

(* A value: its type and what it holds.  A map or slice holds how it gets  *)
(* on with encoding/json: "fits", "misfits" the target, or "opaque", which *)
(* cannot be written as JSON.                                              *)
Value(type, holds) == [type |-> type, holds |-> holds]

Numeric(v) == v.type \in {Type("float64"), Type("int64")} /\ v.holds \notin NotFinite

Left == [status |-> "left"]             \* no conversion: the caller keeps the value
Fails == [status |-> "fails"]           \* ErrInternal
Took(holds) == [status |-> "took", holds |-> holds]

(* The kinds that JSON is asked for; []byte is a slice to reflect.         *)
Composite == {"struct", "map", "slice", "bytes"}

Primitive == {"bool", "string"} \cup Integral \cup {"float32", "float64"}

Magnitude(n) == IF n < 0 THEN -n ELSE n

-----------------------------------------------------------------------------

(* A value of exactly the key's type, or any value for an interface type.  *)
NewValue(target, v) ==
    \/ v.type = target
    \/ target.kind = "interface" /\ v.type.kind # "nil"

(* The bounds are the constants as float64 numbers, so that of int64 is    *)
(* one more than its largest number.  What converting a number out of      *)
(* range gives depends on the machine.                                     *)
tryConvertFloat64(target, n) ==
    CASE target.kind \in Integral ->
             IF n \in NotFinite THEN {Left}
             ELSE IF n % 2 # 0 THEN {Left}
             ELSE IF n < Round64[Lowest(target.kind)] \/ n > Round64[Highest[target.kind]]
             THEN {Left}
             ELSE IF InKind(target.kind, n) THEN {Took(n)}
             ELSE {Took(m) : m \in NumbersOf(target.kind)}
      [] target.kind = "float32" ->
             IF n = NaN THEN {Took(n)}
             ELSE IF n \in NotFinite THEN {Left}
             ELSE IF Magnitude(n) > MaxFloat32 THEN {Left}
             ELSE {Took(Round32[n])}
      [] target.kind = "float64" -> {Took(n)}
      [] OTHER -> {Left}

(* The check of the sign left out: a negative number wraps.                *)
tryConvertInt64Unsigned(target, n) ==
    IF target.kind \in Unsigned /\ n < 0 THEN {Took(Highest[target.kind] + 2 + n)}
    ELSE IF target.kind \in Integral /\ ~ InKind(target.kind, n) THEN {Left}
    ELSE {Took(n)}

(* The round trip of a float32 beyond int64 may give any number back.      *)
tryConvertInt64(target, n) ==
    CASE target.kind \in Integral -> IF InKind(target.kind, n) THEN {Took(n)} ELSE {Left}
      [] target.kind = "float32" ->
             IF ~ InKind("int64", Round32[n]) THEN {Took(Round32[n]), Left}
             ELSE IF Round32[n] = n THEN {Took(n)} ELSE {Left}
      [] target.kind = "float64" -> {Took(Round64[n])}
      [] OTHER -> {Left}

tryConvertViaJSON(target, holds) ==
    IF \/ target.kind \in Composite
       \/ target.kind = "pointer" /\ target.elem = "struct"
    THEN IF holds = "fits" THEN {Took("fits")} ELSE {Fails}
    ELSE {Left}

(* A declared type of the value's kind; nil has no type.                   *)
tryConvertByUnderlyingType(target, v) ==
    IF /\ v.type.kind # "nil"
       /\ target.kind \notin Composite \cup {"pointer"}
       /\ target.kind = v.type.kind
    THEN {Took(v.holds)} ELSE {Left}

tryConvertPointer(target, v) ==
    IF /\ target.kind = "pointer" /\ target.elem \notin Composite
       /\ v.type.kind # "nil"
       /\ target.elem = v.type.kind
    THEN {Took(v.holds)} ELSE {Left}

(* The conversion for the kind of value there is.                          *)
ByKind(target, v) ==
    CASE v.type = Type("float64") -> tryConvertFloat64(target, v.holds)
      [] v.type = Type("int64") -> tryConvertInt64(target, v.holds)
      [] v.type \in {Type("map"), Type("slice")} -> tryConvertViaJSON(target, v.holds)
      [] OTHER -> {Left}

(* The attempts one after the other: the first that does not leave the     *)
(* value alone decides.  A nil interface has no type to convert to.        *)
tryConvertFieldValue(target, v) ==
    IF NewValue(target, v) THEN {Took(v.holds)}
    ELSE IF target.kind = "interface" THEN {Left}
    ELSE (ByKind(target, v) \ {Left})
         \cup (IF Left \notin ByKind(target, v) THEN {}
               ELSE IF tryConvertByUnderlyingType(target, v) # {Left}
               THEN tryConvertByUnderlyingType(target, v)
               ELSE tryConvertPointer(target, v))
=============================================================================
