--------------------------- MODULE IdentityProofs ---------------------------
(***************************************************************************)
(* Matching goes by origin, whatever is derived, wrapped, joined,          *)
(* recovered and read back, for any definitions, settings and bounds.      *)
(*                                                                         *)
(* The argument: an object wraps older ones only, so that the walks of     *)
(* errors.Is and errors.As are well-founded and their equations have       *)
(* solutions; a definition carries the root of the one it was derived      *)
(* from, so that its root is its origin (IdentityInv); and what was given  *)
(* as a cause is wrapped directly or, by a panic, one error further in.    *)
(***************************************************************************)
EXTENDS Identity, SequenceTheorems, WellFoundedInduction, TLAPS

USE IdentityAssumption

-----------------------------------------------------------------------------
(* Least members, for proofs by a least counterexample.                    *)

LEMMA Least ==
    ASSUME NEW I, I \subseteq Nat, I # {}
    PROVE  Min(I) \in I /\ \A y \in I : Min(I) <= y
<1> DEFINE R == OpToRel(<, Nat)
<1>1. IsWellFoundedOn(R, Nat)
    BY NatLessThanWellFounded
<1>2. \A x, y \in Nat : y < x => <<y, x>> \in R
    BY DEF OpToRel
<1> HIDE DEF R
<1>3. PICK x \in I : \A y \in I : ~ (<<y, x>> \in R)
    BY <1>1, WFMin
<1>4. \A y \in I : x <= y
    <2> TAKE y \in I
    <2>1. x \in Nat /\ y \in Nat /\ ~ (<<y, x>> \in R)
        BY <1>3
    <2>2. ~ (y < x)
        BY <1>2, <2>1
    <2> QED
        BY <2>1, <2>2
<1> QED
    BY <1>3, <1>4 DEF Min

-----------------------------------------------------------------------------
(* errors.Join keeps every error that is not nil, and nothing else.        *)

LEMMA JoinEquation ==
    ASSUME NEW S, NEW causes \in Seq(S)
    PROVE  \E errs :
              /\ nonNil(causes) = errs[Len(causes)]
              /\ errs[0] = <<>>
              /\ \A n \in 1 .. Len(causes) :
                     errs[n] = IF causes[n] = Nil THEN errs[n - 1]
                               ELSE Append(errs[n - 1], causes[n])
<1> DEFINE N          == Len(causes)
           step(f, n) == IF n = 0 THEN <<>>
                         ELSE IF causes[n] = Nil THEN f[n - 1] ELSE Append(f[n - 1], causes[n])
           E(f, m)    == f = [n \in 0 .. m |-> step(f, n)]
           Bad        == {m \in 0 .. N : ~ \E f : E(f, m)}
<1>1. N \in Nat
    OBVIOUS
<1>2. Bad = {}
    <2> SUFFICES ASSUME Bad # {} PROVE FALSE
        OBVIOUS
    <2>1. PICK m \in Bad : \A y \in Bad : m <= y
        <3>1. Bad \subseteq Nat
            BY <1>1
        <3> QED
            BY <3>1, Least
    <2>2. m \in 0 .. N
        OBVIOUS
    <2>3. CASE m = 0
        <3> DEFINE f == [n \in 0 .. 0 |-> <<>>]
        <3>1. f = [n \in 0 .. 0 |-> step(f, n)]
            OBVIOUS
        <3> QED
            BY <2>3, <3>1
    <2>4. CASE m # 0
        <3>1. m - 1 \in 0 .. N /\ ~ (m <= m - 1)
            BY <2>2, <2>4, <1>1
        <3>2. PICK f : E(f, m - 1)
            <4> HIDE DEF E
            <4> QED
                BY <2>1, <3>1
        <3> DEFINE g == [n \in 0 .. m |-> IF n < m THEN f[n] ELSE step(f, m)]
        <3>3. \A n \in 0 .. m : g[n] = step(g, n)
            <4> TAKE n \in 0 .. m
            <4>1. CASE n = 0
                <5>1. 0 \in 0 .. m - 1
                    BY <2>2, <2>4
                <5>2. f[0] = step(f, 0)
                    BY <5>1, <3>2
                <5> QED
                    BY <4>1, <5>2, <2>2, <2>4
            <4>2. CASE n # 0
                <5>1. n - 1 \in 0 .. m - 1 /\ n - 1 \in 0 .. m /\ n - 1 < m
                    BY <4>2, <2>2, <2>4
                <5>2. g[n - 1] = f[n - 1]
                    BY <5>1
                <5>3. step(g, n) = step(f, n)
                    BY <5>2
                <5>4. n < m => n \in 0 .. m - 1
                    BY <2>2
                <5>5. n < m => f[n] = step(f, n)
                    BY <5>4, <3>2
                <5>6. ~ (n < m) => n = m
                    BY <2>2
                <5>7. g[n] = IF n < m THEN f[n] ELSE step(f, m)
                    OBVIOUS
                <5> HIDE DEF step, g
                <5> QED
                    BY <5>3, <5>5, <5>6, <5>7
            <4> QED
                BY <4>1, <4>2
        <3>4. g = [n \in 0 .. m |-> step(g, n)]
            <4>1. g = [n \in 0 .. m |-> g[n]]
                OBVIOUS
            <4> HIDE DEF g, step
            <4> QED
                BY <4>1, <3>3
        <3>5. E(g, m)
            BY <3>4
        <3> HIDE DEF g, E
        <3> QED
            BY <3>5
    <2> QED
        BY <2>3, <2>4
<1>3. \E f : E(f, N)
    <2>1. N \in 0 .. N
        BY <1>1
    <2> HIDE DEF E
    <2> QED
        BY <2>1, <1>2
<1> DEFINE errs == CHOOSE f : E(f, N)
<1>4. E(errs, N)
    <2> HIDE DEF E
    <2> QED
        BY <1>3
<1>5. nonNil(causes) = errs[N]
    BY DEF nonNil
<1>6. \A n \in 0 .. N : errs[n] = step(errs, n)
    <2> HIDE DEF step, errs
    <2> QED
        BY <1>4
<1> HIDE DEF errs, E
<1>7. errs[0] = <<>>
    BY <1>1, <1>6
<1>8. \A n \in 1 .. N : errs[n] = IF causes[n] = Nil THEN errs[n - 1]
                                  ELSE Append(errs[n - 1], causes[n])
    BY <1>1, <1>6
<1> QED
    BY <1>5, <1>7, <1>8

LEMMA Joined ==
    ASSUME NEW S, Nil \notin S, NEW causes \in Seq(S \cup {Nil})
    PROVE  /\ nonNil(causes) \in Seq(S)
           /\ \A i \in DOMAIN causes : causes[i] # Nil =>
                  \E j \in DOMAIN nonNil(causes) : nonNil(causes)[j] = causes[i]
<1> DEFINE N == Len(causes)
<1>1. PICK errs :
          /\ nonNil(causes) = errs[N]
          /\ errs[0] = <<>>
          /\ \A n \in 1 .. N :
                 errs[n] = IF causes[n] = Nil THEN errs[n - 1]
                           ELSE Append(errs[n - 1], causes[n])
    BY JoinEquation
<1>2. N \in Nat /\ DOMAIN causes = 1 .. N /\ \A n \in 1 .. N : causes[n] \in S \cup {Nil}
    OBVIOUS
<1> DEFINE Good(n) == /\ errs[n] \in Seq(S)
                      /\ \A i \in 1 .. n : causes[i] # Nil =>
                             \E j \in DOMAIN errs[n] : errs[n][j] = causes[i]
           Bad == {n \in 0 .. N : ~ Good(n)}
<1>3. Bad = {}
    <2> SUFFICES ASSUME Bad # {} PROVE FALSE
        OBVIOUS
    <2>1. PICK m \in Bad : \A y \in Bad : m <= y
        <3>1. Bad \subseteq Nat
            BY <1>2
        <3> QED
            BY <3>1, Least
    <2>2. m \in 0 .. N /\ ~ Good(m)
        OBVIOUS
    <2>3. Good(0)
        BY <1>1
    <2>4. m # 0
        <3> HIDE DEF Good
        <3> QED
            BY <2>2, <2>3
    <2>5. m - 1 \in 0 .. N /\ ~ (m <= m - 1)
        BY <2>2, <2>4, <1>2
    <2>6. Good(m - 1)
        <3> HIDE DEF Good
        <3> QED
            BY <2>1, <2>5
    <2>7. m \in 1 .. N /\ \A i \in 1 .. m : i \in 1 .. m - 1 \/ i = m
        BY <2>2, <2>4, <1>2
    <2>8. CASE causes[m] = Nil
        <3>1. errs[m] = errs[m - 1]
            BY <1>1, <2>7, <2>8
        <3> QED
            BY <3>1, <2>2, <2>6, <2>7, <2>8
    <2>9. CASE causes[m] # Nil
        <3>1. errs[m] = Append(errs[m - 1], causes[m]) /\ causes[m] \in S
            BY <1>1, <1>2, <2>7, <2>9
        <3> PICK p : p = errs[m - 1]
            OBVIOUS
        <3>2. p \in Seq(S)
            BY <2>6
        <3>3. errs[m] \in Seq(S) /\ DOMAIN errs[m] = 1 .. Len(p) + 1
            BY <3>1, <3>2
        <3>4. \A j \in DOMAIN p : j \in DOMAIN errs[m] /\ errs[m][j] = p[j]
            BY <3>1, <3>2
        <3>5. Len(p) + 1 \in DOMAIN errs[m] /\ errs[m][Len(p) + 1] = causes[m]
            BY <3>1, <3>2
        <3>6. ASSUME NEW i \in 1 .. m, causes[i] # Nil
              PROVE  \E j \in DOMAIN errs[m] : errs[m][j] = causes[i]
            <4>1. CASE i = m
                BY <4>1, <3>5
            <4>2. CASE i \in 1 .. m - 1
                <5>1. PICK j \in DOMAIN p : p[j] = causes[i]
                    BY <4>2, <3>6, <2>6
                <5> QED
                    BY <5>1, <3>4
            <4> QED
                BY <4>1, <4>2, <2>7
        <3> QED
            BY <3>3, <3>6, <2>2
    <2> QED
        BY <2>8, <2>9
<1>4. Good(N)
    <2> HIDE DEF Good
    <2>1. N \in 0 .. N
        BY <1>2
    <2> QED
        BY <2>1, <1>3
<1> QED
    BY <1>1, <1>2, <1>4

-----------------------------------------------------------------------------
(* The inductive invariant.                                                *)

DefinitionRecord ==
    [type : {"definition"}, def : Nat, root : Nat, kind : Kinds, noTrace : BOOLEAN,
     fields : SUBSET Keys, unwrap : {<<>>}, given : SUBSET Nat]

IsDefinition(s, o) == o \in DOMAIN s /\ s[o].type = "definition"

(* A definition is its own root, or has the root of the one definition it  *)
(* was derived from, which is a definition that is its own root.           *)
DerivedAt(s, o, r) ==
    /\ r \in DefinitionRecord
    /\ r.def = o
    /\ \/ r.given = {} /\ r.root = o
       \/ \E d \in 1 .. o - 1 :
              IsDefinition(s, d) /\ r.given = {d} /\ r.root = s[d].root
    /\ r.root # o => /\ r.root \in 1 .. o - 1
                     /\ IsDefinition(s, r.root) /\ s[r.root].root = r.root

(* What an error was given is wrapped by it, or by what it wraps.          *)
Wrapped(s, r, c) ==
    \E i \in DOMAIN r.unwrap :
        \/ c = r.unwrap[i]
        \/ \E j \in DOMAIN s[r.unwrap[i]].unwrap : c = s[r.unwrap[i]].unwrap[j]

(* The object r may be the o-th of s.                                      *)
GoodAt(s, o, r) ==
    /\ r.type \in Types
    /\ r.unwrap \in Seq(1 .. o - 1)
    /\ r.given \subseteq 1 .. o - 1
    /\ r.type = "definition" => DerivedAt(s, o, r)
    /\ r.type \in stackGetter => r.def \in 1 .. o - 1 /\ IsDefinition(s, r.def)
    /\ r.type # "definition" => \A c \in r.given : Wrapped(s, r, c)

Good(s) ==
    /\ s \in Seq({s[o] : o \in DOMAIN s})
    /\ \A o \in DOMAIN s : GoodAt(s, o, s[o])

IdentityInv == Good(objects)

(* An object more leaves the others as good as they were.                  *)
LEMMA Grows ==
    ASSUME NEW s, Good(s), NEW r, GoodAt(s, Len(s) + 1, r)
    PROVE  Good(Append(s, r))
<1> DEFINE S == {s[o] : o \in DOMAIN s}
           t == Append(s, r)
           T == {t[o] : o \in DOMAIN t}
           n == Len(s)
<1>1. s \in Seq(S) /\ n \in Nat /\ DOMAIN s = 1 .. n
    BY DEF Good
<1>2. /\ t \in Seq(S \cup {r}) /\ DOMAIN t = 1 .. n + 1
      /\ \A o \in 1 .. n : t[o] = s[o]
      /\ t[n + 1] = r
    <2>1. PICK U : U = S \cup {r}
        OBVIOUS
    <2>2. s \in Seq(U) /\ r \in U
        BY <1>1, <2>1
    <2> HIDE DEF S
    <2> QED
        BY <2>1, <2>2, <1>1
<1>3. \A o \in 1 .. n + 1 : t[o] \in T
    BY <1>2
<1>4. t \in Seq(T)
    <2> HIDE DEF t, T, S
    <2>1. Len(t) = n + 1 /\ t = [o \in 1 .. n + 1 |-> t[o]]
        BY <1>1, <1>2
    <2> QED
        BY <2>1, <1>1, <1>3
<1> HIDE DEF t, T, S
<1>5. ASSUME NEW o \in 1 .. n + 1, NEW q, GoodAt(s, o, q)
      PROVE  GoodAt(t, o, q)
    <2>1. \A d \in 1 .. o - 1 : d \in 1 .. n /\ t[d] = s[d] /\ (IsDefinition(t, d) <=> IsDefinition(s, d))
        BY <1>1, <1>2 DEF IsDefinition
    <2>2. q.type = "definition" => DerivedAt(t, o, q)
        BY <2>1, <1>5 DEF GoodAt, DerivedAt
    <2>3. q.type \in stackGetter => q.def \in 1 .. o - 1 /\ IsDefinition(t, q.def)
        BY <2>1, <1>5 DEF GoodAt
    <2>4. q.type # "definition" => \A c \in q.given : Wrapped(t, q, c)
        <3>1. \A i \in DOMAIN q.unwrap : q.unwrap[i] \in 1 .. o - 1
            BY <1>5 DEF GoodAt
        <3>2. \A i \in DOMAIN q.unwrap : t[q.unwrap[i]] = s[q.unwrap[i]]
            BY <3>1, <2>1
        <3>3. \A c : Wrapped(s, q, c) => Wrapped(t, q, c)
            BY <3>2 DEF Wrapped
        <3> QED
            BY <3>3, <1>5 DEF GoodAt
    <2> QED
        BY <2>2, <2>3, <2>4, <1>5 DEF GoodAt
<1>6. ASSUME NEW o \in DOMAIN t
      PROVE  GoodAt(t, o, t[o])
    <2>1. CASE o \in 1 .. n
        <3>1. GoodAt(s, o, s[o])
            BY <2>1, <1>1 DEF Good
        <3> QED
            BY <3>1, <1>5, <1>2, <2>1
    <2>2. CASE o = n + 1
        BY <2>2, <1>5, <1>2, <1>1
    <2> QED
        BY <2>1, <2>2, <1>2, <1>1
<1>7. Good(t)
    BY <1>4, <1>6 DEF Good, T
<1> QED
    BY <1>7 DEF t

LEMMA Appends ==
    ASSUME IdentityInv, NEW r, GoodAt(objects, Self, r), Make(r)
    PROVE  IdentityInv'
<1>1. Good(Append(objects, r))
    BY Grows DEF IdentityInv, Self
<1> QED
    BY <1>1 DEF IdentityInv, Make

(* What the invariant says of the objects there are.                       *)
LEMMA Older ==
    ASSUME IdentityInv
    PROVE  /\ Len(objects) \in Nat /\ Objects = 1 .. Len(objects)
           /\ Self \in Nat /\ Objects = 1 .. Self - 1
           /\ \A o \in Objects : GoodAt(objects, o, objects[o])
           /\ \A d \in Definitions : d \in Objects /\ DerivedAt(objects, d, objects[d])
           /\ \A d : d \in Definitions <=> IsDefinition(objects, d)
           /\ Nil \notin Objects /\ Nothing \notin Objects
<1>1. Len(objects) \in Nat /\ Objects = 1 .. Len(objects)
    BY DEF IdentityInv, Good, Objects
<1>2. \A o \in Objects : GoodAt(objects, o, objects[o])
    BY DEF IdentityInv, Good, Objects
<1>3. \A d : d \in Definitions <=> IsDefinition(objects, d)
    BY DEF Definitions, IsDefinition, Objects
<1>4. \A d \in Definitions : d \in Objects /\ DerivedAt(objects, d, objects[d])
    BY <1>2 DEF Definitions, GoodAt
<1>5. Self \in Nat /\ Objects = 1 .. Self - 1
    BY <1>1 DEF Self
<1>6. Nil \notin Objects /\ Nothing \notin Objects
    BY <1>1
<1> QED
    BY <1>1, <1>2, <1>3, <1>4, <1>5, <1>6

LEMMA ListsAreSequences ==
    ASSUME NEW S, NEW causes \in SeqOf(S, MaxCauses)
    PROVE  causes \in Seq(S) /\ ToSet(causes) \subseteq S
<1>1. PICK m \in 0 .. MaxCauses : causes \in [1 .. m -> S]
    BY DEF SeqOf
<1>2. m \in Nat
    OBVIOUS
<1>3. causes \in Seq(S)
    BY <1>1, <1>2
<1> QED
    BY <1>3 DEF ToSet

(* An error that is no definition, with what it wraps.                     *)
LEMMA ErrorIsGood ==
    ASSUME IdentityInv,
           NEW unwrap \in Seq(Objects), NEW given \in SUBSET Objects,
           \A c \in given : \E i \in DOMAIN unwrap : c = unwrap[i],
           NEW r, r.type \in Types \ {"definition"}, r.unwrap = unwrap, r.given = given,
           r.type \in stackGetter => r.def \in Definitions
    PROVE  GoodAt(objects, Self, r)
<1>1. \A c \in r.given : Wrapped(objects, r, c)
    BY DEF Wrapped
<1>2. r.type \in stackGetter => r.def \in 1 .. Self - 1 /\ IsDefinition(objects, r.def)
    BY Older
<1> QED
    BY <1>1, <1>2, Older DEF GoodAt

(* Make, of an error of that kind.                                         *)
LEMMA ErrorAppends ==
    ASSUME IdentityInv,
           NEW type \in {"error", "foreign", "panic"}, NEW d, type = "error" => d \in Definitions,
           NEW unwrap \in Seq(Objects), NEW given \in SUBSET Objects,
           \A c \in given : \E i \in DOMAIN unwrap : c = unwrap[i]
    PROVE  GoodAt(objects, Self, ErrorOf(type, d, unwrap, given))
<1> PICK r : r = ErrorOf(type, d, unwrap, given)
    OBVIOUS
<1>1. r.type = type /\ r.def = d /\ r.unwrap = unwrap /\ r.given = given
    BY DEF ErrorOf
<1>2. r.type \in Types \ {"definition"} /\ (r.type \in stackGetter => r.def \in Definitions)
    BY <1>1 DEF Types, stackGetter
<1>3. GoodAt(objects, Self, r)
    BY <1>1, <1>2, ErrorIsGood
<1> QED
    BY <1>3

(* Causes that are not nil are joined into what is wrapped.                *)
LEMMA JoinedCauses ==
    ASSUME IdentityInv, NEW causes \in Seq(Objects \cup {Nil})
    PROVE  /\ nonNil(causes) \in Seq(Objects)
           /\ ToSet(causes) \ {Nil} \in SUBSET Objects
           /\ \A c \in ToSet(causes) \ {Nil} : \E i \in DOMAIN nonNil(causes) : c = nonNil(causes)[i]
<1>1. Nil \notin Objects
    BY Older
<1>2. /\ nonNil(causes) \in Seq(Objects)
      /\ \A i \in DOMAIN causes : causes[i] # Nil =>
             \E j \in DOMAIN nonNil(causes) : nonNil(causes)[j] = causes[i]
    BY <1>1, Joined
<1>3. \A c \in ToSet(causes) : c \in Objects \cup {Nil} /\ \E i \in DOMAIN causes : causes[i] = c
    BY DEF ToSet
<1> QED
    BY <1>2, <1>3

LEMMA DefineGood ==
    ASSUME IdentityInv, NEW kind \in Kinds, NEW options \in Settings, Define(kind, options)
    PROVE  IdentityInv'
<1> PICK r : r = [type |-> "definition", def |-> Self, root |-> Self, kind |-> kind,
                  noTrace |-> options.noTrace, fields |-> options.fields,
                  unwrap |-> <<>>, given |-> {}]
    OBVIOUS
<1>1. Make(r)
    BY DEF Define
<1>2. options.noTrace \in BOOLEAN /\ options.fields \in SUBSET Keys /\ Self \in Nat
    BY Older
<1>3. r \in DefinitionRecord
    BY <1>2 DEF DefinitionRecord
<1>4. DerivedAt(objects, Self, r)
    BY <1>3 DEF DerivedAt
<1>5. r.type = "definition" /\ r.unwrap = <<>> /\ r.given = {}
    OBVIOUS
<1>6. <<>> \in Seq(1 .. Self - 1)
    OBVIOUS
<1>7. GoodAt(objects, Self, r)
    BY <1>4, <1>5, <1>6 DEF GoodAt, Types, stackGetter
<1> QED
    BY <1>1, <1>7, Appends

LEMMA WithOptionsGood ==
    ASSUME IdentityInv, NEW d \in Definitions, NEW options \in Settings, WithOptions(d, options)
    PROVE  IdentityInv'
<1>0. PICK r : r = [objects[d] EXCEPT !.def = Self, !.root = root(d), !.given = {d},
                                      !.noTrace = @ \/ options.noTrace,
                                      !.fields = @ \cup options.fields]
    OBVIOUS
<1>1. Make(r)
    BY <1>0 DEF WithOptions
<1>2. options.noTrace \in BOOLEAN /\ options.fields \in SUBSET Keys /\ Self \in Nat
    BY Older
<1>3. /\ objects[d] \in DefinitionRecord /\ d \in 1 .. Self - 1
      /\ IsDefinition(objects, d) /\ DerivedAt(objects, d, objects[d])
    BY Older DEF DerivedAt
<1>4. /\ r \in DefinitionRecord
      /\ r.def = Self /\ r.root = objects[d].root /\ r.given = {d}
    <2> PICK q \in DefinitionRecord : q = objects[d]
        BY <1>3
    <2> PICK b \in BOOLEAN : b = (q.noTrace \/ options.noTrace)
        OBVIOUS
    <2> PICK f \in SUBSET Keys : f = q.fields \cup options.fields
        BY <1>2 DEF DefinitionRecord
    <2>1. r = [q EXCEPT !.def = Self, !.root = q.root, !.given = {d},
                        !.noTrace = b, !.fields = f]
        BY <1>0 DEF root
    <2>2. d \in Nat
        BY <1>2, <1>3
    <2> QED
        BY <2>1, <2>2, <1>2 DEF DefinitionRecord
<1>5. /\ r.root \in 1 .. Self - 1 /\ IsDefinition(objects, r.root)
      /\ objects[r.root].root = r.root
    <2>1. CASE objects[d].root = d
        BY <2>1, <1>3, <1>4
    <2>2. CASE objects[d].root # d
        <3>1. /\ objects[d].root \in 1 .. d - 1 /\ IsDefinition(objects, objects[d].root)
              /\ objects[objects[d].root].root = objects[d].root
            BY <2>2, <1>3 DEF DerivedAt
        <3> QED
            BY <3>1, <1>2, <1>3, <1>4
    <2> QED
        BY <2>1, <2>2
<1>6. DerivedAt(objects, Self, r)
    BY <1>3, <1>4, <1>5 DEF DerivedAt
<1>7. r.type = "definition" /\ r.unwrap = <<>>
    BY <1>4 DEF DefinitionRecord
<1>8. <<>> \in Seq(1 .. Self - 1)
    OBVIOUS
<1>9. GoodAt(objects, Self, r)
    BY <1>3, <1>4, <1>6, <1>7, <1>8 DEF GoodAt, Types, stackGetter
<1> QED
    BY <1>1, <1>9, Appends

LEMMA AppendTwo ==
    ASSUME NEW s, \E S : s \in Seq(S), NEW p, NEW e
    PROVE  s \o <<p, e>> = Append(Append(s, p), e)
<1>0. PICK U : s \in Seq(U) /\ p \in U /\ e \in U
    <2>1. PICK S : s \in Seq(S)
        OBVIOUS
    <2>2. s \in Seq(S \cup {p, e})
        BY <2>1
    <2> QED
        BY <2>2
<1>1. s \o <<p, e>> \in Seq(U) /\ Append(Append(s, p), e) \in Seq(U)
    BY <1>0
<1>2. Len(s \o <<p, e>>) = Len(s) + 2 /\ Len(Append(Append(s, p), e)) = Len(s) + 2
    BY <1>0
<1>3. \A i \in 1 .. Len(s) + 2 : (s \o <<p, e>>)[i] = Append(Append(s, p), e)[i]
    BY <1>0
<1> QED
    BY <1>1, <1>2, <1>3, SeqEqual

LEMMA GrowsTwice ==
    ASSUME NEW s, Good(s), NEW p, GoodAt(s, Len(s) + 1, p),
           NEW e, GoodAt(Append(s, p), Len(Append(s, p)) + 1, e)
    PROVE  Good(s \o <<p, e>>)
<1>1. Good(Append(Append(s, p), e))
    BY Grows
<1>2. \E S : s \in Seq(S)
    BY DEF Good
<1>3. s \o <<p, e>> = Append(Append(s, p), e)
    BY <1>2, AppendTwo
<1> QED
    BY <1>1, <1>3

LEMMA RecoverGood ==
    ASSUME IdentityInv, NEW d \in Definitions, NEW value \in Objects \cup {Nil}, Recover(d, value)
    PROVE  IdentityInv'
<1> PICK p, e : /\ p = ErrorOf("panic", Nothing, nonNil(<<value>>), {value} \ {Nil})
                /\ e = ErrorOf("error", d, <<Self>>, {value} \ {Nil})
    OBVIOUS
<1>1. objects' = objects \o <<p, e>>
    BY DEF Recover
<1>2. PICK causes : causes = <<value>>
    OBVIOUS
<1>3. causes \in Seq(Objects \cup {Nil}) /\ DOMAIN causes = {1} /\ causes[1] = value
    BY <1>2
<1>4. ToSet(causes) = {value}
    BY <1>3 DEF ToSet
<1>5. /\ nonNil(causes) \in Seq(Objects)
      /\ {value} \ {Nil} \in SUBSET Objects
      /\ \A c \in {value} \ {Nil} : \E i \in DOMAIN nonNil(causes) : c = nonNil(causes)[i]
    BY <1>3, <1>4, JoinedCauses
<1>6. GoodAt(objects, Self, p)
    BY <1>2, <1>5, ErrorAppends
<1> PICK s : s = Append(objects, p)
    OBVIOUS
<1>7. Good(s)
    BY <1>6, Grows DEF IdentityInv, Self
<1>8. /\ Len(s) = Self /\ Self \in Nat
      /\ s[Self] = p /\ (\A o \in Objects : s[o] = objects[o])
      /\ DOMAIN s = 1 .. Self
    <2>1. objects \in Seq({objects[o] : o \in DOMAIN objects})
        BY DEF IdentityInv, Good
    <2> QED
        BY <2>1, Older DEF Self
<1>9. GoodAt(s, Len(s) + 1, e)
    <2> PICK u : u = <<Self>>
        OBVIOUS
    <2>1. e.type = "error" /\ e.def = d /\ e.unwrap = u /\ e.given = {value} \ {Nil}
        BY DEF ErrorOf
    <2>2. Len(s) + 1 - 1 = Self
        BY <1>8
    <2>3. u \in Seq(1 .. Self) /\ 1 \in DOMAIN u /\ u[1] = Self
        BY <1>8
    <2>4. Objects \subseteq 1 .. Self /\ \A o \in Objects : o \in 1 .. Self
        BY Older
    <2>5. e.given \subseteq 1 .. Self
        BY <2>1, <2>4, <1>5
    <2>6. d \in 1 .. Self /\ IsDefinition(s, d)
        BY <2>4, <1>8, Older DEF IsDefinition
    <2>7. p.unwrap = nonNil(causes)
        BY <1>2 DEF ErrorOf
    <2>8. s[u[1]] = p
        BY <2>3, <1>8
    <2>9. ASSUME NEW c \in e.given
          PROVE  Wrapped(s, e, c)
        <3>1. \E j \in DOMAIN p.unwrap : c = p.unwrap[j]
            BY <2>1, <2>7, <1>5
        <3>2. 1 \in DOMAIN e.unwrap /\ s[e.unwrap[1]] = p
            BY <2>1, <2>3, <2>8
        <3> QED
            BY <3>1, <3>2 DEF Wrapped
    <2> PICK n : n = Len(s) + 1
        OBVIOUS
    <2>10. n - 1 = Self
        BY <2>2
    <2>11. GoodAt(s, n, e)
        BY <2>1, <2>10, <2>3, <2>5, <2>6, <2>9 DEF GoodAt, Types
    <2> QED
        BY <2>11
<1>10. Good(objects \o <<p, e>>)
    BY <1>6, <1>9, GrowsTwice DEF IdentityInv, Self
<1> QED
    BY <1>1, <1>10 DEF IdentityInv

LEMMA UnmarshalGood ==
    ASSUME IdentityInv, NEW d \in Definitions, NEW data \in Settings,
           NEW causes \in SeqOf(Objects, MaxCauses), Unmarshal(d, data, causes)
    PROVE  IdentityInv'
<1> PICK r : r = [type |-> "unmarshaled", def |-> d, unwrap |-> causes, given |-> ToSet(causes),
                  noTrace |-> data.noTrace, fields |-> data.fields]
    OBVIOUS
<1>1. Make(r)
    BY DEF Unmarshal
<1>2. causes \in Seq(Objects) /\ ToSet(causes) \in SUBSET Objects
    BY ListsAreSequences
<1>3. \A c \in ToSet(causes) : \E i \in DOMAIN causes : c = causes[i]
    BY DEF ToSet
<1>4. r.type = "unmarshaled" /\ r.def = d /\ r.unwrap = causes /\ r.given = ToSet(causes)
    OBVIOUS
<1>5. r.type \in Types \ {"definition"} /\ r.def \in Definitions
    BY <1>4 DEF Types
<1>6. GoodAt(objects, Self, r)
    BY <1>2, <1>3, <1>4, <1>5, ErrorIsGood
<1> QED
    BY <1>1, <1>6, Appends

LEMMA IdentityStep ==
    ASSUME IdentityInv, [Next]_objects
    PROVE  IdentityInv'
<1>1. ASSUME NEW kind \in Kinds, NEW options \in Settings, Define(kind, options)
      PROVE  IdentityInv'
    BY <1>1, DefineGood
<1>2. ASSUME NEW d \in Definitions, NEW options \in Settings, WithOptions(d, options)
      PROVE  IdentityInv'
    BY <1>2, WithOptionsGood
<1>3. ASSUME NEW d \in Definitions, NewError(d)
      PROVE  IdentityInv'
    <2>1. <<>> \in Seq(Objects)
        OBVIOUS
    <2>2. GoodAt(objects, Self, ErrorOf("error", d, <<>>, {}))
        BY <2>1, ErrorAppends
    <2> QED
        BY <2>2, <1>3, Appends DEF NewError
<1>4. ASSUME NEW d \in Definitions, NEW cause \in Objects \cup {Nil}, Wrap(d, cause)
      PROVE  IdentityInv'
    <2>1. cause \in Objects
        BY <1>4 DEF Wrap
    <2>2. /\ <<cause>> \in Seq(Objects)
          /\ \A c \in {cause} : \E i \in DOMAIN <<cause>> : c = <<cause>>[i]
        BY <2>1
    <2>3. GoodAt(objects, Self, ErrorOf("error", d, <<cause>>, {cause}))
        BY <2>1, <2>2, ErrorAppends
    <2> QED
        BY <2>3, <1>4, Appends DEF Wrap
<1>5. ASSUME NEW d \in Definitions, NEW causes \in CauseLists, Join(d, causes)
      PROVE  IdentityInv'
    <2>1. causes \in Seq(Objects \cup {Nil})
        BY ListsAreSequences DEF CauseLists
    <2>2. GoodAt(objects, Self, ErrorOf("error", d, nonNil(causes), ToSet(causes) \ {Nil}))
        BY <2>1, JoinedCauses, ErrorAppends
    <2> QED
        BY <2>2, <1>5, Appends DEF Join
<1>6. ASSUME NEW d \in Definitions, NEW value \in Objects \cup {Nil}, Recover(d, value)
      PROVE  IdentityInv'
    BY <1>6, RecoverGood
<1>7. ASSUME NEW d \in Definitions, NEW data \in Settings,
             NEW causes \in SeqOf(Objects, MaxCauses), Unmarshal(d, data, causes)
      PROVE  IdentityInv'
    BY <1>7, UnmarshalGood
<1>8. ASSUME NEW causes \in CauseLists, ForeignError(causes)
      PROVE  IdentityInv'
    <2>1. causes \in Seq(Objects \cup {Nil})
        BY ListsAreSequences DEF CauseLists
    <2>2. GoodAt(objects, Self, ErrorOf("foreign", Nothing, nonNil(causes), ToSet(causes) \ {Nil}))
        BY <2>1, JoinedCauses, ErrorAppends
    <2> QED
        BY <2>2, <1>8, Appends DEF ForeignError
<1>9. CASE UNCHANGED objects
    BY <1>9 DEF IdentityInv
<1> QED
    BY <1>1, <1>2, <1>3, <1>4, <1>5, <1>6, <1>7, <1>8, <1>9 DEF Next

(* Definitions carry the root of what they were derived from, and what was *)
(* given as a cause is wrapped (definition.go:77-108, panic.go:44,         *)
(* error.go:129).                                                          *)
THEOREM IdentityInvariant == Spec => []IdentityInv
<1>1. Init => IdentityInv
    <2>1. ASSUME Init
          PROVE  DOMAIN objects = {} /\ objects \in Seq({objects[o] : o \in DOMAIN objects})
        BY <2>1 DEF Init
    <2> QED
        BY <2>1 DEF IdentityInv, Good
<1>2. IdentityInv /\ [Next]_objects => IdentityInv'
    BY IdentityStep
<1> QED
    BY <1>1, <1>2, PTL DEF Spec

-----------------------------------------------------------------------------
(* The walks of errors.Is and errors.As end, since objects wrap older ones *)
(* only: their equations have solutions.                                   *)

LEMMA Member ==
    ASSUME NEW S, NEW s \in Seq(S), NEW i \in DOMAIN s
    PROVE  s[i] \in S
OBVIOUS

LEMMA WrapsOlder ==
    ASSUME IdentityInv, NEW o \in Objects, NEW i \in DOMAIN objects[o].unwrap
    PROVE  objects[o].unwrap[i] \in Objects /\ objects[o].unwrap[i] \in 1 .. o - 1
<1>1. objects[o].unwrap \in Seq(1 .. o - 1)
    BY Older DEF GoodAt
<1>2. objects[o].unwrap[i] \in 1 .. o - 1
    BY <1>1, Member
<1>3. \A x \in 1 .. o - 1 : x \in Objects
    BY Older
<1> QED
    BY <1>2, <1>3

(* What is reached from an object is the least set with it that is closed  *)
(* under unwrapping.                                                       *)
LEMMA ChainEquation ==
    ASSUME IdentityInv
    PROVE  \A o \in Objects :
               chain[o] = {o} \cup UNION {chain[objects[o].unwrap[i]] : i \in DOMAIN objects[o].unwrap}
<1> DEFINE Closed(C) == \A c \in C : \A i \in DOMAIN objects[c].unwrap : objects[c].unwrap[i] \in C
           Reach(o)  == {x \in Objects : \A C \in SUBSET Objects : o \in C /\ Closed(C) => x \in C}
           step(f, o) == {o} \cup UNION {f[objects[o].unwrap[i]] : i \in DOMAIN objects[o].unwrap}
           E(f) == f = [o \in Objects |-> step(f, o)]
           f == [o \in Objects |-> Reach(o)]
<1>1. ASSUME NEW o \in Objects
      PROVE  Reach(o) = {o} \cup UNION {Reach(objects[o].unwrap[i]) : i \in DOMAIN objects[o].unwrap}
    <2> DEFINE D == {o} \cup UNION {Reach(objects[o].unwrap[i]) : i \in DOMAIN objects[o].unwrap}
    <2>1. o \in Reach(o)
        OBVIOUS
    <2>2. ASSUME NEW i \in DOMAIN objects[o].unwrap
          PROVE  Reach(objects[o].unwrap[i]) \subseteq Reach(o)
        OBVIOUS
    <2>3. D \subseteq Reach(o)
        <3> HIDE DEF Reach
        <3> QED
            BY <2>1, <2>2
    <2>4. D \in SUBSET Objects
        BY <2>3
    <2>5. Closed(D)
        <3> SUFFICES ASSUME NEW c \in D, NEW j \in DOMAIN objects[c].unwrap
                     PROVE  objects[c].unwrap[j] \in D
            OBVIOUS
        <3>1. CASE c = o
            <4>1. objects[o].unwrap[j] \in Reach(objects[o].unwrap[j])
                BY <3>1, WrapsOlder
            <4> HIDE DEF Reach
            <4> QED
                BY <4>1, <3>1
        <3>2. CASE c # o
            <4>1. PICK i \in DOMAIN objects[o].unwrap : c \in Reach(objects[o].unwrap[i])
                BY <3>2
            <4>2. objects[c].unwrap[j] \in Objects
                BY <4>1, WrapsOlder
            <4>3. objects[c].unwrap[j] \in Reach(objects[o].unwrap[i])
                BY <4>1, <4>2
            <4> HIDE DEF Reach
            <4> QED
                BY <4>3
        <3> QED
            BY <3>1, <3>2
    <2>6. o \in D
        OBVIOUS
    <2>7. Reach(o) \subseteq D
        <3> HIDE DEF D, Closed
        <3> QED
            BY <2>4, <2>5, <2>6
    <2> QED
        BY <2>3, <2>7
<1>2. \A o \in Objects : Reach(o) = step(f, o)
    <2> TAKE o \in Objects
    <2>1. \A i \in DOMAIN objects[o].unwrap : f[objects[o].unwrap[i]] = Reach(objects[o].unwrap[i])
        <3> HIDE DEF Reach
        <3> QED
            BY WrapsOlder
    <2> HIDE DEF Reach, f
    <2> QED
        BY <2>1, <1>1
<1>3. E(f)
    <2> HIDE DEF Reach, step
    <2> QED
        BY <1>2
<1>4. E(chain)
    <2>1. chain = CHOOSE g : E(g)
        BY DEF chain
    <2> HIDE DEF E, f
    <2> QED
        BY <2>1, <1>3
<1> HIDE DEF step, f
<1>5. \A o \in Objects : chain[o] = step(chain, o)
    BY <1>4
<1> QED
    BY <1>5 DEF step

LEMMA FoundEquation ==
    ASSUME IdentityInv, NEW types
    PROVE  \A o \in Objects :
               LET below == objects[o].unwrap
                   I     == {i \in DOMAIN below : As(below[i], types) # Nothing}
               IN As(o, types) = IF objects[o].type \in types THEN o
                                 ELSE IF I = {} THEN Nothing ELSE As(below[Min(I)], types)
<1> DEFINE I(f, o)    == {i \in DOMAIN objects[o].unwrap : f[objects[o].unwrap[i]] # Nothing}
           step(f, o) == IF objects[o].type \in types THEN o
                         ELSE IF I(f, o) = {} THEN Nothing ELSE f[objects[o].unwrap[Min(I(f, o))]]
           E(f, m)    == f = [o \in 1 .. m |-> step(f, o)]
           N          == Len(objects)
           Bad        == {m \in 0 .. N : ~ \E f : E(f, m)}
<1>1. N \in Nat /\ Objects = 1 .. N
    BY Older
<1>2. ASSUME NEW o \in Objects
      PROVE  \A i \in DOMAIN objects[o].unwrap :
                 objects[o].unwrap[i] \in Objects /\ objects[o].unwrap[i] \in 1 .. o - 1
    BY WrapsOlder
<1>3. ASSUME NEW f, NEW g, NEW o \in Objects, \A x \in 1 .. o - 1 : f[x] = g[x]
      PROVE  step(f, o) = step(g, o)
    <2>1. I(f, o) = I(g, o)
        BY <1>2, <1>3
    <2>2. I(f, o) # {} => Min(I(f, o)) \in I(f, o)
        <3>1. objects[o].unwrap \in Seq(1 .. o - 1)
            BY Older DEF GoodAt
        <3>2. I(f, o) \subseteq Nat
            BY <3>1
        <3> HIDE DEF I
        <3> QED
            BY <3>2, Least
    <2>3. I(f, o) # {} => f[objects[o].unwrap[Min(I(f, o))]] = g[objects[o].unwrap[Min(I(f, o))]]
        BY <2>2, <1>2, <1>3
    <2> HIDE DEF I
    <2> QED
        BY <2>1, <2>3
<1> HIDE DEF I, step
<1>4. Bad = {}
    <2> SUFFICES ASSUME Bad # {} PROVE FALSE
        OBVIOUS
    <2>1. PICK m \in Bad : \A y \in Bad : m <= y
        <3>1. Bad \subseteq Nat
            BY <1>1
        <3> QED
            BY <3>1, Least
    <2>2. m \in 0 .. N
        OBVIOUS
    <2>3. CASE m = 0
        <3> DEFINE f == [o \in 1 .. 0 |-> o]
        <3>1. f = [o \in 1 .. 0 |-> step(f, o)]
            OBVIOUS
        <3> QED
            BY <2>3, <3>1
    <2>4. CASE m # 0
        <3>1. m - 1 \in 0 .. N /\ ~ (m <= m - 1) /\ m \in Objects
            BY <2>2, <2>4, <1>1
        <3>2. PICK f : E(f, m - 1)
            <4> HIDE DEF E
            <4> QED
                BY <2>1, <3>1
        <3> DEFINE g == [o \in 1 .. m |-> IF o < m THEN f[o] ELSE step(f, m)]
        <3>3. \A o \in 1 .. m : g[o] = step(g, o)
            <4> TAKE o \in 1 .. m
            <4>1. \A x \in 1 .. o - 1 : x \in 1 .. m /\ x < m
                BY <2>2
            <4>2. \A x \in 1 .. o - 1 : f[x] = g[x]
                BY <4>1
            <4>3. o \in Objects
                BY <2>2, <1>1
            <4>4. step(f, o) = step(g, o)
                BY <4>2, <4>3, <1>3
            <4>5. CASE o < m
                <5>1. o \in 1 .. m - 1
                    BY <4>5, <2>2
                <5>2. f[o] = step(f, o)
                    BY <5>1, <3>2
                <5> QED
                    BY <5>2, <4>4, <4>5
            <4>6. CASE ~ (o < m)
                <5>1. o = m
                    BY <4>6, <2>2
                <5>2. g[o] = step(f, m)
                    BY <4>6
                <5> HIDE DEF g
                <5> QED
                    BY <5>1, <5>2, <4>4
            <4> QED
                BY <4>5, <4>6
        <3>4. g = [o \in 1 .. m |-> step(g, o)]
            <4>1. g = [o \in 1 .. m |-> g[o]]
                OBVIOUS
            <4> HIDE DEF g
            <4> QED
                BY <4>1, <3>3
        <3>5. E(g, m)
            BY <3>4
        <3> HIDE DEF g, E
        <3> QED
            BY <3>5
    <2> QED
        BY <2>3, <2>4
<1>5. \E f : E(f, N)
    <2>1. N \in 0 .. N
        BY <1>1
    <2> HIDE DEF E
    <2> QED
        BY <2>1, <1>4
<1> DEFINE W(f) == f = [o \in Objects |-> step(f, o)]
<1>6. W(found(types))
    <2>1. \E f : W(f)
        BY <1>1, <1>5
    <2>2. found(types) = CHOOSE f : W(f)
        BY DEF found, I, step
    <2> HIDE DEF W
    <2> QED
        BY <2>1, <2>2
<1>7. \A o \in Objects : found(types)[o] = step(found(types), o)
    BY <1>6
<1> QED
    BY <1>7 DEF As, I, step

-----------------------------------------------------------------------------
(* What the walks find.                                                    *)

LEMMA ChainOf ==
    ASSUME IdentityInv, NEW e \in Objects
    PROVE  /\ e \in chain[e]
           /\ chain[e] \subseteq Objects
           /\ \A i \in DOMAIN objects[e].unwrap : chain[objects[e].unwrap[i]] \subseteq chain[e]
           /\ objects[e].unwrap = <<>> => chain[e] = {e}
<1>1. \A o \in Objects :
          chain[o] = {o} \cup UNION {chain[objects[o].unwrap[i]] : i \in DOMAIN objects[o].unwrap}
    BY ChainEquation
<1>2. e \in chain[e]
    BY <1>1
<1>3. \A i \in DOMAIN objects[e].unwrap : chain[objects[e].unwrap[i]] \subseteq chain[e]
    BY <1>1
<1>4. objects[e].unwrap = <<>> => chain[e] = {e}
    BY <1>1
<1> DEFINE Bad == {o \in Objects : ~ (chain[o] \subseteq Objects)}
<1>5. Bad = {}
    <2> SUFFICES ASSUME Bad # {} PROVE FALSE
        OBVIOUS
    <2>1. PICK m \in Bad : \A y \in Bad : m <= y
        <3>1. Bad \subseteq Nat
            BY Older
        <3> QED
            BY <3>1, Least
    <2>2. m \in Nat
        BY Older
    <2>3. ASSUME NEW i \in DOMAIN objects[m].unwrap
          PROVE  chain[objects[m].unwrap[i]] \subseteq Objects
        <3> PICK x : x = objects[m].unwrap[i]
            OBVIOUS
        <3>1. x \in Objects /\ x \in 1 .. m - 1
            BY WrapsOlder
        <3>2. ~ (m <= x)
            BY <3>1, <2>2
        <3> QED
            BY <3>1, <3>2, <2>1
    <2>4. chain[m] \subseteq Objects
        BY <1>1, <2>3
    <2> QED
        BY <2>4
<1> QED
    BY <1>2, <1>3, <1>4, <1>5

(* errors.As answers the error itself, or one in its chain of a type asked *)
(* for, or nothing.                                                        *)
LEMMA AsFinds ==
    ASSUME IdentityInv, NEW types, NEW e \in Objects
    PROVE  /\ As(e, types) # Nothing =>
                  As(e, types) \in chain[e] /\ objects[As(e, types)].type \in types
           /\ objects[e].type \in types => As(e, types) = e
           /\ objects[e].type \notin types /\ objects[e].unwrap = <<>> => As(e, types) = Nothing
<1> DEFINE I(o) == {i \in DOMAIN objects[o].unwrap : As(objects[o].unwrap[i], types) # Nothing}
<1>1. \A o \in Objects :
          As(o, types) = IF objects[o].type \in types THEN o
                         ELSE IF I(o) = {} THEN Nothing ELSE As(objects[o].unwrap[Min(I(o))], types)
    BY FoundEquation
<1> DEFINE Real(o) == As(o, types) # Nothing =>
                          As(o, types) \in chain[o] /\ objects[As(o, types)].type \in types
           Bad     == {o \in Objects : ~ Real(o)}
<1>2. Bad = {}
    <2> SUFFICES ASSUME Bad # {} PROVE FALSE
        OBVIOUS
    <2>1. PICK m \in Bad : \A y \in Bad : m <= y
        <3>1. Bad \subseteq Nat
            BY Older
        <3> QED
            BY <3>1, Least
    <2>2. m \in Objects /\ m \in Nat
        BY Older
    <2>3. objects[m].type \notin types
        <3>1. objects[m].type \in types => As(m, types) = m
            BY <1>1, <2>2
        <3>2. objects[m].type \in types => Real(m)
            BY <3>1, ChainOf, <2>2
        <3> QED
            BY <3>2
    <2>4. I(m) # {}
        <3>1. I(m) = {} => As(m, types) = Nothing
            <4> HIDE DEF I
            <4> QED
                BY <1>1, <2>2, <2>3
        <3>2. ~ Real(m)
            OBVIOUS
        <3> HIDE DEF I
        <3> QED
            BY <3>1, <3>2
    <2>5. Min(I(m)) \in I(m)
        <3>1. objects[m].unwrap \in Seq(1 .. m - 1)
            BY Older DEF GoodAt
        <3>2. I(m) \subseteq Nat
            BY <3>1
        <3> HIDE DEF I
        <3> QED
            BY <3>2, <2>4, Least
    <2> PICK i \in DOMAIN objects[m].unwrap : i = Min(I(m))
        BY <2>5
    <2> PICK x : x = objects[m].unwrap[i]
        OBVIOUS
    <2>6. As(m, types) = As(x, types)
        <3> HIDE DEF I
        <3> QED
            BY <1>1, <2>2, <2>3, <2>4
    <2>7. x \in Objects /\ x \in 1 .. m - 1
        BY WrapsOlder
    <2>8. ~ (m <= x)
        BY <2>7, <2>2
    <2>9. Real(x)
        <3> HIDE DEF Real
        <3> QED
            BY <2>1, <2>7, <2>8
    <2>10. chain[x] \subseteq chain[m]
        <3>1. \A j \in DOMAIN objects[m].unwrap : chain[objects[m].unwrap[j]] \subseteq chain[m]
            BY <2>2, ChainOf
        <3> QED
            BY <3>1
    <2>11. Real(m)
        BY <2>6, <2>9, <2>10
    <2> HIDE DEF Real
    <2> QED
        BY <2>11
<1>3. Real(e)
    <2> HIDE DEF Real
    <2> QED
        BY <1>2
<1>4. objects[e].type \in types => As(e, types) = e
    BY <1>1
<1>5. objects[e].type \notin types /\ objects[e].unwrap = <<>> => As(e, types) = Nothing
    <2>1. objects[e].unwrap = <<>> => I(e) = {}
        OBVIOUS
    <2> HIDE DEF I
    <2> QED
        BY <2>1, <1>1
<1> QED
    BY <1>3, <1>4, <1>5

(* What is known of a definition.                                          *)
LEMMA DefinitionFacts ==
    ASSUME IdentityInv, NEW d \in Definitions
    PROVE  /\ d \in Objects /\ objects[d].type = "definition" /\ objects[d].unwrap = <<>>
           /\ def(d) = d
           /\ root(d) \in Definitions /\ root(root(d)) = root(d)
           /\ chain[d] = {d}
           /\ As(d, {"definition"}) = d
           /\ As(d, {"error"}) = Nothing
<1>1. d \in Objects /\ DerivedAt(objects, d, objects[d])
    BY Older
<1>2. objects[d].type = "definition" /\ objects[d].unwrap = <<>>
    BY <1>1 DEF DerivedAt, DefinitionRecord
<1>3. def(d) = d
    BY <1>1 DEF DerivedAt, def
<1>4. root(d) \in Definitions /\ root(root(d)) = root(d)
    <2>1. CASE root(d) = d
        BY <2>1
    <2>2. CASE root(d) # d
        BY <2>2, <1>1, Older DEF DerivedAt, root
    <2> QED
        BY <2>1, <2>2
<1>5. chain[d] = {d}
    BY <1>1, <1>2, ChainOf
<1>6. As(d, {"definition"}) = d
    BY <1>1, <1>2, AsFinds
<1>7. As(d, {"error"}) = Nothing
    BY <1>1, <1>2, AsFinds
<1> QED
    BY <1>1, <1>2, <1>3, <1>4, <1>5, <1>6, <1>7

(* An error of this library has a definition.                              *)
LEMMA ErrorFacts ==
    ASSUME IdentityInv, NEW o \in Objects, objects[o].type \in kindGetter
    PROVE  def(o) \in Definitions
<1>1. CASE objects[o].type = "definition"
    <2>1. o \in Definitions
        BY <1>1 DEF Definitions
    <2> QED
        BY <2>1, DefinitionFacts
<1>2. CASE objects[o].type \in stackGetter
    BY <1>2, Older DEF GoodAt, def
<1> QED
    BY <1>1, <1>2 DEF kindGetter, stackGetter

(* A definition's root is what it goes back to through everything it was   *)
(* derived from.                                                           *)
LEMMA RootsAreOrigins ==
    ASSUME IdentityInv
    PROVE  \A d \in Definitions : origin[d] = root(d)
<1> DEFINE step(f, d) == IF objects[d].given = {} THEN d ELSE f[CHOOSE p \in objects[d].given : TRUE]
           E(f)       == f = [d \in Definitions |-> step(f, d)]
           f          == [d \in Definitions |-> root(d)]
<1>1. ASSUME NEW d \in Definitions
      PROVE  \/ objects[d].given = {} /\ root(d) = d
             \/ \E p \in Definitions : /\ p \in 1 .. d - 1
                                       /\ objects[d].given = {p} /\ root(d) = root(p)
    BY Older DEF DerivedAt, root
<1>2. \A d \in Definitions : f[d] = step(f, d)
    <2> TAKE d \in Definitions
    <2>1. CASE objects[d].given = {}
        BY <2>1, <1>1
    <2>2. CASE objects[d].given # {}
        <3>1. PICK p \in Definitions : objects[d].given = {p} /\ root(d) = root(p)
            BY <2>2, <1>1
        <3>2. (CHOOSE q \in objects[d].given : TRUE) = p
            BY <3>1
        <3> QED
            BY <2>2, <3>1, <3>2
    <2> QED
        BY <2>1, <2>2
<1>3. E(f)
    <2> HIDE DEF step
    <2> QED
        BY <1>2
<1>4. E(origin)
    <2>1. origin = CHOOSE g : E(g)
        BY DEF origin
    <2> HIDE DEF E, f
    <2> QED
        BY <2>1, <1>3
<1>5. \A d \in Definitions : origin[d] = step(origin, d)
    <2> HIDE DEF step
    <2> QED
        BY <1>4
<1> DEFINE Bad == {d \in Definitions : origin[d] # root(d)}
<1>6. Bad = {}
    <2> SUFFICES ASSUME Bad # {} PROVE FALSE
        OBVIOUS
    <2>1. PICK m \in Bad : \A y \in Bad : m <= y
        <3>1. Bad \subseteq Nat
            BY Older
        <3> QED
            BY <3>1, Least
    <2>2. m \in Nat /\ m \in Definitions /\ origin[m] # root(m)
        BY Older
    <2>3. CASE objects[m].given = {}
        BY <2>2, <2>3, <1>1, <1>5
    <2>4. CASE objects[m].given # {}
        <3>1. PICK p \in Definitions : /\ p \in 1 .. m - 1
                                       /\ objects[m].given = {p} /\ root(m) = root(p)
            BY <2>2, <2>4, <1>1
        <3>2. (CHOOSE q \in objects[m].given : TRUE) = p
            BY <3>1
        <3>3. origin[m] = origin[p]
            BY <3>2, <2>2, <2>4, <1>5
        <3>4. ~ (m <= p)
            BY <3>1, <2>2
        <3>5. origin[p] = root(p)
            BY <3>4, <2>1
        <3> QED
            BY <3>1, <3>3, <3>5, <2>2
    <2> QED
        BY <2>3, <2>4
<1> QED
    BY <1>6

-----------------------------------------------------------------------------
(* What matches.                                                           *)

(* A definition is matched by what has its root.                           *)
LEMMA IsByRoot ==
    ASSUME IdentityInv, NEW o \in Objects, NEW d \in Definitions
    PROVE  o = d \/ Is(o, d) <=> objects[o].type \in kindGetter /\ root(def(o)) = root(d)
<1>1. /\ d \in Objects /\ objects[d].type = "definition" /\ def(d) = d
      /\ As(d, {"definition"}) = d /\ As(d, {"error"}) = Nothing /\ d # Nothing
    BY DefinitionFacts, Older
<1>2. \A c : definitionIs(c, d) <=> c = d \/ root(c) = root(d)
    BY <1>1 DEF definitionIs
<1>3. CASE objects[o].type = "definition"
    <2>1. def(o) = o
        BY <1>3, DefinitionFacts DEF Definitions
    <2>2. Is(o, d) <=> root(o) = root(d)
        BY <1>2, <1>3 DEF Is
    <2> QED
        BY <1>3, <2>1, <2>2 DEF kindGetter
<1>4. CASE objects[o].type = "error"
    BY <1>1, <1>4 DEF Is, definedErrorIs, kindGetter
<1>5. CASE objects[o].type = "unmarshaled"
    <2>1. Is(o, d) <=> o = d \/ definitionIs(def(o), d)
        BY <1>5 DEF Is, unmarshaledErrorIs
    <2>2. definitionIs(def(o), d) <=> root(def(o)) = root(d)
        BY <1>2
    <2> QED
        BY <1>1, <1>5, <2>1, <2>2 DEF kindGetter
<1>6. CASE objects[o].type \notin kindGetter
    BY <1>1, <1>6 DEF Is, kindGetter
<1> QED
    BY <1>3, <1>4, <1>5, <1>6 DEF kindGetter

LEMMA MatchedByRoot ==
    ASSUME IdentityInv, NEW e \in Objects, NEW d \in Definitions
    PROVE  errorsIs(e, d) <=>
               \E o \in chain[e] : objects[o].type \in kindGetter /\ root(def(o)) = root(d)
<1>1. chain[e] \subseteq Objects
    BY ChainOf
<1>2. \A o \in chain[e] :
          o = d \/ Is(o, d) <=> objects[o].type \in kindGetter /\ root(def(o)) = root(d)
    BY <1>1, IsByRoot
<1> QED
    BY <1>2 DEF errorsIs

LEMMA InvImpliesTypeOK ==
    ASSUME IdentityInv
    PROVE  IdentityTypeOK
<1> SUFFICES ASSUME NEW o \in Objects
             PROVE  /\ objects[o].type \in Types
                    /\ ToSet(objects[o].unwrap) \cup objects[o].given \subseteq 1 .. o - 1
                    /\ o \in Definitions => def(o) = o /\ root(root(o)) = root(o)
                    /\ objects[o].type \in stackGetter => def(o) \in Definitions
    BY DEF IdentityTypeOK
<1>1. objects[o].type \in Types /\ objects[o].given \subseteq 1 .. o - 1
    BY Older DEF GoodAt
<1>2. ToSet(objects[o].unwrap) \subseteq 1 .. o - 1
    BY WrapsOlder DEF ToSet
<1>3. o \in Definitions => def(o) = o /\ root(root(o)) = root(o)
    BY DefinitionFacts
<1>4. objects[o].type \in stackGetter => def(o) \in Definitions
    BY ErrorFacts DEF stackGetter, kindGetter
<1> QED
    BY <1>1, <1>2, <1>3, <1>4

LEMMA InvImpliesMatches ==
    ASSUME IdentityInv
    PROVE  MatchesByOrigin
<1>1. ASSUME NEW e \in Objects, NEW d \in Definitions
      PROVE  errorsIs(e, d) <=>
                 \E o \in chain[e] : objects[o].type \in kindGetter /\ origin[def(o)] = origin[d]
    <2>1. origin[d] = root(d)
        BY RootsAreOrigins
    <2>2. \A o \in chain[e] : objects[o].type \in kindGetter => origin[def(o)] = root(def(o))
        BY ChainOf, ErrorFacts, RootsAreOrigins
    <2> QED
        BY <2>1, <2>2, MatchedByRoot
<1> QED
    BY <1>1, InvImpliesTypeOK DEF MatchesByOrigin

LEMMA InvImpliesNoFalseMatch ==
    ASSUME IdentityInv
    PROVE  NoFalseMatch
<1>1. ASSUME NEW d \in Definitions, NEW e \in Objects, definitionIs(d, e)
      PROVE  errorsIs(e, d)
    <2>1. CASE d = e
        <3>1. e \in chain[e]
            BY ChainOf
        <3> QED
            BY <2>1, <3>1 DEF errorsIs
    <2>2. ASSUME NEW types, types \subseteq kindGetter, As(e, types) # Nothing,
                 root(d) = root(def(As(e, types)))
          PROVE  errorsIs(e, d)
        <3>1. As(e, types) \in chain[e] /\ objects[As(e, types)].type \in kindGetter
            BY <2>2, AsFinds
        <3> QED
            BY <3>1, <2>2, MatchedByRoot
    <2>3. CASE As(e, {"error"}) # Nothing /\ root(d) = root(def(As(e, {"error"})))
        <3>1. {"error"} \subseteq kindGetter
            BY DEF kindGetter
        <3> QED
            BY <3>1, <2>2, <2>3
    <2>4. CASE As(e, {"definition"}) # Nothing /\ root(d) = root(As(e, {"definition"}))
        <3>1. {"definition"} \subseteq kindGetter
            BY DEF kindGetter
        <3> PICK o : o = As(e, {"definition"})
            OBVIOUS
        <3>2. o \in chain[e] /\ objects[o].type = "definition"
            BY <2>4, AsFinds
        <3>3. o \in Definitions
            BY <3>2, ChainOf DEF Definitions
        <3>4. def(o) = o
            BY <3>3, DefinitionFacts
        <3> QED
            BY <3>1, <3>4, <2>2, <2>4
    <2> QED
        BY <1>1, <2>1, <2>3, <2>4 DEF definitionIs
<1>2. ASSUME NEW e \in Errors, NEW t \in Errors, chain[e] \cap Definitions = {}, errorsIs(e, t)
      PROVE  t \in chain[e]
    <2>1. PICK o \in chain[e] : o = t \/ Is(o, t)
        BY <1>2 DEF errorsIs
    <2>2. o \in Objects /\ o \notin Definitions /\ t \notin Definitions
        BY <1>2, ChainOf DEF Errors
    <2>3. objects[o].type # "definition"
        BY <2>2 DEF Definitions
    <2>4. Is(o, t) => o = t
        BY <2>2, <2>3 DEF Is, definedErrorIs, unmarshaledErrorIs
    <2> QED
        BY <2>1, <2>4
<1> QED
    BY <1>1, <1>2 DEF NoFalseMatch, ClaimsAreMatches, InstancesDiffer

(* What was given to an error is in its chain, with all of its own.        *)
LEMMA GivenInChain ==
    ASSUME IdentityInv, NEW e \in Errors, NEW c \in objects[e].given
    PROVE  chain[c] \subseteq chain[e]
<1>1. e \in Objects /\ objects[e].type # "definition"
    BY DEF Errors, Definitions
<1>2. Wrapped(objects, objects[e], c)
    BY <1>1, Older DEF GoodAt
<1>3. PICK i \in DOMAIN objects[e].unwrap :
          \/ c = objects[e].unwrap[i]
          \/ \E j \in DOMAIN objects[objects[e].unwrap[i]].unwrap :
                 c = objects[objects[e].unwrap[i]].unwrap[j]
    BY <1>2 DEF Wrapped
<1> PICK w : w = objects[e].unwrap[i]
    OBVIOUS
<1>4. w \in Objects
    BY <1>1, WrapsOlder
<1>5. chain[w] \subseteq chain[e]
    BY <1>1, ChainOf
<1>6. \A j \in DOMAIN objects[w].unwrap : chain[objects[w].unwrap[j]] \subseteq chain[w]
    BY <1>4, ChainOf
<1> QED
    BY <1>3, <1>5, <1>6

LEMMA InvImpliesCausesFound ==
    ASSUME IdentityInv
    PROVE  CausesStayFound
<1> SUFFICES ASSUME NEW e \in Objects, NEW c \in objects[e].given, NEW t \in Objects,
                    errorsIs(c, t)
             PROVE  errorsIs(e, t)
    BY DEF CausesStayFound
<1>1. CASE e \in Errors
    BY <1>1, GivenInChain DEF errorsIs
<1>2. CASE e \in Definitions
    <2>1. c \in Definitions /\ root(e) = root(c)
        BY <1>2, Older DEF DerivedAt, root
    <2>2. chain[c] = {c} /\ objects[c].type = "definition"
        BY <2>1, DefinitionFacts
    <2>3. chain[e] = {e} /\ objects[e].type = "definition"
        BY <1>2, DefinitionFacts
    <2>4. c = t \/ definitionIs(c, t)
        BY <2>2 DEF errorsIs, Is
    <2>5. CASE c = t
        BY <2>1, <2>3, <2>5, MatchedByRoot, DefinitionFacts, <1>2 DEF kindGetter
    <2>6. CASE c # t
        <3>1. definitionIs(e, t)
            BY <2>1, <2>4, <2>6 DEF definitionIs
        <3> QED
            BY <2>3, <3>1 DEF errorsIs, Is
    <2> QED
        BY <2>5, <2>6
<1> QED
    BY <1>1, <1>2 DEF Errors

LEMMA InvImpliesExtractors ==
    ASSUME IdentityInv
    PROVE  ExtractorsAgree
<1>1. ASSUME NEW e \in Objects, kindFrom(e) # Nothing
      PROVE  \E o \in chain[e] :
                /\ objects[o].type \in kindGetter
                /\ errorsIs(e, def(o))
                /\ kindFrom(e) = objects[def(o)].kind
                /\ fieldsFrom(e) = IF carrier(o).fields = {} THEN Nothing ELSE carrier(o).fields
                /\ \A key \in Keys : hasField(e, key) <=> key \in carrier(o).fields
    <2> PICK o : o = As(e, kindGetter)
        OBVIOUS
    <2>1. o # Nothing /\ kindFrom(e) = objects[def(o)].kind
        BY <1>1 DEF kindFrom
    <2>2. o \in chain[e] /\ objects[o].type \in kindGetter
        BY <2>1, AsFinds
    <2>3. o \in Objects
        BY <2>2, ChainOf
    <2>4. def(o) \in Definitions
        BY <2>2, <2>3, ErrorFacts
    <2>5. root(def(def(o))) = root(def(o)) /\ errorsIs(e, def(o))
        BY <2>2, <2>4, MatchedByRoot, DefinitionFacts
    <2>6. As(e, fieldsGetter) = o
        BY DEF fieldsGetter, kindGetter
    <2>7. fieldsFrom(e) = IF carrier(o).fields = {} THEN Nothing ELSE carrier(o).fields
        BY <2>1, <2>6 DEF fieldsFrom
    <2>8. \A key \in Keys : hasField(e, key) <=> key \in carrier(o).fields
        BY <2>1, <2>6 DEF hasField
    <2> QED
        BY <2>1, <2>2, <2>5, <2>7, <2>8
<1>2. ASSUME NEW e \in Objects, objects[e].type = "error"
      PROVE  stackFrom(e) = IF objects[def(e)].noTrace THEN Nothing ELSE e
    <2>1. As(e, stackGetter) = e /\ e # Nothing
        BY <1>2, AsFinds, Older DEF stackGetter
    <2>2. carrier(e) = objects[def(e)]
        BY <1>2 DEF carrier
    <2> QED
        BY <2>1, <2>2 DEF stackFrom
<1> QED
    BY <1>1, <1>2 DEF ExtractorsAgree, ExtractionMatches, StackOfOutermost

(* An error matches a definition exactly if something in its chain goes    *)
(* back to the same Define, whatever was derived, wrapped, joined,         *)
(* recovered or read back in between (definition.go:237, error.go:145,     *)
(* unmarshaler/error.go:113).                                              *)
THEOREM OriginsDecide == Spec => []MatchesByOrigin
<1>1. IdentityInv => MatchesByOrigin
    BY InvImpliesMatches
<1> QED
    BY <1>1, IdentityInvariant, PTL

(* No definition claims an error that errors.Is denies it, and no error is *)
(* taken for another of its definition (definition.go:200-217,             *)
(* error.go:145).                                                          *)
THEOREM MatchesAreReal == Spec => []NoFalseMatch
<1>1. IdentityInv => NoFalseMatch
    BY InvImpliesNoFalseMatch
<1> QED
    BY <1>1, IdentityInvariant, PTL

(* Whatever matched a cause, or the value of a panic, matches the error    *)
(* made from it (definition.go:163-197, error.go:129, panic.go:44).        *)
THEOREM NothingIsHidden == Spec => []CausesStayFound
<1>1. IdentityInv => CausesStayFound
    BY InvImpliesCausesFound
<1> QED
    BY <1>1, IdentityInvariant, PTL

(* Kind and fields are read from one error of the chain, whose definition  *)
(* is matched, and the stack from the outermost error or not at all        *)
(* (errdef.go:51-97, field.go:242).                                        *)
THEOREM OneErrorAnswers == Spec => []ExtractorsAgree
<1>1. IdentityInv => ExtractorsAgree
    BY InvImpliesExtractors
<1> QED
    BY <1>1, IdentityInvariant, PTL
=============================================================================
