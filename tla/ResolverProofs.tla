--------------------------- MODULE ResolverProofs ---------------------------
(***************************************************************************)
(* The first definition wins, for any definitions, slices and resolvers.   *)
(*                                                                         *)
(* The argument: compaction keeps the first definition that passes a test  *)
(* the first, whatever the test; and a slice that is compact up to some    *)
(* length stays as it is up to there when it is compacted again, so that   *)
(* a resolver keeps what it was given though the array is shared.          *)
(***************************************************************************)
EXTENDS Resolver, FiniteSetTheorems, SequenceTheorems, WellFoundedInduction, TLAPS

-----------------------------------------------------------------------------
(* Least members and ranks                                                 *)

LEMMA Least ==
    ASSUME NEW I, I \subseteq Nat, I # {}
    PROVE  Min(I) \in I /\ \A y \in I : Min(I) <= y
<1> DEFINE R == OpToRel(<, Nat)
<1>1. IsWellFoundedOn(R, Nat)
    BY NatLessThanWellFounded
<1>2. \A x, y \in Nat : y < x => <<y, x>> \in R
    BY DEF OpToRel
<1> HIDE DEF R
<1>3. PICK x \in I : \A y \in I : ~ (<<y, x>> \in R)
    BY <1>1, WFMin
<1>4. \A y \in I : x <= y
    <2> TAKE y \in I
    <2>1. x \in Nat /\ y \in Nat /\ ~ (<<y, x>> \in R)
        BY <1>3
    <2>2. ~ (y < x)
        BY <1>2, <2>1
    <2> QED
        BY <2>1, <2>2
<1> QED
    BY <1>3, <1>4 DEF Min

LEMMA LeastIs ==
    ASSUME NEW I, I \subseteq Nat, NEW x \in I, \A y \in I : x <= y
    PROVE  Min(I) = x
<1>1. Min(I) \in I /\ Min(I) <= x
    BY Least
<1>2. x \in Nat /\ Min(I) \in Nat /\ x <= Min(I)
    BY <1>1
<1> QED
    BY <1>1, <1>2

(* The ranks of positions count them, in their order.                      *)
LEMMA Ranks ==
    ASSUME NEW n \in Nat, NEW P, P \subseteq 1 .. n
    PROVE  /\ Cardinality(P) \in Nat /\ Cardinality(P) <= n
           /\ \A i \in P : Rank(P, i) \in 1 .. Cardinality(P)
           /\ \A i, j \in P : i < j => Rank(P, i) < Rank(P, j)
           /\ \A m \in 1 .. Cardinality(P) : \E i \in P : Rank(P, i) = m
           /\ \A i \in P : 1 .. i \subseteq P => Rank(P, i) = i
<1> DEFINE Upto(i) == {j \in P : j <= i}
           c == Cardinality(P)
<1>1. IsFiniteSet(1 .. n) /\ Cardinality(1 .. n) = n
    BY FS_Interval
<1>2. IsFiniteSet(P) /\ c \in Nat /\ c <= n
    BY <1>1, FS_Subset, FS_CardinalityType
<1>3. \A i : Upto(i) \subseteq P /\ IsFiniteSet(Upto(i)) /\ Cardinality(Upto(i)) \in Nat /\ Cardinality(Upto(i)) <= c
    <2> TAKE i
    <2>1. PICK U : U = Upto(i)
        OBVIOUS
    <2>2. U \subseteq P
        BY <2>1
    <2>3. IsFiniteSet(U) /\ Cardinality(U) \in Nat /\ Cardinality(U) <= c
        BY <1>2, <2>2, FS_Subset, FS_CardinalityType
    <2> QED
        BY <2>1, <2>2, <2>3
<1>4. \A i : Rank(P, i) = Cardinality(Upto(i))
    BY DEF Rank
<1>5. \A i \in P : Rank(P, i) \in 1 .. c
    <2> TAKE i \in P
    <2>1. PICK U : U = Upto(i)
        OBVIOUS
    <2>2. IsFiniteSet(U) /\ U # {} /\ Cardinality(U) \in Nat /\ Cardinality(U) <= c
        BY <1>3, <2>1
    <2>3. Cardinality(U) # 0
        BY <2>2, FS_EmptySet
    <2>4. Cardinality(U) \in 1 .. c
        BY <1>2, <2>2, <2>3
    <2> QED
        BY <1>4, <2>1, <2>4
<1>6. \A i, j \in P : i < j => Rank(P, i) < Rank(P, j)
    <2> SUFFICES ASSUME NEW i \in P, NEW j \in P, i < j PROVE Rank(P, i) < Rank(P, j)
        OBVIOUS
    <2>1. PICK U, V : U = Upto(i) /\ V = Upto(j)
        OBVIOUS
    <2>2. U \subseteq V /\ j \in V /\ j \notin U
        <3>1. i \in Nat /\ j \in Nat /\ \A k \in P : k \in Nat
            OBVIOUS
        <3>2. \A k \in P : k <= i => k <= j
            BY <3>1
        <3>3. j <= j /\ ~ (j <= i)
            BY <3>1
        <3> QED
            BY <2>1, <3>2, <3>3
    <2>3. IsFiniteSet(V) /\ Cardinality(V) \in Nat /\ Cardinality(U) \in Nat
        BY <1>3, <2>1
    <2>4. Cardinality(U) <= Cardinality(V) /\ Cardinality(U) # Cardinality(V)
        BY <2>2, <2>3, FS_Subset
    <2> QED
        BY <1>4, <2>1, <2>3, <2>4
<1>7. \A m \in 1 .. c : \E i \in P : Rank(P, i) = m
    <2>1. PICK f : f = [i \in P |-> Rank(P, i)]
        OBVIOUS
    <2>2. f \in [P -> 1 .. c] /\ \A i \in P : f[i] = Rank(P, i)
        BY <1>5, <2>1
    <2>3. ASSUME NEW i \in P, NEW j \in P, f[i] = f[j] PROVE i = j
        <3>1. Rank(P, i) \in Nat /\ Rank(P, j) \in Nat /\ Rank(P, i) = Rank(P, j)
            BY <1>5, <2>2, <2>3
        <3>2. ~ (i < j) /\ ~ (j < i)
            BY <1>6, <3>1
        <3> QED
            BY <3>2
    <2>4. f \in Injection(P, 1 .. c)
        BY <2>2, <2>3 DEF Injection, IsInjective
    <2>5. IsFiniteSet(1 .. c) /\ Cardinality(1 .. c) = c
        BY <1>2, FS_Interval
    <2>6. f \in Surjection(P, 1 .. c)
        BY <2>4, <2>5, FS_Injection
    <2> QED
        BY <2>2, <2>6 DEF Surjection
<1>8. \A i \in P : 1 .. i \subseteq P => Rank(P, i) = i
    <2> SUFFICES ASSUME NEW i \in P, 1 .. i \subseteq P PROVE Rank(P, i) = i
        OBVIOUS
    <2>1. Upto(i) = 1 .. i
        <3>1. \A k \in P : k \in Nat /\ k >= 1
            OBVIOUS
        <3>2. i \in Nat
            BY <3>1
        <3>3. \A k \in P : k <= i => k \in 1 .. i
            BY <3>1, <3>2
        <3>4. \A k \in 1 .. i : k \in P /\ k <= i
            BY <3>2
        <3> QED
            BY <3>3, <3>4
    <2>2. Cardinality(1 .. i) = i
        BY FS_Interval
    <2> QED
        BY <1>4, <2>1, <2>2
<1> QED
    BY <1>2, <1>5, <1>6, <1>7, <1>8

-----------------------------------------------------------------------------
(* Compaction                                                              *)

Positions(list) == {i \in DOMAIN list : i = 1 \/ list[i] # list[i - 1]}

(* What is at the positions stands at their ranks, and nothing else.       *)
LEMMA Compacted ==
    ASSUME NEW S, NEW list \in Seq(S)
    PROVE  LET c == compacted(list)
               P == Positions(list)
           IN /\ c \in Seq(S) /\ Len(c) = Cardinality(P) /\ DOMAIN c = 1 .. Len(c)
              /\ P \subseteq 1 .. Len(list) /\ Len(c) <= Len(list)
              /\ \A i \in P : Rank(P, i) \in 1 .. Len(c) /\ c[Rank(P, i)] = list[i]
              /\ \A m \in 1 .. Len(c) : \E i \in P : Rank(P, i) = m /\ c[m] = list[i]
<1>1. PICK P, c : P = Positions(list) /\ c = At(list, P)
    OBVIOUS
<1>2. c = compacted(list)
    BY <1>1 DEF compacted, Positions
<1>3. P \subseteq 1 .. Len(list) /\ Len(list) \in Nat
    BY <1>1 DEF Positions
<1>4. /\ Cardinality(P) \in Nat /\ Cardinality(P) <= Len(list)
      /\ \A i \in P : Rank(P, i) \in 1 .. Cardinality(P)
      /\ \A i, j \in P : i < j => Rank(P, i) < Rank(P, j)
      /\ \A m \in 1 .. Cardinality(P) : \E i \in P : Rank(P, i) = m
    BY <1>3, Ranks
<1>5. \A i, j \in P : Rank(P, i) = Rank(P, j) => i = j
    <2> SUFFICES ASSUME NEW i \in P, NEW j \in P, Rank(P, i) = Rank(P, j) PROVE i = j
        OBVIOUS
    <2>1. Rank(P, i) \in Nat /\ ~ (i < j) /\ ~ (j < i)
        BY <1>4
    <2> QED
        BY <1>3, <2>1
<1>6. \A m \in 1 .. Cardinality(P) : \E i \in P : Rank(P, i) = m /\ c[m] = list[i]
    <2> SUFFICES ASSUME NEW m \in 1 .. Cardinality(P)
                 PROVE  \E i \in P : Rank(P, i) = m /\ c[m] = list[i]
        OBVIOUS
    <2>1. PICK k : k = CHOOSE i \in P : Rank(P, i) = m
        OBVIOUS
    <2>2. k \in P /\ Rank(P, k) = m
        BY <1>4, <2>1
    <2>3. c[m] = list[k]
        BY <1>1, <2>1 DEF At
    <2> QED
        BY <2>2, <2>3
<1>7. \A i \in P : c[Rank(P, i)] = list[i]
    BY <1>4, <1>5, <1>6
<1>8. DOMAIN c = 1 .. Cardinality(P)
    BY <1>1 DEF At
<1>9. \A m \in 1 .. Cardinality(P) : c[m] \in S
    BY <1>3, <1>6
<1>10. c \in Seq(S) /\ Len(c) = Cardinality(P)
    <2>1. c = [m \in 1 .. Cardinality(P) |-> c[m]]
        BY <1>1 DEF At
    <2>2. c \in [1 .. Cardinality(P) -> S]
        BY <1>9, <2>1
    <2> QED
        BY <1>4, <2>2
<1> QED
    BY <1>1, <1>2, <1>3, <1>4, <1>6, <1>7, <1>8, <1>10

(* The first element that is in a set.                                     *)
FirstIn(list, A) ==
    LET I == {i \in DOMAIN list : list[i] \in A} IN IF I = {} THEN Nil ELSE list[Min(I)]

LEMMA FirstIs ==
    ASSUME NEW S, NEW list \in Seq(S), NEW A, NEW i \in DOMAIN list, list[i] \in A,
           \A j \in DOMAIN list : j < i => list[j] \notin A
    PROVE  FirstIn(list, A) = list[i]
<1>1. PICK I : I = {j \in DOMAIN list : list[j] \in A}
    OBVIOUS
<1>2. DOMAIN list \subseteq Nat
    BY LenProperties
<1>3. I \subseteq Nat /\ i \in I
    BY <1>1, <1>2
<1>4. \A j \in I : i <= j
    <2> TAKE j \in I
    <2>1. j \in Nat /\ i \in Nat /\ ~ (j < i)
        BY <1>1, <1>3
    <2> QED
        BY <2>1
<1>5. Min(I) = i
    BY <1>3, <1>4, LeastIs
<1> QED
    BY <1>1, <1>3, <1>5 DEF FirstIn

(* Compaction keeps the first.                                             *)
LEMMA FirstKept ==
    ASSUME NEW S, NEW list \in Seq(S), NEW A
    PROVE  /\ FirstIn(compacted(list), A) = FirstIn(list, A)
           /\ (\E i \in DOMAIN list : list[i] \in A) =>
                  \E m \in DOMAIN compacted(list) : compacted(list)[m] \in A
<1>1. PICK c, P : c = compacted(list) /\ P = Positions(list)
    OBVIOUS
<1>2. /\ c \in Seq(S) /\ Len(c) = Cardinality(P) /\ DOMAIN c = 1 .. Len(c)
      /\ P \subseteq 1 .. Len(list) /\ Len(list) \in Nat
      /\ \A i \in P : Rank(P, i) \in 1 .. Len(c) /\ c[Rank(P, i)] = list[i]
      /\ \A m \in 1 .. Len(c) : \E i \in P : Rank(P, i) = m /\ c[m] = list[i]
    BY <1>1, Compacted
<1>3. DOMAIN list = 1 .. Len(list)
    OBVIOUS
<1>4. CASE \A i \in DOMAIN list : list[i] \notin A
    <2>1. \A m \in DOMAIN c : c[m] \notin A
        BY <1>2, <1>3, <1>4
    <2>2. FirstIn(list, A) = Nil /\ FirstIn(c, A) = Nil
        BY <1>4, <2>1 DEF FirstIn
    <2> QED
        BY <1>1, <1>4, <2>2
<1>5. CASE \E i \in DOMAIN list : list[i] \in A
    <2>1. PICK I : I = {j \in DOMAIN list : list[j] \in A}
        OBVIOUS
    <2>2. I \subseteq Nat /\ I # {}
        BY <1>2, <1>3, <1>5, <2>1
    <2>3. PICK i \in I : \A j \in I : i <= j
        BY <2>2, Least
    <2>4. i \in 1 .. Len(list) /\ list[i] \in A
        BY <1>3, <2>1, <2>3
    <2>5. \A j \in DOMAIN list : j < i => list[j] \notin A
        <3> SUFFICES ASSUME NEW j \in DOMAIN list, j < i, list[j] \in A PROVE FALSE
            OBVIOUS
        <3>1. j \in I /\ j \in Nat /\ i \in Nat
            BY <2>1, <2>2, <2>3
        <3> QED
            BY <2>3, <3>1
    <2>6. i \in P
        <3>1. i # 1 => i - 1 \in DOMAIN list /\ i - 1 < i
            BY <1>2, <1>3, <2>4
        <3> QED
            BY <1>1, <1>3, <2>4, <2>5, <3>1 DEF Positions
    <2>7. PICK m : m = Rank(P, i)
        OBVIOUS
    <2>8. m \in DOMAIN c /\ c[m] = list[i]
        BY <1>2, <2>6, <2>7
    <2>9. \A k \in DOMAIN c : k < m => c[k] \notin A
        <3> SUFFICES ASSUME NEW k \in DOMAIN c, k < m PROVE c[k] \notin A
            OBVIOUS
        <3>1. PICK j \in P : Rank(P, j) = k /\ c[k] = list[j]
            BY <1>2
        <3>2. ~ (i < j) /\ j # i
            <4>1. \A a, b \in P : a < b => Rank(P, a) < Rank(P, b)
                BY <1>2, Ranks
            <4>2. k \in Nat /\ m \in Nat
                BY <1>2, <2>8
            <4>3. ~ (m < k) /\ m # k
                BY <4>2
            <4> QED
                BY <2>6, <2>7, <3>1, <4>1, <4>3
        <3>3. j < i /\ j \in DOMAIN list
            BY <1>2, <1>3, <2>4, <3>2
        <3> QED
            BY <2>5, <3>1, <3>3
    <2>10. FirstIn(list, A) = list[i]
        BY <1>3, <2>4, <2>5, FirstIs
    <2>11. FirstIn(c, A) = c[m]
        <3>1. c[m] \in A
            BY <2>4, <2>8
        <3>2. c \in Seq(S)
            BY <1>2
        <3> QED
            BY <2>8, <2>9, <3>1, <3>2, FirstIs
    <2> QED
        BY <1>1, <2>4, <2>8, <2>10, <2>11
<1> QED
    BY <1>4, <1>5

(* No neighbours are equal up to a length.                                 *)
CompactUpto(list, n) == \A m \in 2 .. n : list[m] # list[m - 1]

LEMMA CompactedIsCompact ==
    ASSUME NEW S, NEW list \in Seq(S)
    PROVE  CompactUpto(compacted(list), Len(compacted(list)))
<1>1. PICK c, P : c = compacted(list) /\ P = Positions(list)
    OBVIOUS
<1>2. /\ P \subseteq 1 .. Len(list) /\ Len(list) \in Nat /\ Len(c) \in Nat
      /\ \A i \in P : Rank(P, i) \in 1 .. Len(c) /\ c[Rank(P, i)] = list[i]
      /\ \A m \in 1 .. Len(c) : \E i \in P : Rank(P, i) = m /\ c[m] = list[i]
    BY <1>1, Compacted, LenProperties
<1>3. /\ \A i, j \in P : i < j => Rank(P, i) < Rank(P, j)
      /\ \A i \in P : Rank(P, i) \in Nat
    <2>1. \A i, j \in P : i < j => Rank(P, i) < Rank(P, j)
        BY <1>2, Ranks
    <2>2. \A i \in P : Rank(P, i) \in Nat
        BY <1>2
    <2> QED
        BY <2>1, <2>2
<1> SUFFICES ASSUME NEW m \in 2 .. Len(c), c[m] = c[m - 1] PROVE FALSE
    BY <1>1 DEF CompactUpto
<1>4. m \in 1 .. Len(c) /\ m - 1 \in 1 .. Len(c) /\ m - 1 < m /\ m \in Nat
    BY <1>2
<1>5. PICK i \in P : Rank(P, i) = m /\ c[m] = list[i]
    BY <1>2, <1>4
<1>6. PICK h \in P : Rank(P, h) = m - 1 /\ c[m - 1] = list[h]
    BY <1>2, <1>4
<1>7. h < i /\ h \in 1 .. Len(list) /\ i \in 1 .. Len(list)
    <2>1. ~ (i < h) /\ i # h
        <3>1. ~ (m < m - 1) /\ m # m - 1
            BY <1>4
        <3> QED
            BY <1>3, <1>5, <1>6, <3>1
    <2> QED
        BY <1>2, <2>1
<1>8. \A j \in P : ~ (h < j /\ j < i)
    <2> SUFFICES ASSUME NEW j \in P, h < j, j < i PROVE FALSE
        OBVIOUS
    <2>1. m - 1 < Rank(P, j) /\ Rank(P, j) < m /\ Rank(P, j) \in Nat
        BY <1>3, <1>5, <1>6
    <2> QED
        BY <1>4, <2>1
<1>9. i # 1 /\ list[i] # list[i - 1]
    BY <1>1, <1>2, <1>5, <1>7 DEF Positions
<1>10. PICK D : D = {j \in h .. i - 1 : list[j] # list[h]}
    OBVIOUS
<1>11. i - 1 \in D
    <2>1. i - 1 \in h .. i - 1
        BY <1>2, <1>7
    <2>2. list[i] = list[h]
        BY <1>5, <1>6
    <2>3. list[i - 1] # list[h]
        BY <1>9, <2>2
    <2> QED
        BY <1>10, <2>1, <2>3
<1>12. D \subseteq Nat
    BY <1>7, <1>10
<1>13. PICK j \in D : \A k \in D : j <= k
    BY <1>11, <1>12, Least
<1>14. j \in h .. i - 1 /\ list[j] # list[h] /\ j # h
    BY <1>10, <1>13
<1>15. h < j /\ j < i /\ j \in DOMAIN list /\ j # 1 /\ j - 1 \in h .. i - 1 /\ j - 1 < j
    BY <1>7, <1>14
<1>16. list[j] = list[j - 1]
    BY <1>1, <1>8, <1>15 DEF Positions
<1>17. j - 1 \in D
    BY <1>10, <1>14, <1>15, <1>16
<1> QED
    BY <1>12, <1>13, <1>15, <1>17

(* What is compact stays.                                                  *)
LEMMA PrefixKept ==
    ASSUME NEW S, NEW list \in Seq(S), NEW n \in 0 .. Len(list), CompactUpto(list, n)
    PROVE  n <= Len(compacted(list)) /\ \A i \in 1 .. n : compacted(list)[i] = list[i]
<1>1. PICK c, P : c = compacted(list) /\ P = Positions(list)
    OBVIOUS
<1>2. /\ P \subseteq 1 .. Len(list) /\ Len(list) \in Nat /\ Len(c) \in Nat
      /\ \A i \in P : Rank(P, i) \in 1 .. Len(c) /\ c[Rank(P, i)] = list[i]
    BY <1>1, Compacted, LenProperties
<1>3. 1 .. n \subseteq P
    <2> SUFFICES ASSUME NEW i \in 1 .. n PROVE i \in P
        OBVIOUS
    <2>1. i \in DOMAIN list
        BY <1>2
    <2>2. i = 1 \/ i \in 2 .. n
        BY <1>2
    <2> QED
        BY <1>1, <2>1, <2>2 DEF Positions, CompactUpto
<1>4. \A i \in 1 .. n : Rank(P, i) = i
    <2> SUFFICES ASSUME NEW i \in 1 .. n PROVE Rank(P, i) = i
        OBVIOUS
    <2>1. i \in P /\ 1 .. i \subseteq P
        BY <1>2, <1>3
    <2> QED
        BY <1>2, <2>1, Ranks
<1>5. \A i \in 1 .. n : c[i] = list[i] /\ i <= Len(c)
    BY <1>2, <1>3, <1>4
<1>6. n <= Len(c)
    <2>1. CASE n = 0
        BY <1>2, <2>1
    <2>2. CASE n # 0
        <3>1. n \in 1 .. n
            BY <1>2, <2>2
        <3> QED
            BY <1>5, <3>1
    <2> QED
        BY <2>1, <2>2
<1> QED
    BY <1>1, <1>5, <1>6

-----------------------------------------------------------------------------
(* The invariant                                                           *)

Elements == Definitions \cup {Nil}

Found ==
    [slice : [array : Nat, len : Nat], byKind : {byKind(list) : list \in Seq(Definitions)},
     given : Seq(Definitions), disturbed : BOOLEAN]

(* A resolver answers for the definitions it was given.                    *)
Holds(s, r) ==
    LET list == compacted(r.given)
    IN /\ r.byKind = byKind(list)
       /\ r.slice.array \in DOMAIN s /\ r.slice.len = Len(list)
       /\ r.slice.len <= Len(s[r.slice.array])
       /\ ~ r.disturbed => \A i \in 1 .. Len(list) : s[r.slice.array][i] = list[i]

ResolverInv ==
    /\ arrays \in Seq(Seq(Elements))
    /\ resolvers \in Seq(Found)
    /\ \A r \in Resolvers : Holds(arrays, resolvers[r])
    /\ panicked \in BOOLEAN

(* An array after compaction.                                              *)
Rest(list, old) == [i \in DOMAIN old |-> IF i <= Len(list) THEN list[i] ELSE Nil]

LEMMA RestIs ==
    ASSUME NEW old \in Seq(Elements)
    PROVE  LET list == compacted(old)
               new == Rest(list, old)
           IN /\ new \in Seq(Elements) /\ Len(new) = Len(old) /\ Len(list) <= Len(old)
              /\ list \in Seq(Elements)
              /\ \A i \in 1 .. Len(list) : new[i] = list[i]
              /\ \A n \in 0 .. Len(old) : CompactUpto(old, n) =>
                     \A i \in 1 .. n : new[i] = old[i]
<1>1. PICK list, new : list = compacted(old) /\ new = Rest(list, old)
    OBVIOUS
<1>2. list \in Seq(Elements) /\ Len(list) <= Len(old) /\ Len(old) \in Nat /\ Len(list) \in Nat
    BY <1>1, Compacted, LenProperties
<1>3. DOMAIN old = 1 .. Len(old) /\ DOMAIN list = 1 .. Len(list)
    BY <1>2
<1>4. \A i \in 1 .. Len(old) : new[i] = (IF i <= Len(list) THEN list[i] ELSE Nil)
    BY <1>1, <1>3 DEF Rest
<1>5. Nil \in Elements /\ \A i \in 1 .. Len(list) : list[i] \in Elements
    BY <1>2 DEF Elements
<1>6. \A i \in 1 .. Len(old) : new[i] \in Elements
    BY <1>2, <1>4, <1>5
<1>7. new = [i \in 1 .. Len(old) |-> new[i]]
    BY <1>1, <1>3 DEF Rest
<1>8. new \in Seq(Elements) /\ Len(new) = Len(old)
    <2>1. new \in [1 .. Len(old) -> Elements]
        BY <1>6, <1>7
    <2> QED
        BY <1>2, <2>1
<1>9. \A i \in 1 .. Len(list) : new[i] = list[i]
    BY <1>2, <1>4
<1>10. ASSUME NEW n \in 0 .. Len(old), CompactUpto(old, n)
       PROVE  \A i \in 1 .. n : new[i] = old[i]
    <2>1. n <= Len(list) /\ \A i \in 1 .. n : list[i] = old[i]
        BY <1>1, <1>10, PrefixKept
    <2> QED
        BY <1>2, <1>9, <2>1
<1> QED
    BY <1>1, <1>2, <1>8, <1>9, <1>10

(* A compact beginning of an array stays when it is compacted again.       *)
LEMMA HoldsStill ==
    ASSUME NEW s \in Seq(Seq(Elements)), NEW a \in DOMAIN s, NEW r \in Found, Holds(s, r),
           NEW t, t = [s EXCEPT ![a] = Rest(compacted(s[a]), s[a])]
    PROVE  Holds(t, r)
<1>1. PICK list, b, new : /\ list = compacted(r.given) /\ b = r.slice.array
                          /\ new = Rest(compacted(s[a]), s[a])
    OBVIOUS
<1>2. /\ list \in Seq(Definitions) /\ Len(list) \in Nat
      /\ CompactUpto(list, Len(list))
    BY <1>1, Compacted, CompactedIsCompact, LenProperties DEF Found
<1>3. /\ r.byKind = byKind(list) /\ b \in DOMAIN s /\ r.slice.len = Len(list)
      /\ Len(list) <= Len(s[b])
      /\ ~ r.disturbed => \A i \in 1 .. Len(list) : s[b][i] = list[i]
    BY <1>1 DEF Holds
<1>4. DOMAIN t = DOMAIN s /\ \A c \in DOMAIN s : t[c] = IF c = a THEN new ELSE s[c]
    BY <1>1
<1>5. CASE b # a
    <2>1. t[b] = s[b]
        BY <1>3, <1>4, <1>5
    <2> QED
        BY <1>1, <1>3, <1>4, <2>1 DEF Holds
<1>6. CASE b = a
    <2>1. s[a] \in Seq(Elements) /\ Len(s[a]) \in Nat
        OBVIOUS
    <2>2. /\ Len(new) = Len(s[a])
          /\ \A n \in 0 .. Len(s[a]) : CompactUpto(s[a], n) => \A i \in 1 .. n : new[i] = s[a][i]
        BY <1>1, <2>1, RestIs
    <2>3. t[b] = new
        BY <1>4, <1>6
    <2>4. ASSUME ~ r.disturbed
          PROVE  \A i \in 1 .. Len(list) : new[i] = list[i]
        <3>1. \A i \in 1 .. Len(list) : s[a][i] = list[i]
            BY <1>3, <1>6, <2>4
        <3>2. \A m \in 2 .. Len(list) : m \in 1 .. Len(list) /\ m - 1 \in 1 .. Len(list)
            BY <1>2
        <3>3. CompactUpto(s[a], Len(list))
            BY <1>2, <3>1, <3>2 DEF CompactUpto
        <3>4. Len(list) \in 0 .. Len(s[a])
            BY <1>2, <1>3, <1>6, <2>1
        <3> QED
            BY <2>2, <3>1, <3>3, <3>4
    <2> QED
        BY <1>1, <1>3, <1>4, <1>6, <2>2, <2>3, <2>4 DEF Holds
<1> QED
    BY <1>5, <1>6

(* A list without nil before or after compaction.                          *)
LEMMA NoNil ==
    ASSUME NEW list \in Seq(Elements), Nil \notin ToSet(compacted(list))
    PROVE  list \in Seq(Definitions)
<1>1. \A m \in DOMAIN compacted(list) : compacted(list)[m] \notin {Nil}
    BY DEF ToSet
<1>2. \A i \in DOMAIN list : list[i] \notin {Nil}
    BY <1>1, FirstKept
<1>3. \A i \in 1 .. Len(list) : list[i] \in Definitions
    BY <1>2 DEF Elements
<1> QED
    BY <1>3

-----------------------------------------------------------------------------
(* The steps                                                               *)

LEMMA InitHolds == Init => ResolverInv
<1> SUFFICES ASSUME Init PROVE ResolverInv
    OBVIOUS
<1>1. arrays = <<>> /\ resolvers = <<>> /\ panicked = FALSE
    BY DEF Init
<1>2. DOMAIN resolvers = {}
    BY <1>1
<1>3. \A S : <<>> \in Seq(S)
    OBVIOUS
<1>4. arrays \in Seq(Seq(Elements)) /\ resolvers \in Seq(Found)
    BY <1>1, <1>3
<1>5. \A r \in Resolvers : Holds(arrays, resolvers[r])
    BY <1>2 DEF Resolvers
<1> QED
    BY <1>1, <1>4, <1>5 DEF ResolverInv

LEMMA MakeSliceStep ==
    ASSUME ResolverInv, NEW list \in SeqOf(Definitions, MaxLength), MakeSlice(list)
    PROVE  ResolverInv'
<1>1. list \in Seq(Elements)
    <2>1. PICK n \in 0 .. MaxLength : list \in [1 .. n -> Definitions]
        BY DEF SeqOf
    <2>2. n \in Nat
        BY ResolverAssumption
    <2>3. list \in Seq(Definitions)
        BY <2>1, <2>2
    <2> QED
        BY <2>3, SeqMonotonic DEF Elements
<1>2. arrays' = Append(arrays, list) /\ UNCHANGED <<resolvers, panicked>>
    BY DEF MakeSlice
<1>3. arrays \in Seq(Seq(Elements))
    BY DEF ResolverInv
<1>4. /\ arrays' \in Seq(Seq(Elements)) /\ DOMAIN arrays \subseteq DOMAIN arrays'
      /\ \A a \in DOMAIN arrays : arrays'[a] = arrays[a]
    BY <1>1, <1>2, <1>3, AppendProperties, LenProperties
<1>5. \A r \in Resolvers' : Holds(arrays', resolvers'[r])
    <2> SUFFICES ASSUME NEW r \in Resolvers PROVE Holds(arrays', resolvers[r])
        BY <1>2 DEF Resolvers
    <2>1. Holds(arrays, resolvers[r])
        BY DEF ResolverInv
    <2> QED
        BY <1>4, <2>1 DEF Holds
<1> QED
    BY <1>2, <1>4, <1>5 DEF ResolverInv

(* What compaction does to the arrays, for the resolvers there are.        *)
LEMMA CompactStep ==
    ASSUME ResolverInv, NEW a \in DOMAIN arrays, Compact(a, compacted(arrays[a]))
    PROVE  /\ arrays' \in Seq(Seq(Elements)) /\ DOMAIN arrays' = DOMAIN arrays
           /\ arrays'[a] = Rest(compacted(arrays[a]), arrays[a])
           /\ \A r \in Resolvers : Holds(arrays', resolvers[r])
<1>1. arrays \in Seq(Seq(Elements)) /\ arrays[a] \in Seq(Elements)
    BY DEF ResolverInv
<1>2. arrays' = [arrays EXCEPT ![a] = Rest(compacted(arrays[a]), arrays[a])]
    BY DEF Compact, Rest
<1>3. Rest(compacted(arrays[a]), arrays[a]) \in Seq(Elements)
    BY <1>1, RestIs
<1>4. /\ arrays' \in Seq(Seq(Elements)) /\ DOMAIN arrays' = DOMAIN arrays
      /\ arrays'[a] = Rest(compacted(arrays[a]), arrays[a])
    BY <1>1, <1>2, <1>3, ExceptSeq
<1>5. ASSUME NEW r \in Resolvers
      PROVE  Holds(arrays', resolvers[r])
    <2>1. resolvers[r] \in Found /\ Holds(arrays, resolvers[r])
        <3>1. resolvers \in Seq(Found)
            BY DEF ResolverInv
        <3>2. resolvers[r] \in Found
            BY <3>1 DEF Resolvers
        <3> QED
            BY <3>2 DEF ResolverInv
    <2> QED
        BY <1>1, <1>2, <2>1, HoldsStill
<1> QED
    BY <1>4, <1>5

LEMMA NewStep ==
    ASSUME ResolverInv, NEW a \in DOMAIN arrays, New(a)
    PROVE  ResolverInv'
<1> DEFINE list == compacted(arrays[a])
<1>1. PICK given, R, old : given = arrays[a] /\ R = Resolver(a, Len(list), list) /\ old = resolvers
    OBVIOUS
<1>2. /\ Nil \notin ToSet(compacted(given)) /\ Compact(a, compacted(arrays[a]))
      /\ resolvers' = Append(old, R) /\ panicked' = panicked
    BY <1>1 DEF New
<1>3. given \in Seq(Elements)
    BY <1>1 DEF ResolverInv
<1>4. given \in Seq(Definitions)
    BY <1>2, <1>3, NoNil
<1>5. PICK L : L = compacted(given)
    OBVIOUS
<1>6. L \in Seq(Definitions) /\ Len(L) \in Nat /\ Len(L) <= Len(given)
    BY <1>4, <1>5, Compacted, LenProperties
<1>7. /\ R.slice.array = a /\ R.slice.len = Len(L) /\ R.byKind = byKind(L)
      /\ R.given = given /\ R.disturbed = FALSE
      /\ R = [slice |-> [array |-> a, len |-> Len(L)], byKind |-> byKind(L),
              given |-> given, disturbed |-> FALSE]
    BY <1>1, <1>5 DEF Resolver
<1>8. a \in Nat
    BY DEF ResolverInv
<1>9. R \in Found
    BY <1>4, <1>6, <1>7, <1>8 DEF Found
<1>10. /\ arrays' \in Seq(Seq(Elements)) /\ DOMAIN arrays' = DOMAIN arrays
       /\ arrays'[a] = Rest(compacted(arrays[a]), arrays[a])
       /\ \A r \in Resolvers : Holds(arrays', resolvers[r])
    BY <1>2, CompactStep
<1>11. arrays'[a] = Rest(L, given)
    BY <1>1, <1>5, <1>10
<1>12. Len(Rest(L, given)) = Len(given) /\ \A i \in 1 .. Len(L) : Rest(L, given)[i] = L[i]
    BY <1>3, <1>5, RestIs
<1>13. Holds(arrays', R)
    BY <1>5, <1>6, <1>7, <1>10, <1>11, <1>12 DEF Holds
<1>14. old \in Seq(Found)
    BY <1>1 DEF ResolverInv
<1>15. PICK new : new = Append(old, R)
    OBVIOUS
<1> HIDE DEF Found
<1>16. /\ new \in Seq(Found) /\ DOMAIN old = 1 .. Len(old) /\ Len(old) \in Nat
       /\ Len(new) = Len(old) + 1
       /\ \A r \in 1 .. Len(old) : new[r] = old[r]
       /\ new[Len(old) + 1] = R
    BY <1>9, <1>14, <1>15, AppendProperties, LenProperties
<1>17. DOMAIN new = 1 .. Len(old) + 1
    BY <1>16
<1>18. \A r \in DOMAIN new : Holds(arrays', new[r])
    <2> SUFFICES ASSUME NEW r \in DOMAIN new PROVE Holds(arrays', new[r])
        OBVIOUS
    <2>1. CASE r \in 1 .. Len(old)
        BY <1>1, <1>10, <1>16, <2>1 DEF Resolvers
    <2>2. CASE r = Len(old) + 1
        BY <1>13, <1>16, <2>2
    <2> QED
        BY <1>16, <1>17, <2>1, <2>2
<1>19. resolvers' = new
    BY <1>2, <1>15
<1> QED
    BY <1>2, <1>10, <1>16, <1>18, <1>19 DEF ResolverInv, Resolvers

LEMMA NewPanicsStep ==
    ASSUME ResolverInv, NEW a \in DOMAIN arrays, NewPanics(a)
    PROVE  ResolverInv'
<1>1. Compact(a, compacted(arrays[a])) /\ panicked' = TRUE /\ resolvers' = resolvers
    BY DEF NewPanics
<1>2. arrays' \in Seq(Seq(Elements)) /\ \A r \in Resolvers : Holds(arrays', resolvers[r])
    BY <1>1, CompactStep
<1> QED
    BY <1>1, <1>2 DEF ResolverInv, Resolvers

LEMMA AssignStep ==
    ASSUME ResolverInv, NEW a \in DOMAIN arrays, NEW i \in DOMAIN arrays[a], NEW d \in Definitions,
           Assign(a, i, d)
    PROVE  ResolverInv'
<1>1. PICK s, t, row, old, new : /\ s = arrays /\ t = arrays' /\ row = arrays[a]
                                 /\ old = resolvers /\ new = resolvers'
    OBVIOUS
<1>2. /\ s \in Seq(Seq(Elements)) /\ row = s[a] /\ row \in Seq(Elements) /\ a \in DOMAIN s
      /\ old \in Seq(Found) /\ i \in DOMAIN row
    BY <1>1 DEF ResolverInv
<1>3. PICK changed : changed = [row EXCEPT ![i] = d]
    OBVIOUS
<1>4. t = [s EXCEPT ![a] = changed]
    BY <1>1, <1>3 DEF Assign
<1>5. changed \in Seq(Elements) /\ Len(changed) = Len(row)
    BY <1>2, <1>3, ExceptSeq DEF Elements
<1>6. /\ t \in Seq(Seq(Elements)) /\ DOMAIN t = DOMAIN s
      /\ \A b \in DOMAIN s : t[b] = IF b = a THEN changed ELSE s[b]
    BY <1>2, <1>4, <1>5, ExceptSeq
<1>7. new = [r \in DOMAIN old |-> [old[r] EXCEPT !.disturbed = @ \/ old[r].slice.array = a]]
    BY <1>1 DEF Assign, Resolvers
<1>8. ASSUME NEW r \in DOMAIN old
      PROVE  /\ new[r] \in Found /\ Holds(t, new[r])
    <2>1. PICK q : q = old[r]
        OBVIOUS
    <2>2. q \in Found /\ Holds(s, q)
        <3>1. q \in Found
            BY <1>2, <2>1
        <3> QED
            BY <1>1, <2>1, <3>1 DEF ResolverInv, Resolvers
    <2>3. PICK p : p = [q EXCEPT !.disturbed = @ \/ q.slice.array = a]
        OBVIOUS
    <2>4. /\ p.slice = q.slice /\ p.byKind = q.byKind /\ p.given = q.given
          /\ p.disturbed = (q.disturbed \/ q.slice.array = a)
          /\ p \in Found
        BY <2>2, <2>3 DEF Found
    <2>5. Holds(t, p)
        <3>1. q.slice.array \in DOMAIN t /\ Len(t[q.slice.array]) = Len(s[q.slice.array])
            BY <1>2, <1>5, <1>6, <2>2 DEF Holds
        <3>2. q.slice.array # a => t[q.slice.array] = s[q.slice.array]
            BY <1>6, <2>2 DEF Holds
        <3> QED
            BY <2>2, <2>4, <3>1, <3>2 DEF Holds
    <2>6. new[r] = p
        BY <1>7, <2>1, <2>3
    <2> QED
        BY <2>4, <2>5, <2>6
<1> HIDE DEF Found
<1>9. DOMAIN new = DOMAIN old
    BY <1>7
<1>10. new \in Seq(Found)
    <2>1. Len(old) \in Nat /\ DOMAIN old = 1 .. Len(old)
        BY <1>2, LenProperties
    <2>2. new = [r \in 1 .. Len(old) |-> new[r]]
        BY <1>7, <1>9, <2>1
    <2>3. new \in [1 .. Len(old) -> Found]
        BY <1>8, <2>1, <2>2
    <2> QED
        BY <2>1, <2>3
<1>11. panicked' = panicked
    BY DEF Assign
<1> QED
    BY <1>1, <1>6, <1>8, <1>9, <1>10, <1>11 DEF ResolverInv, Resolvers

(* Each resolver keeps the first of what it was given, of every kind and   *)
(* in its slice, but for what its caller changes there.                    *)
THEOREM ResolversHold == Spec => []ResolverInv
<1>1. ASSUME ResolverInv, [Next]_vars
      PROVE  ResolverInv'
    <2>1. CASE UNCHANGED vars
        BY <1>1, <2>1 DEF vars, ResolverInv, Resolvers
    <2>2. CASE Next
        BY <1>1, <2>2, MakeSliceStep, NewStep, NewPanicsStep, AssignStep DEF Next
    <2> QED
        BY <1>1, <2>1, <2>2
<1> QED
    BY <1>1, InitHolds, PTL DEF Spec

-----------------------------------------------------------------------------
(* What follows                                                            *)

(* The elements of a slice nobody wrote to are those given, compacted.     *)
LEMMA SliceIsCompacted ==
    ASSUME ResolverInv, NEW r \in Resolvers
    PROVE  LET slice == resolvers[r].slice
               given == resolvers[r].given
           IN /\ given \in Seq(Definitions) /\ compacted(given) \in Seq(Definitions)
              /\ resolvers[r].byKind = byKind(compacted(given))
              /\ slice.array \in DOMAIN arrays /\ slice.len <= Len(arrays[slice.array])
              /\ ~ resolvers[r].disturbed => elements(slice) = compacted(given)
<1>1. PICK q, list : q = resolvers[r] /\ list = compacted(q.given)
    OBVIOUS
<1>2. q \in Found /\ Holds(arrays, q)
    <2>1. resolvers \in Seq(Found) /\ r \in DOMAIN resolvers
        BY DEF ResolverInv, Resolvers
    <2>2. q \in Found
        <3> HIDE DEF Found
        <3> QED
            BY <1>1, <2>1
    <2> QED
        BY <1>1, <2>2 DEF ResolverInv
<1>3. q.given \in Seq(Definitions) /\ list \in Seq(Definitions) /\ Len(list) \in Nat
    <2>1. q.given \in Seq(Definitions)
        BY <1>2 DEF Found
    <2> QED
        BY <1>1, <2>1, Compacted, LenProperties
<1>4. PICK row : row = arrays[q.slice.array]
    OBVIOUS
<1>5. /\ q.byKind = byKind(list)
      /\ q.slice.array \in DOMAIN arrays /\ q.slice.len = Len(list)
      /\ Len(list) <= Len(row)
      /\ ~ q.disturbed => \A i \in 1 .. Len(list) : row[i] = list[i]
    BY <1>1, <1>2, <1>4 DEF Holds
<1>6. row \in Seq(Elements) /\ Len(row) \in Nat
    BY <1>4, <1>5 DEF ResolverInv
<1>7. ASSUME ~ q.disturbed
      PROVE  elements(q.slice) = list
    <2>1. elements(q.slice) = SubSeq(row, 1, Len(list))
        BY <1>4, <1>5 DEF elements
    <2>2. SubSeq(row, 1, Len(list)) = [i \in 1 .. Len(list) |-> row[i]]
        BY <1>3, <1>5, <1>6
    <2>3. list = [i \in 1 .. Len(list) |-> list[i]]
        BY <1>3
    <2> QED
        BY <1>5, <1>7, <2>1, <2>2, <2>3
<1> QED
    BY <1>1, <1>3, <1>4, <1>5, <1>7

(* A resolver's slice lies within its array and, unless its caller wrote   *)
(* to it, holds definitions only (resolver.go:24, strict.go:42).           *)
THEOREM SlicesTypeCorrect == Spec => []ResolverTypeOK
<1>1. ResolverInv => ResolverTypeOK
    <2> SUFFICES ASSUME ResolverInv PROVE ResolverTypeOK
        OBVIOUS
    <2>1. ASSUME NEW a \in DOMAIN arrays
          PROVE  ToSet(arrays[a]) \subseteq Definitions \cup {Nil}
        <3>1. arrays[a] \in Seq(Elements)
            BY DEF ResolverInv
        <3> QED
            BY <3>1 DEF ToSet, Elements
    <2>2. ASSUME NEW r \in Resolvers, ~ resolvers[r].disturbed
          PROVE  ToSet(elements(resolvers[r].slice)) \subseteq Definitions
        <3>1. PICK list : list = elements(resolvers[r].slice)
            OBVIOUS
        <3>2. list \in Seq(Definitions)
            BY <2>2, <3>1, SliceIsCompacted
        <3>3. ToSet(list) \subseteq Definitions
            BY <3>2 DEF ToSet
        <3> QED
            BY <3>1, <3>3
    <2>3. panicked \in BOOLEAN
        BY DEF ResolverInv
    <2> QED
        BY <2>1, <2>2, <2>3, SliceIsCompacted DEF ResolverTypeOK
<1> QED
    BY <1>1, ResolversHold, PTL

(* The map of kinds holds the first definition of each.                    *)
LEMMA KindsFound ==
    ASSUME NEW list \in Seq(Definitions), NEW k
    PROVE  (IF k \in DOMAIN byKind(list) THEN byKind(list)[k] ELSE Nil) =
               FirstIn(list, {d \in Definitions : kind[d] = k})
<1>1. PICK A, I : /\ A = {d \in Definitions : kind[d] = k}
                  /\ I = {i \in DOMAIN list : list[i] \in A}
    OBVIOUS
<1>2. I = {i \in DOMAIN list : kind[list[i]] = k}
    BY <1>1
<1>3. k \in DOMAIN byKind(list) <=> I # {}
    BY <1>2 DEF byKind
<1>4. k \in DOMAIN byKind(list) => byKind(list)[k] = list[Min(I)]
    BY <1>2 DEF byKind
<1> QED
    BY <1>1, <1>3, <1>4 DEF FirstIn

(* Of a list of definitions, the first that passes a test is the first in  *)
(* the set of those that pass.                                             *)
LEMMA FirstOfKindIs ==
    ASSUME NEW list \in Seq(Definitions), NEW k
    PROVE  First(list, LAMBDA d : kind[d] = k) =
               FirstIn(list, {d \in Definitions : kind[d] = k})
<1>1. PICK I : I = {i \in 1 .. Len(list) : kind[list[i]] = k}
    OBVIOUS
<1>2. I = {i \in DOMAIN list : list[i] \in {d \in Definitions : kind[d] = k}}
    BY <1>1
<1>3. I # {} => Min(I) \in I /\ Min(I) # 0
    <2>1. I \subseteq 1 .. Len(list)
        BY <1>1
    <2>2. I \subseteq Nat
        BY <2>1
    <2>3. I # {} => Min(I) \in I
        BY <2>2, Least
    <2> QED
        BY <2>1, <2>3
<1>4. First(list, LAMBDA d : kind[d] = k) = IF I = {} THEN Nil ELSE list[Min(I)]
    BY <1>1, <1>3 DEF First, SelectInSeq
<1> QED
    BY <1>2, <1>4 DEF FirstIn

(* By kind and by field the first definition given wins, though the map of *)
(* kinds is built once and the slice is shared with the caller and with    *)
(* every other resolver made from it (resolver.go:24, strict.go:42-51).    *)
THEOREM TheFirstWins == Spec => []FirstWins
<1>1. ResolverInv => FirstOfKind
    <2> SUFFICES ASSUME ResolverInv, NEW r \in Resolvers, NEW k \in Kinds
                 PROVE  ResolveKind(r, k) = First(resolvers[r].given, LAMBDA d : kind[d] = k)
        BY DEF FirstOfKind
    <2>1. PICK given, A : given = resolvers[r].given /\ A = {d \in Definitions : kind[d] = k}
        OBVIOUS
    <2>2. /\ given \in Seq(Definitions) /\ compacted(given) \in Seq(Definitions)
          /\ resolvers[r].byKind = byKind(compacted(given))
        BY <2>1, SliceIsCompacted
    <2>3. ResolveKind(r, k) = FirstIn(compacted(given), A)
        BY <2>1, <2>2, KindsFound DEF ResolveKind
    <2>4. FirstIn(compacted(given), A) = FirstIn(given, A)
        BY <2>2, FirstKept
    <2>5. First(given, LAMBDA d : kind[d] = k) = FirstIn(given, A)
        BY <2>1, <2>2, FirstOfKindIs
    <2> QED
        BY <2>1, <2>3, <2>4, <2>5
<1>2. ResolverInv => FirstWithField
    <2> SUFFICES ASSUME ResolverInv, NEW r \in Resolvers, NEW key \in Keys,
                        NEW eq \in SUBSET Values, ~ resolvers[r].disturbed
                 PROVE  ResolveFieldFunc(r, key, eq) =
                            First(resolvers[r].given, LAMBDA d : field[d][key] \in eq)
        BY DEF FirstWithField
    <2>1. PICK given, A : /\ given = resolvers[r].given
                          /\ A = {d \in Definitions : field[d][key] \in eq}
        OBVIOUS
    <2>2. /\ given \in Seq(Definitions) /\ compacted(given) \in Seq(Definitions)
          /\ elements(resolvers[r].slice) = compacted(given)
        BY <2>1, SliceIsCompacted
    <2>3. ASSUME NEW list \in Seq(Definitions)
          PROVE  First(list, LAMBDA d : field[d][key] \in eq) = FirstIn(list, A)
        <3>1. PICK I : I = {i \in 1 .. Len(list) : field[list[i]][key] \in eq}
            OBVIOUS
        <3>2. I = {i \in DOMAIN list : list[i] \in A}
            BY <2>1, <3>1
        <3>3. I # {} => Min(I) \in I /\ Min(I) # 0
            <4>1. I \subseteq 1 .. Len(list)
                BY <3>1
            <4>2. I \subseteq Nat
                BY <4>1
            <4>3. I # {} => Min(I) \in I
                BY <4>2, Least
            <4> QED
                BY <4>1, <4>3
        <3>4. First(list, LAMBDA d : field[d][key] \in eq) = IF I = {} THEN Nil ELSE list[Min(I)]
            BY <3>1, <3>3 DEF First, SelectInSeq
        <3> QED
            BY <3>2, <3>4 DEF FirstIn
    <2>4. ResolveFieldFunc(r, key, eq) = FirstIn(compacted(given), A)
        <3>1. ResolveFieldFunc(r, key, eq) =
                  First(elements(resolvers[r].slice), LAMBDA d : field[d][key] \in eq)
            BY DEF ResolveFieldFunc, First
        <3>2. First(compacted(given), LAMBDA d : field[d][key] \in eq) =
                  FirstIn(compacted(given), A)
            BY <2>2, <2>3
        <3> QED
            BY <2>2, <3>1, <3>2
    <2>5. FirstIn(compacted(given), A) = FirstIn(given, A)
        BY <2>2, FirstKept
    <2>6. First(given, LAMBDA d : field[d][key] \in eq) = FirstIn(given, A)
        BY <2>2, <2>3
    <2> QED
        BY <2>1, <2>4, <2>5, <2>6
<1> QED
    BY <1>1, <1>2, ResolversHold, PTL DEF FirstWins
=============================================================================
