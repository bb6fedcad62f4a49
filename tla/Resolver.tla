------------------------------ MODULE Resolver ------------------------------
(***************************************************************************)
(* Resolvers (resolver/resolver.go, strict.go, default.go).  New takes its *)
(* definitions as a variadic slice; with defs... that is a slice the       *)
(* caller keeps, so slices and the arrays behind them are modelled apart.  *)
(* A call with the definitions written out is one on a slice of its own,   *)
(* which nobody touches again.                                             *)
(***************************************************************************)
EXTENDS Naturals, Sequences, FiniteSets, SequencesExt, FiniteSetsExt

CONSTANTS
    Definitions,
    Kinds, Keys, Values,
    kind,           \* the kind of a definition
    field,          \* the value a definition has for a key
    NotSet,         \* no value
    Nil,            \* the nil interface
    MaxSlices,      \* bound: slices callers make
    MaxLength,      \* bound: their length
    MaxResolvers    \* bound: calls of New that return

ASSUME ResolverAssumption ==
    /\ kind \in [Definitions -> Kinds]
    /\ field \in [Definitions -> [Keys -> Values \cup {NotSet}]]
    /\ Nil \notin Definitions /\ NotSet \notin Values
    /\ MaxLength \in Nat

VARIABLES
    arrays,         \* the array behind each slice
    resolvers,      \* what New returned, with the list it was given, and
                    \* whether the caller has written to its slice since
    panicked        \* some call of New has panicked

vars == <<arrays, resolvers, panicked>>

Resolvers == DOMAIN resolvers

elements(slice) == SubSeq(arrays[slice.array], 1, slice.len)

(* The elements of a list at some of its positions: the n-th of these is   *)
(* the one that has n up to it.                                            *)
Rank(positions, i) == Cardinality({j \in positions : j <= i})

At(list, positions) ==
    [n \in 1 .. Cardinality(positions) |-> list[CHOOSE i \in positions : Rank(positions, i) = n]]

(* Neighbours of one kind taken for duplicates.                            *)
compactedByKind(list) ==
    At(list, {i \in DOMAIN list : i = 1 \/ list[i] = Nil \/ list[i - 1] = Nil
                                        \/ kind[list[i]] # kind[list[i - 1]]})

(* slices.CompactFunc: of equal neighbours the first stays.                *)
compacted(list) == At(list, {i \in DOMAIN list : i = 1 \/ list[i] # list[i - 1]})

byKind(list) ==
    [k \in {kind[list[i]] : i \in DOMAIN list} |->
        list[Min({i \in DOMAIN list : kind[list[i]] = k})]]

-----------------------------------------------------------------------------
(* What resolvers answer.                                                  *)

ResolveKind(r, k) ==
    IF k \in DOMAIN resolvers[r].byKind THEN resolvers[r].byKind[k] ELSE Nil

(* eq is the set of values a caller's function accepts.                    *)
ResolveFieldFunc(r, key, eq) ==
    LET list == elements(resolvers[r].slice)
        i    == SelectInSeq(list, LAMBDA d : field[d][key] \in eq)
    IN IF i = 0 THEN Nil ELSE list[i]

ResolveField(r, key, want) == ResolveFieldFunc(r, key, {want})

OrDefault(found, default) == IF found = Nil THEN default ELSE found

-----------------------------------------------------------------------------

Init ==
    /\ arrays = <<>>
    /\ resolvers = <<>>
    /\ panicked = FALSE

MakeSlice(list) ==
    /\ Len(arrays) < MaxSlices
    /\ arrays' = Append(arrays, list)
    /\ UNCHANGED <<resolvers, panicked>>

(* What is left of the slice after compaction is filled with nil.          *)
Compact(a, list) ==
    arrays' = [arrays EXCEPT ![a] = [i \in DOMAIN @ |-> IF i <= Len(list) THEN list[i] ELSE Nil]]

Resolver(a, len, list) ==
    [slice |-> [array |-> a, len |-> len], byKind |-> byKind(list),
     given |-> arrays[a], disturbed |-> FALSE]

(* The list compacted, and the slice used as it was passed.                *)
NewUncut(a) ==
    LET list == compacted(arrays[a])
    IN /\ Len(resolvers) < MaxResolvers
       /\ Nil \notin ToSet(list)
       /\ Compact(a, list)
       /\ resolvers' = Append(resolvers, Resolver(a, Len(arrays[a]), list))
       /\ UNCHANGED panicked

New(a) ==
    LET list == compacted(arrays[a])
    IN /\ Len(resolvers) < MaxResolvers
       /\ Nil \notin ToSet(list)
       /\ Compact(a, list)
       /\ resolvers' = Append(resolvers, Resolver(a, Len(list), list))
       /\ UNCHANGED panicked

(* A nil among the definitions: the call of its method Kind panics.        *)
NewPanics(a) ==
    LET list == compacted(arrays[a])
    IN /\ Len(resolvers) < MaxResolvers
       /\ Nil \in ToSet(list)
       /\ Compact(a, list)
       /\ panicked' = TRUE
       /\ UNCHANGED resolvers

(* The caller goes on using its slice.                                     *)
Assign(a, i, d) ==
    /\ arrays' = [arrays EXCEPT ![a][i] = d]
    /\ resolvers' = [r \in Resolvers |->
           [resolvers[r] EXCEPT !.disturbed = @ \/ resolvers[r].slice.array = a]]
    /\ UNCHANGED panicked

Next ==
    \/ \E list \in SeqOf(Definitions, MaxLength) : MakeSlice(list)
    \/ \E a \in DOMAIN arrays :
           \/ New(a)
           \/ NewPanics(a)
           \/ \E i \in DOMAIN arrays[a], d \in Definitions : Assign(a, i, d)

Spec == Init /\ [][Next]_vars

-----------------------------------------------------------------------------

(* A resolver's slice lies within its array and, unless its caller wrote   *)
(* to it, holds definitions only.                                          *)
ResolverTypeOK ==
    /\ \A a \in DOMAIN arrays : ToSet(arrays[a]) \subseteq Definitions \cup {Nil}
    /\ \A r \in Resolvers :
           /\ resolvers[r].slice.array \in DOMAIN arrays
           /\ resolvers[r].slice.len <= Len(arrays[resolvers[r].slice.array])
           /\ ~ resolvers[r].disturbed =>
                  ToSet(elements(resolvers[r].slice)) \subseteq Definitions
    /\ panicked \in BOOLEAN

(* The first definition in a list that passes a test.                      *)
First(list, Test(_)) ==
    LET i == SelectInSeq(list, Test) IN IF i = 0 THEN Nil ELSE list[i]

(* For a kind, a resolver finds the first definition it was given, and the *)
(* default only if there is none, whatever becomes of the slice it was     *)
(* given (resolver.go:24, default.go:16).                                  *)
FirstOfKind ==
    \A r \in Resolvers, k \in Kinds, default \in Definitions :
        OrDefault(ResolveKind(r, k), default) =
            OrDefault(First(resolvers[r].given, LAMBDA d : kind[d] = k), default)

(* For a field, it finds the first definition it was given that has a      *)
(* value asked for, also where another of the same kind comes before, as   *)
(* long as the caller leaves its slice alone; other calls of New on the    *)
(* same slice do no harm (strict.go:42-51).                                *)
FirstWithField ==
    \A r \in Resolvers, key \in Keys, eq \in SUBSET Values : ~ resolvers[r].disturbed =>
        ResolveFieldFunc(r, key, eq) =
            First(resolvers[r].given, LAMBDA d : field[d][key] \in eq)

(* By kind and by field the first definition given wins: the map of kinds  *)
(* and the slice searched for fields are built from one list.              *)
FirstWins == FirstOfKind /\ FirstWithField
=============================================================================
