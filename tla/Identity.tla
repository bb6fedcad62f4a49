------------------------------ MODULE Identity ------------------------------
(***************************************************************************)
(* Which errors match which definitions, and what the extractors read      *)
(* (definition.go: Is; error.go: Unwrap, Is; unmarshaler/error.go: Is;     *)
(* errdef.go: KindFrom, FieldsFrom, StackFrom; field.go: fieldValueFrom),  *)
(* under the walks of errors.Is and errors.As of the standard library.     *)
(*                                                                         *)
(* A definition, an error and an error of another package are objects that *)
(* never change and wrap only older ones, so that a chain is finite; for   *)
(* chains with cycles see CauseTree.  Since nothing about a definition     *)
(* depends on errors, definitions are made before the first of them.       *)
(***************************************************************************)
EXTENDS Naturals, Sequences, SequencesExt, FiniteSetsExt

CONSTANTS
    Kinds,          \* kinds of definitions
    Keys,           \* keys of fields
    Settings,       \* what a call of Define or WithOptions may set
    Nil,            \* the nil error
    Nothing,        \* no answer of errors.As or an extractor
    MaxDefinitions, \* bound: definitions made
    MaxObjects,     \* bound: definitions and errors made
    MaxCauses       \* bound: causes given at a time

ASSUME IdentityAssumption ==
    /\ Settings \subseteq [noTrace : BOOLEAN, fields : SUBSET Keys]
    /\ Nil \notin Nat
    /\ Nothing \notin Nat /\ Nothing \notin Kinds
    /\ \A fields \in SUBSET Keys : Nothing # fields
    /\ MaxCauses \in Nat

VARIABLE objects    \* everything that is an error value, in order of creation

Objects == DOMAIN objects

Definitions == {o \in Objects : objects[o].type = "definition"}

Errors == Objects \ Definitions

CauseLists == SeqOf(Objects \cup {Nil}, MaxCauses)

root(d) == objects[d].root

def(e) == objects[e].def

(* What holds the fields and the stack an object shows: a defined error    *)
(* shows its definition's, an error read back those of the data.           *)
carrier(o) == IF objects[o].type = "unmarshaled" THEN objects[o] ELSE objects[def(o)]

-----------------------------------------------------------------------------
(* The standard library.                                                   *)

(* What errors.Is and errors.As go through: an error and whatever is in    *)
(* the chains of the errors it wraps.                                      *)
chain[o \in Objects] ==
    {o} \cup UNION {chain[objects[o].unwrap[i]] : i \in DOMAIN objects[o].unwrap}

(* errors.As, for the types that implement an interface, or for one type:  *)
(* the error itself, or else what is found in the first of the errors it   *)
(* wraps in which something is.                                            *)
found(types) ==
    LET as[o \in Objects] ==
            LET below == objects[o].unwrap
                I     == {i \in DOMAIN below : as[below[i]] # Nothing}
            IN IF objects[o].type \in types THEN o
               ELSE IF I = {} THEN Nothing ELSE as[below[Min(I)]]
    IN as

As(e, types) == found(types)[e]

-----------------------------------------------------------------------------
(* The methods Is.                                                         *)

(* A definition compared by its kind.                                      *)
definitionIsByKind(d, target) ==
    LET other == As(target, {"definition", "error"})
    IN other # Nothing /\ objects[d].kind = objects[def(other)].kind

definitionIs(d, target) ==
    \/ d = target
    \/ LET derr == As(target, {"error"})
       IN derr # Nothing /\ root(d) = root(def(derr))
    \/ LET other == As(target, {"definition"})
       IN other # Nothing /\ root(d) = root(other)

(* A defined error compared by its definition's address, not by the root.  *)
definedErrorIsOwn(e, target) == e = target \/ def(e) = target

definedErrorIs(e, target) ==
    \/ e = target
    \/ target \in Definitions /\ root(def(e)) = root(target)

unmarshaledErrorIs(e, target) ==
    \/ e = target
    \/ target \in Definitions /\ definitionIs(def(e), target)

Is(e, target) ==
    CASE objects[e].type = "definition"  -> definitionIs(e, target)
      [] objects[e].type = "error"       -> definedErrorIs(e, target)
      [] objects[e].type = "unmarshaled" -> unmarshaledErrorIs(e, target)
      [] OTHER                           -> FALSE

(* errors.Is of the standard library.                                      *)
errorsIs(e, target) ==
    \E o \in chain[e] : o = target \/ Is(o, target)

-----------------------------------------------------------------------------
(* The extractors.                                                         *)

kindGetter == {"definition", "error", "unmarshaled"}

(* Fields read from defined errors only.                                   *)
fieldsGetterOfErrors == {"error"}

fieldsGetter == {"definition", "error", "unmarshaled"}

stackGetter == {"error", "unmarshaled"}

kindFrom(e) ==
    LET getter == As(e, kindGetter)
    IN IF getter = Nothing THEN Nothing ELSE objects[def(getter)].kind

fieldsFrom(e) ==
    LET getter == As(e, fieldsGetter)
    IN IF getter = Nothing \/ carrier(getter).fields = {} THEN Nothing
       ELSE carrier(getter).fields

hasField(e, key) ==
    LET getter == As(e, fieldsGetter)
    IN getter # Nothing /\ key \in carrier(getter).fields

(* The error whose stack StackFrom returns.                                *)
stackFrom(e) ==
    LET getter == As(e, stackGetter)
    IN IF getter = Nothing \/ carrier(getter).noTrace THEN Nothing ELSE getter

-----------------------------------------------------------------------------

Init == objects = <<>>

Make(o) == objects' = Append(objects, o)

Self == Len(objects) + 1

MoreDefinitions == Errors = {} /\ Len(objects) < MaxDefinitions

Define(kind, set) ==
    /\ MoreDefinitions
    /\ Make([type |-> "definition", def |-> Self, root |-> Self, kind |-> kind,
             noTrace |-> set.noTrace, fields |-> set.fields, unwrap |-> <<>>, given |-> {}])

WithOptions(d, set) ==
    /\ MoreDefinitions
    /\ Make([objects[d] EXCEPT !.def = Self, !.root = root(d), !.given = {d},
                               !.noTrace = @ \/ set.noTrace, !.fields = @ \cup set.fields])

RoomFor(n) == Len(objects) + n <= MaxObjects

(* An error that wraps some errors; those it was given are history, as are *)
(* the definitions that definitions were derived from.                     *)
ErrorOf(type, d, unwrap, given) ==
    [type |-> type, def |-> d, unwrap |-> unwrap, given |-> given]

(* The first cause only.                                                   *)
firstNonNil(causes) ==
    LET I == {i \in DOMAIN causes : causes[i] # Nil}
    IN IF I = {} THEN <<>> ELSE <<causes[Min(I)]>>

(* The loop of errors.Join.                                                *)
nonNil(causes) ==
    LET errs[n \in 0 .. Len(causes)] ==
            IF n = 0 THEN <<>>
            ELSE IF causes[n] = Nil THEN errs[n - 1] ELSE Append(errs[n - 1], causes[n])
    IN errs[Len(causes)]

NewError(d) ==
    /\ RoomFor(1)
    /\ Make(ErrorOf("error", d, <<>>, {}))

Wrap(d, cause) ==
    /\ RoomFor(1)
    /\ cause # Nil
    /\ Make(ErrorOf("error", d, <<cause>>, {cause}))

(* Unwrap of a joined error answers what errors.Join holds.                *)
Join(d, causes) ==
    /\ RoomFor(1)
    /\ nonNil(causes) # <<>>
    /\ Make(ErrorOf("error", d, nonNil(causes), ToSet(causes) \ {Nil}))

(* The function panics with an error, or with a value that is none (Nil).  *)
Recover(d, value) ==
    /\ RoomFor(2)
    /\ objects' = objects \o
           <<ErrorOf("panic", Nothing, nonNil(<<value>>), {value} \ {Nil}),
             ErrorOf("error", d, <<Self>>, {value} \ {Nil})>>

(* Causes read back are read like the error itself, found among the        *)
(* definitions and sentinels that are known, or replaced.                  *)
Unmarshal(d, data, causes) ==
    /\ RoomFor(1)
    /\ d = root(d)
    /\ \A i \in DOMAIN causes :
           objects[causes[i]].type \in {"definition", "unmarshaled", "foreign"}
    /\ Make([type |-> "unmarshaled", def |-> d, unwrap |-> causes, given |-> ToSet(causes),
             noTrace |-> data.noTrace, fields |-> data.fields])

(* fmt.Errorf with %w, errors.Join, errors.New.                            *)
ForeignError(causes) ==
    /\ RoomFor(1)
    /\ Make(ErrorOf("foreign", Nothing, nonNil(causes), ToSet(causes) \ {Nil}))

Next ==
    \/ \E kind \in Kinds, set \in Settings : Define(kind, set)
    \/ \E d \in Definitions :
           \/ \E set \in Settings : WithOptions(d, set)
           \/ NewError(d)
           \/ \E cause \in Objects \cup {Nil} : Wrap(d, cause) \/ Recover(d, cause)
           \/ \E causes \in CauseLists : Join(d, causes)
           \/ \E data \in Settings, causes \in SeqOf(Objects, MaxCauses) :
                  Unmarshal(d, data, causes)
    \/ \E causes \in CauseLists : ForeignError(causes)

Spec == Init /\ [][Next]_objects

-----------------------------------------------------------------------------

Types == {"definition", "error", "unmarshaled", "panic", "foreign"}

(* Objects wrap older ones, and errors of this library have a definition.  *)
IdentityTypeOK ==
    \A o \in Objects :
        /\ objects[o].type \in Types
        /\ ToSet(objects[o].unwrap) \cup objects[o].given \subseteq 1 .. o - 1
        /\ o \in Definitions => def(o) = o /\ root(root(o)) = root(o)
        /\ objects[o].type \in stackGetter => def(o) \in Definitions

(* The call of Define that a definition goes back to.                      *)
origin[d \in Definitions] ==
    IF objects[d].given = {} THEN d ELSE origin[CHOOSE p \in objects[d].given : TRUE]

(* errors.Is finds a definition exactly if something in the chain goes     *)
(* back to the same Define, whatever was derived, wrapped, joined,         *)
(* recovered or read back in between; a kind in common is not enough       *)
(* (errdef.go:7-9, definition.go:237, error.go:145).                       *)
MatchesByOrigin ==
    /\ IdentityTypeOK
    /\ \A e \in Objects, d \in Definitions :
           errorsIs(e, d) <=>
               \E o \in chain[e] :
                   objects[o].type \in kindGetter /\ origin[def(o)] = origin[d]

(* Wrapping and deriving hide nothing: whatever matched what was given as  *)
(* a cause, or as the value of a panic, matches the error made from it     *)
(* (definition.go:163-197, error.go:129, panic.go:44).                     *)
CausesStayFound ==
    \A e \in Objects : \A c \in objects[e].given : \A t \in Objects :
        errorsIs(c, t) => errorsIs(e, t)

(* A definition claims no error that errors.Is denies it: its own method   *)
(* looks at less of the chain (definition.go:200-217).                     *)
ClaimsAreMatches ==
    \A d \in Definitions, e \in Objects : definitionIs(d, e) => errorsIs(e, d)

(* Two errors of one definition are still two errors: one is found in the  *)
(* other only if it is there, unless a definition was itself used as a     *)
(* cause (error.go:145; error_test.go:597).                                *)
InstancesDiffer ==
    \A e, t \in Errors :
        /\ chain[e] \cap Definitions = {}
        /\ errorsIs(e, t)
        => t \in chain[e]

(* Nothing matches by mistake: no definition claims what errors.Is denies, *)
(* and no error is taken for another of its definition.                    *)
NoFalseMatch == ClaimsAreMatches /\ InstancesDiffer

(* What is extracted belongs to what is matched: kind and fields are those *)
(* of one and the same error in the chain, whose definition the error      *)
(* matches, and the extractor of a single field sees no more and no less   *)
(* (errdef.go:51-77, field.go:242).                                        *)
ExtractionMatches ==
    \A e \in Objects : kindFrom(e) # Nothing =>
        \E o \in chain[e] :
            /\ objects[o].type \in kindGetter
            /\ errorsIs(e, def(o))
            /\ kindFrom(e) = objects[def(o)].kind
            /\ fieldsFrom(e) = IF carrier(o).fields = {} THEN Nothing ELSE carrier(o).fields
            /\ \A key \in Keys : hasField(e, key) <=> key \in carrier(o).fields

(* No stack from further in: an error made without a trace has none, and   *)
(* not that of a cause, which would show another place (errdef.go:83-97).  *)
StackOfOutermost ==
    \A e \in Objects : objects[e].type = "error" =>
        stackFrom(e) = IF objects[def(e)].noTrace THEN Nothing ELSE e

(* The extractors answer from one error: kind, each field and all of them  *)
(* from the first that has them, the stack from the outermost.             *)
ExtractorsAgree == ExtractionMatches /\ StackOfOutermost
=============================================================================
