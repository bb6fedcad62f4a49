----------------------------- MODULE Unmarshal -----------------------------
(***************************************************************************)
(* Reading serialized errors back (unmarshaler/unmarshaler.go, the fields  *)
(* of the result in unmarshaler/field.go, the options in options.go).      *)
(*                                                                         *)
(* The decoded data is a tree of nodes, 1 its root.  unmarshal and         *)
(* unmarshalCause call each other; the stack holds a frame for each node   *)
(* under way, and answer what the call that just returned gave.  Go visits *)
(* the fields of the data, and the keys of a definition, in any order.     *)
(***************************************************************************)
EXTENDS Conversion, Sequences, FiniteSets

CONSTANTS
    Requests,       \* what is unmarshalled and by what unmarshaler
    None,           \* no kind, no definition, no answer
    Redacted        \* the content of a string that Redact wrote

(* A field of the data holds a value of the type it has, and no pointer.   *)
ValueTyped(v) ==
    /\ v = Value(v.type, v.holds)
    /\ v.type.kind \in Primitive \cup Composite \cup {"nil"}
    /\ v.type = Type("float64") /\ v.holds \notin NotFinite =>
           v.holds \in Numbers /\ Round64[v.holds] = v.holds
    /\ v.type = Type("int64") => v.holds \in Numbers /\ InKind("int64", v.holds)

(* The data is a tree: the causes of a node come after it, and a node but  *)
(* the root is a cause of one other, once.                                 *)
Tree(nodes) ==
    /\ nodes \in Seq({nodes[n] : n \in DOMAIN nodes}) /\ nodes # <<>>
    /\ \A n \in DOMAIN nodes :
           /\ nodes[n].causes \in Seq(n + 1 .. Len(nodes))
           /\ \A p \in DOMAIN nodes : \A i \in DOMAIN nodes[n].causes, j \in DOMAIN nodes[p].causes :
                  nodes[n].causes[i] = nodes[p].causes[j] => n = p /\ i = j
           /\ n # 1 => \E p \in DOMAIN nodes : \E i \in DOMAIN nodes[p].causes :
                  nodes[p].causes[i] = n

ASSUME RequestsAssumption ==
    \A r \in Requests :
        /\ Tree(r.data)
        /\ None \notin DOMAIN r.definitions
        /\ r.customFieldKeys \in Seq({r.customFieldKeys[i] : i \in DOMAIN r.customFieldKeys})
        /\ \A n \in DOMAIN r.data :
               /\ IsFiniteSet(DOMAIN r.data[n].fields)
               /\ \A name \in DOMAIN r.data[n].fields : ValueTyped(r.data[n].fields[name])

VARIABLES
    request,        \* which no step changes
    stack,          \* frames of the calls under way
    answer,         \* None, or the node and outcome of a call
    built           \* per node, the error made from it

vars == <<request, stack, answer, built>>

data(n) == request.data[n]
Nodes == DOMAIN request.data

(* A function with one more value, or another one.                         *)
With(f, x, v) == [y \in DOMAIN f \cup {x} |-> IF y = x THEN v ELSE f[y]]

Error(n, err) == [node |-> n, err |-> err]
Made(n)       == [node |-> n, err |-> "none"]

frame == stack[Len(stack)]
callers == SubSeq(stack, 1, Len(stack) - 1)

(* A call for a node: the definition it works with, the fields not visited *)
(* yet and where the others went, and the causes made so far.              *)
Frame(n, def, todo) ==
    [node |-> n, def |-> def, todo |-> todo,
     fields |-> <<>>, unknownFields |-> <<>>, causes |-> <<>>]

-----------------------------------------------------------------------------
(* Resolving kinds.                                                        *)

ResolveKind(kind) == IF kind \in DOMAIN request.definitions THEN kind ELSE None

resolveKind(kind) ==
    IF request.default # None /\ ~ request.strictMode /\ ResolveKind(kind) = None
    THEN request.default ELSE ResolveKind(kind)

(* Entering unmarshal for a node: no frame if its kind is unknown.         *)
Enter(n, below) ==
    LET def == resolveKind(data(n).kind)
    IN IF def = None
       THEN stack' = below /\ answer' = Error(n, "ErrUnknownKind")
       ELSE stack' = Append(below, Frame(n, def, DOMAIN data(n).fields)) /\ answer' = None

-----------------------------------------------------------------------------
(* The fields of a node.                                                   *)

value(name) == data(frame.node).fields[name]

isRedacted(v) == v.type \in {Type("string"), Type("bytes")} /\ v.holds = Redacted

Visits(name) == answer = None /\ stack # <<>> /\ name \in frame.todo

FindKeys(def, name) == {k \in request.definitions[def] : k.name = name}

Outcomes(key, name) == tryConvertFieldValue(key.type, value(name))

(* A field is settled: it leaves todo, and goes where update puts it.      *)
Settle(name, update) ==
    /\ stack' = Append(callers, [update EXCEPT !.todo = @ \ {name}])
    /\ UNCHANGED <<request, answer, built>>

Fail(err) ==
    /\ stack' = callers
    /\ answer' = Error(frame.node, err)
    /\ UNCHANGED <<request, built>>

ConvertTo(key, name) ==
    \E o \in Outcomes(key, name) \ {Left} :
        IF o = Fails THEN Fail("ErrInternal")
        ELSE Settle(name, [frame EXCEPT !.fields = With(@, key, o.holds)])

Leaves(key, name) == Left \in Outcomes(key, name)

DefinedLeave(name) == \A k \in FindKeys(frame.def, name) : Leaves(k, name)

CustomLeaveUpTo(name, last) ==
    \A j \in 1 .. last : request.customFieldKeys[j].name = name =>
        Leaves(request.customFieldKeys[j], name)

KeepUnknown(name) ==
    Settle(name, [frame EXCEPT !.unknownFields = With(@, name, value(name))])

(* Also the bytes of a redacted text are kept as a string.                 *)
VisitRedacted(name) ==
    /\ Visits(name)
    /\ isRedacted(value(name))
    /\ Settle(name, [frame EXCEPT !.unknownFields =
                         With(@, name, Value(Type("string"), Redacted))])

(* The first key, in any order, that does not leave the value alone.       *)
VisitDefined(name) ==
    /\ Visits(name)
    /\ ~ isRedacted(value(name))
    /\ \E k \in FindKeys(frame.def, name) : ConvertTo(k, name)

(* The keys registered for any kind, in their order.                       *)
VisitCustom(name) ==
    /\ Visits(name)
    /\ ~ isRedacted(value(name))
    /\ DefinedLeave(name)
    /\ \E i \in DOMAIN request.customFieldKeys :
           /\ request.customFieldKeys[i].name = name
           /\ CustomLeaveUpTo(name, i - 1)
           /\ ConvertTo(request.customFieldKeys[i], name)

(* The keys registered for any kind are not asked.                         *)
VisitUnknownHastily(name) ==
    /\ Visits(name)
    /\ ~ isRedacted(value(name))
    /\ DefinedLeave(name)
    /\ IF request.strictMode THEN Fail("ErrUnknownField") ELSE KeepUnknown(name)

(* A field that no key takes is dropped.                                   *)
VisitUnknownForgetful(name) ==
    /\ Visits(name)
    /\ ~ isRedacted(value(name))
    /\ DefinedLeave(name)
    /\ CustomLeaveUpTo(name, Len(request.customFieldKeys))
    /\ IF request.strictMode THEN Fail("ErrUnknownField") ELSE Settle(name, frame)

VisitUnknown(name) ==
    /\ Visits(name)
    /\ ~ isRedacted(value(name))
    /\ DefinedLeave(name)
    /\ CustomLeaveUpTo(name, Len(request.customFieldKeys))
    /\ IF request.strictMode THEN Fail("ErrUnknownField") ELSE KeepUnknown(name)

-----------------------------------------------------------------------------
(* The causes of a node.                                                   *)

HasNextCause ==
    /\ answer = None
    /\ stack # <<>>
    /\ frame.todo = {}
    /\ Len(frame.causes) < Len(data(frame.node).causes)

AllCauses ==
    /\ answer = None
    /\ stack # <<>>
    /\ frame.todo = {}
    /\ Len(frame.causes) = Len(data(frame.node).causes)

NextCause ==
    /\ HasNextCause
    /\ Enter(data(frame.node).causes[Len(frame.causes) + 1], stack)
    /\ UNCHANGED <<request, built>>

(* Back in the loop over the causes with one more.                         *)
AddCause ==
    /\ answer # None
    /\ answer.err = "none"
    /\ stack # <<>>
    /\ stack' = Append(callers, [frame EXCEPT !.causes = Append(@, answer.node)])
    /\ answer' = None
    /\ UNCHANGED <<request, built>>

(* Any error makes the node an unknown cause, also an internal one.        *)
CauseFailsSilently ==
    /\ answer # None
    /\ answer.err # "none"
    /\ stack # <<>>
    /\ stack' = Append(stack, Frame(answer.node, None, {}))
    /\ answer' = None
    /\ UNCHANGED <<request, built>>

(* unmarshalCause: an internal error goes up to its caller, and from there *)
(* to the caller's; after another error the causes of the node are read    *)
(* once more, without a definition.                                        *)
CauseFails ==
    /\ answer # None
    /\ answer.err # "none"
    /\ stack # <<>>
    /\ IF answer.err = "ErrInternal"
       THEN /\ stack' = callers
            /\ answer' = Error(frame.node, "ErrInternal")
       ELSE /\ stack' = Append(stack, Frame(answer.node, None, {}))
            /\ answer' = None
    /\ UNCHANGED <<request, built>>

Return(error) ==
    /\ built' = With(built, frame.node, error)
    /\ stack' = callers
    /\ answer' = Made(frame.node)
    /\ UNCHANGED request

ReturnDefined ==
    /\ AllCauses
    /\ frame.def # None
    /\ Return([is |-> "defined", def |-> frame.def, message |-> data(frame.node).message,
               fields |-> frame.fields, unknownFields |-> frame.unknownFields,
               causes |-> frame.causes])

msg(n) == IF data(n).message = "" THEN "<unknown data>" ELSE data(n).message
typeName(n) == IF data(n).type = "" THEN "<unknown>" ELSE data(n).type

(* A node of no definition and without causes: first taken for a           *)
(* definition, then for a sentinel error.                                  *)
External(n) ==
    IF typeName(n) = "*errdef.definition" /\ ResolveKind(msg(n)) # None
    THEN [is |-> "definition", def |-> msg(n)]
    ELSE IF <<typeName(n), msg(n)>> \in request.sentinelErrors
    THEN [is |-> "sentinel", key |-> <<typeName(n), msg(n)>>]
    ELSE [is |-> "unknown", type |-> typeName(n), message |-> msg(n), causes |-> <<>>]

(* Sentinels are matched before the causes are looked at.                  *)
ReturnExternalEager ==
    /\ AllCauses
    /\ frame.def = None
    /\ Return(IF External(frame.node).is # "unknown" THEN External(frame.node)
              ELSE [External(frame.node) EXCEPT !.causes = frame.causes])

ReturnExternal ==
    /\ AllCauses
    /\ frame.def = None
    /\ Return(IF frame.causes = <<>> THEN External(frame.node)
              ELSE [is |-> "unknown", type |-> typeName(frame.node),
                    message |-> msg(frame.node), causes |-> frame.causes])

-----------------------------------------------------------------------------

Init ==
    /\ request \in Requests
    /\ stack = <<>>
    /\ answer = None
    /\ built = <<>>

Begin ==
    /\ stack = <<>> /\ answer = None
    /\ IF request.decodes THEN Enter(1, <<>>)
       ELSE stack' = <<>> /\ answer' = Error(1, "ErrDecodeFailure")
    /\ UNCHANGED <<request, built>>

Done == stack = <<>> /\ answer # None

Next ==
    \/ Begin
    \/ \E name \in UNION {DOMAIN data(n).fields : n \in Nodes} :
           VisitRedacted(name) \/ VisitDefined(name) \/ VisitCustom(name) \/ VisitUnknown(name)
    \/ NextCause \/ AddCause \/ CauseFails
    \/ ReturnDefined \/ ReturnExternal

Spec == Init /\ [][Next]_vars

-----------------------------------------------------------------------------
(* What the result answers (field.go).  A key is typed, or just a name.    *)

(* The values a typed key may give: its own, or an unknown field of its    *)
(* name that converts to its type.                                         *)
Get(e, key) ==
    IF key \in DOMAIN e.fields THEN {e.fields[key]}
    ELSE IF key.name \in DOMAIN e.unknownFields
    THEN {o.holds : o \in tryConvertFieldValue(key.type, e.unknownFields[key.name]) \ {Left, Fails}}
    ELSE {}

FindNames(e, name) ==
    {k \in DOMAIN e.fields : k.name = name} \cup ({name} \cap DOMAIN e.unknownFields)

Size(e) == Cardinality(DOMAIN e.fields) + Cardinality(DOMAIN e.unknownFields)

-----------------------------------------------------------------------------

Defined == {n \in DOMAIN built : built[n].is = "defined"}

HasCauses(n) == built[n].is \in {"defined", "unknown"}

Custom == {request.customFieldKeys[i] : i \in DOMAIN request.customFieldKeys}

(* The keys a field of a node may be converted to.                         *)
KeysFor(n, name) ==
    FindKeys(resolveKind(data(n).kind), name) \cup {k \in Custom : k.name = name}

(* The frames are a path down the tree: each is for the cause its caller   *)
(* is about to add.                                                        *)
UnmarshalTypeOK ==
    /\ answer = None \/ answer.node \in Nodes
    /\ DOMAIN built \subseteq Nodes
    /\ \A i \in DOMAIN stack :
           /\ stack[i].todo \subseteq DOMAIN data(stack[i].node).fields
           /\ i > 1 => stack[i].node = data(stack[i - 1].node).causes[Len(stack[i - 1].causes) + 1]

(* A float64 just above the highest integer gets through, and then gives   *)
(* any integer ("within the target type's range", decoder.go:47-48).       *)
JustAbove(k, v) ==
    /\ v.type = Type("float64") /\ v.holds % 2 = 0
    /\ Highest[k] < v.holds /\ v.holds <= Round64[Highest[k]]

(* What a key of a kind holds for a value: the number itself.  A float64   *)
(* for a float32 is rounded, and so is an int64 that is not a float64, for *)
(* a float64 key (against decoder.go:63).  An int64 for a float32 is only  *)
(* where the way back from float32 is beyond int64.                        *)
Kept(k, v, holds) ==
    IF ~ Numeric(v) THEN holds = v.holds
    ELSE CASE k \in Integral -> holds = v.holds \/ JustAbove(k, v)
           [] k = "float32" /\ v.type = Type("float64") -> holds = Round32[v.holds]
           [] k = "float32" /\ v.type = Type("int64") ->
                  \/ holds = v.holds
                  \/ ~ InKind("int64", Round32[v.holds]) /\ holds = Round32[v.holds]
           [] k = "float64" /\ v.type = Type("int64") -> holds = Round64[v.holds]
           [] OTHER -> holds = v.holds

(* No conversion wraps, cuts off or loses a number, other than as said.    *)
NumbersKept ==
    \A n \in Defined : \A k \in DOMAIN built[n].fields :
        Kept(k.type.kind, data(n).fields[k.name], built[n].fields[k])

(* What decoder.go:51-72 says a type takes, without any change of what the *)
(* value holds: the type itself, a number it can represent, a type derived *)
(* from the value's or a pointer to it, and what JSON can make of a map or *)
(* list.                                                                   *)
Belongs(type, v) ==
    \/ NewValue(type, v)
    \/ /\ Numeric(v)
       /\ CASE type.kind \in Integral -> InKind(type.kind, v.holds)
            [] type.kind = "float64" -> Round64[v.holds] = v.holds
            [] type.kind = "float32" ->
                   Round32[v.holds] = v.holds /\ Magnitude(v.holds) <= MaxFloat32
            [] OTHER -> FALSE
    \/ v.type.kind \in Primitive /\ type.kind = v.type.kind
    \/ v.type.kind \in Primitive /\ type.kind = "pointer" /\ type.elem = v.type.kind
    \/ /\ v.type \in {Type("map"), Type("slice")} /\ v.holds = "fits"
       /\ \/ type.kind \in {"struct", "map", "slice", "bytes"}
          \/ type.kind = "pointer" /\ type.elem = "struct"

(* What a key takes besides, with the change that Kept allows.             *)
Nearly(k, v) ==
    \/ k \in Integral /\ Numeric(v) /\ JustAbove(k, v)
    \/ k = "float32" /\ v.type = Type("float64") /\
           (v.holds # NaN => Numeric(v) /\ Magnitude(v.holds) <= MaxFloat32)
    \/ k = "float32" /\ v.type = Type("int64") /\
           (Round32[v.holds] = v.holds \/ ~ InKind("int64", Round32[v.holds]))
    \/ k = "float64" /\ v.type = Type("int64")

(* What belongs to the type of a key is never left unknown, nor refused in *)
(* strict mode (decoder.go:44-47): conversion is not too careful, and no   *)
(* key registered for the field is passed over.                            *)
WhatBelongsIsTyped ==
    /\ \A n \in Defined : \A name \in DOMAIN built[n].unknownFields :
           LET v == data(n).fields[name]
           IN isRedacted(v) \/ \A k \in KeysFor(n, name) : ~ Belongs(k.type, v)
    /\ answer # None => (answer.err = "ErrUnknownField" =>
           \E name \in DOMAIN data(answer.node).fields :
               \A k \in KeysFor(answer.node, name) :
                   ~ Belongs(k.type, data(answer.node).fields[name]))

(* And conversely a typed field holds what belongs to the type of its key, *)
(* which is one of its kind's or the unmarshaler's: conversion is not too  *)
(* generous.                                                               *)
TypedByRight ==
    \A n \in Defined : \A k \in DOMAIN built[n].fields :
        LET v == data(n).fields[k.name]
        IN /\ k \in KeysFor(n, k.name) /\ ~ isRedacted(v)
           /\ Belongs(k.type, v) \/ Nearly(k.type.kind, v)

(* In strict mode a result has unknown fields only for what was redacted,  *)
(* and every kind is one of the resolver's, below the root as well         *)
(* (options.go:19-24).                                                     *)
StrictIsStrict ==
    request.strictMode => \A n \in Defined :
        /\ built[n].def = data(n).kind
        /\ \A name \in DOMAIN built[n].unknownFields : isRedacted(data(n).fields[name])

(* A field is typed or unknown as its value and the keys have it: neither  *)
(* is what belongs to a type left out of it, nor is anything else let into *)
(* it, nor does strict mode let an unknown one pass.                       *)
UnknownExactly == WhatBelongsIsTyped /\ TypedByRight /\ StrictIsStrict

OutcomesFor(k, n, name) == tryConvertFieldValue(k.type, data(n).fields[name])

(* The keys that may come to decide over a field: any of the definition's, *)
(* and of those registered apart each that all asked before it may leave   *)
(* the value to.                                                           *)
DecidingKeys(n, name) ==
    LET own == FindKeys(resolveKind(data(n).kind), name)
        custom(i) == request.customFieldKeys[i]
    IN own \cup {custom(i) : i \in {i \in DOMAIN request.customFieldKeys :
           /\ custom(i).name = name
           /\ \A k \in own : Left \in OutcomesFor(k, n, name)
           /\ \A j \in 1 .. i - 1 :
                  custom(j).name = name => Left \in OutcomesFor(custom(j), n, name)}}

(* A field may fail in some order of the keys, or in every one.            *)
MayFail(n, name) ==
    /\ ~ isRedacted(data(n).fields[name])
    /\ \E k \in DecidingKeys(n, name) : Fails \in OutcomesFor(k, n, name)

MustFail(n, name) ==
    /\ MayFail(n, name)
    /\ \A k \in DecidingKeys(n, name) : OutcomesFor(k, n, name) \subseteq {Left, Fails}

Refused(n, name) ==
    /\ request.strictMode /\ ~ isRedacted(data(n).fields[name])
    /\ \A k \in KeysFor(n, name) : Left \in OutcomesFor(k, n, name)

Resolves(n) == resolveKind(data(n).kind) # None

Failing(n) == Resolves(n) /\ \E name \in DOMAIN data(n).fields : MayFail(n, name)
Refusing(n) == Resolves(n) /\ \E name \in DOMAIN data(n).fields : Refused(n, name)

SurelyFailing(n) ==
    Resolves(n) /\ ~ Refusing(n) /\ \E name \in DOMAIN data(n).fields : MustFail(n, name)

(* A value that fails to convert makes the whole call fail, however deep   *)
(* its node and also below a cause of unknown kind (unmarshaler.go:173-176 *)
(* and 189-193), and nothing else fails it so: whatever Go's order of the  *)
(* fields and keys, which decides only between the two bounds.             *)
InternalExactly ==
    Done /\ request.decodes /\ Resolves(1) =>
        /\ answer.err \in {"none", "ErrInternal", "ErrUnknownField"}
        /\ answer.err = "none" => \A n \in Nodes : ~ SurelyFailing(n)
        /\ answer.err = "ErrInternal" => \E n \in Nodes : Failing(n)
        /\ answer.err = "ErrUnknownField" => Refusing(1)

IsSentinel(n) ==
    data(n).causes = <<>> /\ <<data(n).type, data(n).message>> \in request.sentinelErrors

(* The sentinels that can be told when they are read: an error without a   *)
(* message is read as unknown data, and one registered for a definition is *)
(* taken for the definition.                                               *)
SentinelsNamed ==
    \A r \in Requests : \A s \in r.sentinelErrors :
        /\ s[1] # "" /\ s[2] # ""
        /\ s[1] = "*errdef.definition" => s[2] \notin DOMAIN r.definitions

(* A cause written from a registered sentinel is that sentinel again, for  *)
(* errors.Is to find (options.go:81-84), except with a default resolver    *)
(* that is not strict.                                                     *)
SentinelsRestored ==
    request.default = None \/ request.strictMode => \A n \in DOMAIN built :
        IsSentinel(n) /\ data(n).kind \notin DOMAIN request.definitions =>
            built[n] = [is |-> "sentinel", key |-> <<data(n).type, data(n).message>>]

(* What is there to be read of a value: of a redacted text that it was.    *)
Shown(v) == IF isRedacted(v) THEN Value(Type("string"), Redacted) ELSE v

(* Every field of the data can be read from the result, by its name and by *)
(* a typed key that its value belongs to and that no other key of the name *)
(* took it from (field.go:34-58).                                          *)
FieldsReadable ==
    \A n \in Defined : \A name \in DOMAIN data(n).fields :
        /\ FindNames(built[n], name) # {}
        /\ \A k \in KeysFor(n, name) \cup request.otherKeys :
               k.name = name /\ Belongs(k.type, Shown(data(n).fields[name])) =>
                   \/ Get(built[n], k) # {}
                   \/ \E j \in DOMAIN built[n].fields : j.name = name

(* Every field of the data is in the result, either under one key of its   *)
(* name or as an unknown field, can be read back from it, and nothing else *)
(* is there (unmarshaler.go:96).                                           *)
NothingLost ==
    /\ FieldsReadable
    /\ \A n \in Defined : LET e == built[n] IN
        /\ {k.name : k \in DOMAIN e.fields} \cup DOMAIN e.unknownFields = DOMAIN data(n).fields
        /\ Size(e) = Cardinality(DOMAIN data(n).fields)

(* The causes of an error are those of its data, in their order, also when *)
(* its kind is unknown or its fields are refused; a definition or sentinel *)
(* only stands for data without causes, and a sentinel is one again        *)
(* (unmarshaler.go:188-207).                                               *)
CausesKept ==
    /\ UnmarshalTypeOK
    /\ SentinelsRestored
    /\ \A n \in DOMAIN built :
        /\ IF HasCauses(n) THEN built[n].causes = data(n).causes ELSE data(n).causes = <<>>
        /\ \A i \in DOMAIN data(n).causes : data(n).causes[i] \in DOMAIN built

(* "the original error instance will be restored" (options.go:82): said    *)
(* also of a default resolver, which takes any cause for its default.      *)
SentinelsAlwaysRestored ==
    \A n \in DOMAIN built :
        IsSentinel(n) /\ data(n).kind = "" => built[n].is = "sentinel"
=============================================================================
