----------------------------- MODULE Definition -----------------------------
(***************************************************************************)
(* Definitions, the factories derived from them and the errors they create *)
(* (definition.go, option.go, field.go, errdef.go and newError).           *)
(*                                                                         *)
(* Definitions and field maps are objects on a heap, numbered in order of  *)
(* allocation; an error keeps a pointer to its definition, and a           *)
(* definition a pointer to its fields.  Goroutines derive and create       *)
(* concurrently from the same definitions without a lock.  Define and With *)
(* work on an object nobody else has seen yet, one option at a time, and   *)
(* then return it: only then is it published.                              *)
(***************************************************************************)
EXTENDS OptionContext, ErrorOptions

CONSTANTS
    Goroutines,
    Kinds,          \* kinds of definitions
    Keys,           \* field keys
    Values,         \* field values
    NotSet,         \* what the map holds for a key that is absent
    Foreign,        \* an error of another package, as a cause
    Nil,            \* the nil error, as a cause
    MaxDefs,        \* bound: definitions and factories ever allocated
    MaxErrors,      \* bound: errors ever created
    MaxJoin         \* bound: arguments of one Join

ASSUME OptionsAssumption == Options \subseteq OptionValues(Keys, Values)

(* What the map holds for a key that is present.                           *)
Entry == [value : Values, index : Nat]

ASSUME NotSetAssumption == NotSet \notin Entry

VARIABLES
    defs,           \* the definition objects
    fieldStore,     \* the fields objects
    published,      \* the definitions that some caller holds
    errors,         \* the errors created
    call            \* what each goroutine is in the middle of

vars == <<arrays, contexts, defs, fieldStore, published, errors, call>>

NoDef == 0

(* A goroutine that is not in the middle of Define or With; otherwise the  *)
(* definition it builds and the options still to apply to it.              *)
Idle == [def |-> NoDef, pending |-> <<>>]

-----------------------------------------------------------------------------
(* Fields: a map from keys to a value and an insertion index.              *)

newFields == [data |-> [k \in Keys |-> NotSet], lastIndex |-> 0]

present(f) == {k \in Keys : f.data[k] # NotSet}

(* Every assignment takes a new index, so an overwritten field moves to    *)
(* the end.                                                                *)
set(f, k, v) ==
    [data      |-> [f.data EXCEPT ![k] = [value |-> v, index |-> f.lastIndex + 1]],
     lastIndex |-> f.lastIndex + 1]

(* All: the fields in the order of their indices, which is told by what    *)
(* comes before each of them.                                              *)
All(f) ==
    [k \in present(f) |->
        [value  |-> f.data[k].value,
         before |-> {j \in present(f) : f.data[j].index < f.data[k].index}]]

(* A clone that counts its insertions from the beginning.                  *)
restartedFields(f) == [f EXCEPT !.lastIndex = 0]

cloneFields(f) == f

-----------------------------------------------------------------------------
(* Definitions.                                                            *)

root(d) == IF defs[d].rootDef = NoDef THEN d ELSE defs[d].rootDef

(* A clone that shares the fields of the original: *d without              *)
(* d.fields.clone().                                                       *)
sharedClone(d) ==
    /\ defs' = Append(defs, [defs[d] EXCEPT !.rootDef = root(d)])
    /\ UNCHANGED fieldStore

(* A clone that always takes the original for its root.                    *)
rerootedClone(d) ==
    /\ defs' = Append(defs, [defs[d] EXCEPT !.rootDef = d, !.fields = Len(fieldStore) + 1])
    /\ fieldStore' = Append(fieldStore, cloneFields(fieldStore[defs[d].fields]))

clone(d) ==
    /\ defs' = Append(defs, [defs[d] EXCEPT !.rootDef = root(d), !.fields = Len(fieldStore) + 1])
    /\ fieldStore' = Append(fieldStore, cloneFields(fieldStore[defs[d].fields]))

(* Define allocates a definition and starts to apply its options.          *)
Define(g, kind, opts) ==
    /\ call[g] = Idle
    /\ Len(defs) < MaxDefs
    /\ defs' = Append(defs, [rootDef |-> NoDef, kind |-> kind,
                             fields |-> Len(fieldStore) + 1, settings |-> defaultSettings])
    /\ fieldStore' = Append(fieldStore, newFields)
    /\ call' = [call EXCEPT ![g] = [def |-> Len(defs) + 1, pending |-> opts]]
    /\ UNCHANGED <<ctxVars, published, errors>>

(* With no options at all the definition itself is returned.               *)
derive(g, d, opts) ==
    /\ call[g] = Idle
    /\ opts # <<>>
    /\ Len(defs) < MaxDefs
    /\ clone(d)
    /\ call' = [call EXCEPT ![g] = [def |-> Len(defs) + 1, pending |-> opts]]
    /\ UNCHANGED <<ctxVars, published, errors>>

(* The caller's options first, the context's after them.                   *)
WithContextLast(g, d, ctx, opts) == derive(g, d, opts \o optionsFromContext(ctx))

(* The options of the context, then the caller's.  WithOptions is With of  *)
(* a nil context.                                                          *)
With(g, d, ctx, opts) == derive(g, d, optionsFromContext(ctx) \o opts)

(* One turn of applyOptions.                                               *)
applyOption(g) ==
    /\ call[g].pending # <<>>
    /\ LET d == call[g].def
           o == Head(call[g].pending)
       IN /\ defs' = [defs EXCEPT ![d].settings = applySetting(@, o)]
          /\ fieldStore' = IF o.op = "field"
                           THEN [fieldStore EXCEPT ![defs[d].fields] = set(@, o.key, o.value)]
                           ELSE fieldStore
    /\ call' = [call EXCEPT ![g].pending = Tail(@)]
    /\ UNCHANGED <<ctxVars, published, errors>>

(* Define or With returns what it has built to its caller.                 *)
Return(g) ==
    /\ call[g].def # NoDef
    /\ call[g].pending = <<>>
    /\ published' = published \cup {call[g].def}
    /\ call' = [call EXCEPT ![g] = Idle]
    /\ UNCHANGED <<ctxVars, defs, fieldStore, errors>>

-----------------------------------------------------------------------------
(* Errors: how one came about, its causes and its stack.  Creating one     *)
(* reads the definition and writes nothing shared.                         *)

newError(d, how, causes, skip) ==
    /\ Len(errors) < MaxErrors
    /\ errors' = Append(errors, [def |-> d, how |-> how, causes |-> causes,
                                 stack |-> capturedStack(defs[d].settings, skip)])
    /\ UNCHANGED <<ctxVars, defs, fieldStore, published, call>>

Causes == DOMAIN errors \cup {Foreign}

(* New and Errorf.                                                         *)
New(d) == newError(d, "new", <<>>, callersSkip)

(* Wrap and Wrapf; a nil cause gives a nil error.                          *)
Wrap(d, cause) ==
    /\ cause # Nil
    /\ newError(d, "wrap", <<cause>>, callersSkip)

(* What errors.Join keeps of its arguments: those that are not nil.  When  *)
(* none is left, the result is nil.                                        *)
Join(d, causes) ==
    /\ causes # <<>>
    /\ newError(d, "join", causes, callersSkip)

(* A function that panics with a value: an error, or anything else, which  *)
(* then counts as Foreign.  What a function returns is passed on as it is. *)
Recover(d, value) == newError(d, "panic", <<value>>, recoverSkip)

-----------------------------------------------------------------------------

Init ==
    /\ CtxInit
    /\ defs = <<>>
    /\ fieldStore = <<>>
    /\ published = {}
    /\ errors = <<>>
    /\ call = [g \in Goroutines |-> Idle]

Build(g) ==
    \/ \E kind \in Kinds, opts \in OptionLists : Define(g, kind, opts)
    \/ \E d \in published, ctx \in DOMAIN contexts \cup {NilContext}, opts \in OptionLists :
          With(g, d, ctx, opts)
    \/ applyOption(g)
    \/ Return(g)

CreateError ==
    \E d \in published :
        \/ New(d)
        \/ \E c \in Causes \cup {Nil} : Wrap(d, c)
        \/ \E n \in 0 .. MaxJoin : \E cs \in [1 .. n -> Causes] : Join(d, cs)
        \/ \E v \in Causes : Recover(d, v)

DeriveContext ==
    /\ CtxNext
    /\ UNCHANGED <<defs, fieldStore, published, errors, call>>

Next == (\E g \in Goroutines : Build(g)) \/ CreateError \/ DeriveContext

Spec == Init /\ [][Next]_vars

-----------------------------------------------------------------------------

DefObject == [rootDef : Nat, kind : Kinds, fields : Nat, settings : Settings]

FieldsObject == [data : [Keys -> Entry \cup {NotSet}], lastIndex : Nat]

ErrorObject == [def : Nat, how : {"new", "wrap", "join", "panic"},
                causes : Seq(Nat \cup {Foreign}), stack : Stacks]

TypeOK ==
    /\ CtxTypeOK
    /\ defs \in Seq(DefObject)
    /\ fieldStore \in Seq(FieldsObject)
    /\ published \subseteq DOMAIN defs
    /\ errors \in Seq(ErrorObject)
    /\ call \in [Goroutines -> [def : Nat, pending : Seq(Options)]]
    /\ \A d \in DOMAIN defs : defs[d].fields \in DOMAIN fieldStore
    /\ \A e \in DOMAIN errors : errors[e].def \in published
    /\ \A g \in Goroutines : IF call[g].def = NoDef THEN call[g].pending = <<>>
                                                    ELSE call[g].def \in DOMAIN defs

(* The object a goroutine applies options to is its own: no caller holds   *)
(* it, no other goroutine builds it, and no other definition has its field *)
(* map, which is written without a lock (definition.go:234-247,            *)
(* field.go:147-156).                                                      *)
WritersPrivate ==
    \A g \in Goroutines : call[g].def # NoDef =>
        /\ call[g].def \notin published
        /\ \A h \in Goroutines \ {g} : call[h].def # call[g].def
        /\ \A d \in DOMAIN defs \ {call[g].def} :
              defs[d].fields # defs[call[g].def].fields

(* The insertion indices of a field map tell its fields apart and leave    *)
(* room above: the order All gives is the order of the last assignments,   *)
(* in the clone of a clone too (field.go:106-117, 147-163).                *)
FieldOrder ==
    \A f \in DOMAIN fieldStore :
        LET data == fieldStore[f].data
        IN \A k \in present(fieldStore[f]) :
              /\ data[k].index \in 1 .. fieldStore[f].lastIndex
              /\ \A l \in present(fieldStore[f]) \ {k} : data[l].index # data[k].index

(* The root of every definition, however many derivations away, is one     *)
(* that Define allocated, of the same kind: errors.Is compares roots       *)
(* (definition.go:227-241, error.go:145-153).                              *)
RootsAreDefined ==
    \A d \in DOMAIN defs :
        /\ root(d) \in DOMAIN defs
        /\ defs[root(d)].rootDef = NoDef
        /\ defs[root(d)].kind = defs[d].kind

DefinitionView(d) == [def |-> defs[d], fields |-> fieldStore[defs[d].fields]]

(* A definition or factory that a caller holds never changes, whatever is  *)
(* derived from it meanwhile (the clone in With, definition.go:134).       *)
PublishedImmutable ==
    [][\A d \in published : DefinitionView(d)' = DefinitionView(d)]_vars

(* "Error instances [...] remain immutable after creation" (error.go:15):  *)
(* kind, fields, settings, stack and causes, all but the last two of which *)
(* an error reads through its pointer to the definition.                   *)
ErrorView(e) == [error |-> errors[e], template |-> DefinitionView(errors[e].def)]

ErrorsImmutable ==
    [][\A e \in DOMAIN errors : ErrorView(e)' = ErrorView(e)]_vars

(* The pointers, clones and steps implement values and atomic derivations. *)
template(d) ==
    [origin |-> root(d), kind |-> defs[d].kind,
     fields |-> All(fieldStore[defs[d].fields]), settings |-> defs[d].settings]

Templates == INSTANCE ErrorTemplate WITH
    contexts  <- [c \in DOMAIN contexts |-> optionsFromContext(c)],
    templates <- [d \in published |-> template(d)],
    errors    <- [e \in DOMAIN errors |->
                    [template |-> template(errors[e].def), how |-> errors[e].how,
                     causes   |-> errors[e].causes,        stack |-> errors[e].stack]]

(* Every behaviour is one of the abstract specification: of each setting   *)
(* the last option wins, fields are ordered by their last assignment,      *)
(* origins are kept, and errors are values (definition.go:36-42).          *)
ImplementsTemplates == Templates!Spec
=============================================================================
