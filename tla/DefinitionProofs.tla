-------------------------- MODULE DefinitionProofs --------------------------
(***************************************************************************)
(* Definitions and errors are immutable once a caller holds them, for any  *)
(* options, goroutines and bounds.                                         *)
(*                                                                         *)
(* The argument: a field map belongs to one definition, and a definition   *)
(* still being built to one goroutine (WritersPrivate); only such a        *)
(* definition is written, so what is published stands still; and an error  *)
(* points to a published definition.                                       *)
(*                                                                         *)
(* Definition implements ErrorTemplate: what a goroutine builds is at any  *)
(* time what it began with, derived by the options applied so far          *)
(* (BuiltAsAsked), and one option more in the closed form of ErrorTemplate *)
(* is one applyOption more (ConfiguredLonger, OverlaidLonger, SetPuts).    *)
(***************************************************************************)
EXTENDS Definition, SequenceTheorems, WellFoundedInduction, TLAPS

-----------------------------------------------------------------------------
(* Options in a context: immutable and layered, for any options and any    *)
(* number of contexts; a step only adds an array and a context behind the  *)
(* others.                                                                 *)

USE OptionListsAssumption

(* A slice of a well-typed state has well-typed elements.                  *)
LEMMA ElementsType ==
    ASSUME CtxTypeOK, NEW c \in DOMAIN contexts
    PROVE  /\ Elements(contexts[c].options) \in Seq(Options)
           /\ Len(Elements(contexts[c].options)) = contexts[c].options.len
<1> DEFINE s == contexts[c].options
<1>1. s \in Slice
    <2>1. contexts \in Seq(Context)
        BY DEF CtxTypeOK
    <2>2. contexts[c] \in Context
        BY <2>1
    <2> QED
        BY <2>2 DEF Context
<1>2. s.len \in Nat
    BY <1>1 DEF Slice
<1>3. \A i \in 1 .. s.len : arrays[s.array][i] \in Options
    <2>1. CASE s = NilSlice
        BY <2>1 DEF NilSlice
    <2>2. CASE s.array \in DOMAIN arrays /\ s.len <= Len(arrays[s.array])
        <3>1. arrays[s.array] \in Seq(Options)
            BY <2>2 DEF CtxTypeOK
        <3> QED
            BY <3>1, <2>2, <1>2
    <2> QED
        BY <2>1, <2>2 DEF CtxTypeOK
<1> QED
    BY <1>2, <1>3 DEF Elements

(* The options a context carries are a list of options.                    *)
LEMMA OptionsType ==
    ASSUME CtxTypeOK, NEW c \in DOMAIN contexts \cup {NilContext}
    PROVE  optionsFromContext(c) \in Seq(Options)
<1>1. CASE c = NilContext
    BY <1>1 DEF optionsFromContext
<1>2. CASE c # NilContext
    BY <1>2, ElementsType DEF optionsFromContext
<1> QED
    BY <1>1, <1>2

(* What a step does: one array and one context more, and the new context   *)
(* carries its parent's options and then the caller's.                     *)
LEMMA ContextStep ==
    ASSUME CtxTypeOK, NEW ctx \in DOMAIN contexts, NEW opts \in OptionLists,
           ContextWithOptions(ctx, opts)
    PROVE  LET all == optionsFromContext(ctx) \o opts
               n   == Len(contexts) + 1
           IN /\ all \in Seq(Options)
              /\ opts # <<>>
              /\ arrays' = Append(arrays, all)
              /\ contexts' = Append(contexts,
                    [parent  |-> ctx,
                     options |-> [array |-> Len(arrays) + 1, len |-> Len(all)]])
<1>1. optionsFromContext(ctx) \in Seq(Options) /\ opts \in Seq(Options)
    BY OptionsType
<1>2. Len(optionsFromContext(ctx) \o opts) = Len(optionsFromContext(ctx)) + Len(opts)
    BY <1>1
<1> QED
    BY <1>1, <1>2 DEF ContextWithOptions, copiedOptions

LEMMA ContextTypeStep ==
    ASSUME CtxTypeOK, [CtxNext]_ctxVars
    PROVE  CtxTypeOK'
<1>1. CASE UNCHANGED ctxVars
    BY <1>1 DEF CtxTypeOK, ctxVars
<1>2. ASSUME NEW ctx \in DOMAIN contexts, NEW opts \in OptionLists,
             ContextWithOptions(ctx, opts)
      PROVE  CtxTypeOK'
    <2> DEFINE all == optionsFromContext(ctx) \o opts
               new == [parent  |-> ctx,
                       options |-> [array |-> Len(arrays) + 1, len |-> Len(all)]]
    <2>1. /\ all \in Seq(Options)
          /\ arrays' = Append(arrays, all)
          /\ contexts' = Append(contexts, new)
        BY <1>2, ContextStep
    <2>2. arrays \in Seq(Seq(Options)) /\ contexts \in Seq(Context)
        BY DEF CtxTypeOK
    <2>3. new \in Context
        <3>1. ctx \in Nat /\ Len(arrays) + 1 \in Nat /\ Len(all) \in Nat
            BY <2>1, <2>2
        <3> QED
            BY <3>1 DEF Slice, Context
    <2>4. arrays' \in Seq(Seq(Options)) /\ contexts' \in Seq(Context)
        BY <2>1, <2>2, <2>3
    <2>5. ASSUME NEW c \in DOMAIN contexts'
          PROVE  /\ contexts'[c].parent \in 0 .. c - 1
                 /\ \/ contexts'[c].options = NilSlice
                    \/ /\ contexts'[c].options.array \in DOMAIN arrays'
                       /\ contexts'[c].options.len <= Len(arrays'[contexts'[c].options.array])
        <3>1. CASE c \in DOMAIN contexts
            <4>1. contexts'[c] = contexts[c]
                BY <3>1, <2>1, <2>2
            <4>2. \A a \in DOMAIN arrays : a \in DOMAIN arrays' /\ arrays'[a] = arrays[a]
                BY <2>1, <2>2
            <4> QED
                BY <3>1, <4>1, <4>2 DEF CtxTypeOK
        <3>2. CASE c = Len(contexts) + 1
            <4>1. contexts'[c] = new
                BY <3>2, <2>1, <2>2
            <4>2. Len(arrays) + 1 \in DOMAIN arrays' /\ arrays'[Len(arrays) + 1] = all
                BY <2>1, <2>2
            <4>3. ctx \in 0 .. c - 1
                BY <3>2, <2>2
            <4>4. Len(all) \in Nat
                BY <2>1
            <4> QED
                BY <4>1, <4>2, <4>3, <4>4
        <3>3. c \in 1 .. Len(contexts) + 1
            BY <2>1, <2>2, <2>4
        <3>4. c \in DOMAIN contexts \/ c = Len(contexts) + 1
            BY <3>3, <2>2
        <3> QED
            BY <3>1, <3>2, <3>4
    <2> QED
        BY <2>4, <2>5 DEF CtxTypeOK
<1> QED
    BY <1>1, <1>2 DEF CtxNext

LEMMA ContextTypeInit == CtxInit => CtxTypeOK
BY DEF CtxInit, CtxTypeOK, NilContext, NilSlice, Slice, Context

(* The state of OptionContext is well typed.                               *)
THEOREM ContextTypeCorrect == CtxSpec => []CtxTypeOK
BY ContextTypeInit, ContextTypeStep, PTL DEF CtxSpec

(* No step changes what an existing context carries.                       *)
LEMMA ContextsKept ==
    ASSUME CtxTypeOK, [CtxNext]_ctxVars, NEW c \in DOMAIN contexts \cup {NilContext}
    PROVE  optionsFromContext(c)' = optionsFromContext(c)
<1>1. CASE UNCHANGED ctxVars
    BY <1>1 DEF ctxVars, optionsFromContext, Elements
<1>2. CASE c = NilContext
    BY <1>2 DEF optionsFromContext
<1>3. ASSUME NEW ctx \in DOMAIN contexts, NEW opts \in OptionLists,
             ContextWithOptions(ctx, opts), c # NilContext
      PROVE  optionsFromContext(c)' = optionsFromContext(c)
    <2> DEFINE all == optionsFromContext(ctx) \o opts
               new == [parent  |-> ctx,
                       options |-> [array |-> Len(arrays) + 1, len |-> Len(all)]]
    <2>0. /\ arrays' = Append(arrays, all)
          /\ contexts' = Append(contexts, new)
          /\ arrays \in Seq(Seq(Options))
          /\ contexts \in Seq(Context)
        BY <1>3, ContextStep DEF CtxTypeOK
    <2> HIDE DEF all, new
    <2>1. contexts'[c] = contexts[c]
        BY <2>0, <1>3
    <2>2. \A a \in DOMAIN arrays : arrays'[a] = arrays[a]
        BY <2>0
    <2>3. CASE contexts[c].options = NilSlice
        BY <2>1, <2>3, <1>3 DEF optionsFromContext, Elements, NilSlice
    <2>4. CASE contexts[c].options.array \in DOMAIN arrays
        BY <2>1, <2>2, <2>4, <1>3 DEF optionsFromContext, Elements
    <2> QED
        BY <2>3, <2>4, <1>3 DEF CtxTypeOK
<1> QED
    BY <1>1, <1>2, <1>3 DEF CtxNext

(* A context carries the same options for ever, whatever is derived from   *)
(* it or beside it.                                                        *)
THEOREM ContextsNeverChange == CtxSpec => ContextsImmutable
<1>1. CtxTypeOK /\ [CtxNext]_ctxVars =>
          [\A c \in DOMAIN contexts : optionsFromContext(c)' = optionsFromContext(c)]_ctxVars
    BY ContextsKept
<1> QED
    BY <1>1, ContextTypeCorrect, PTL DEF CtxSpec, ContextsImmutable

(* The property of one context, with its parent as a constant.             *)
LEMMA LayerKept ==
    ASSUME CtxTypeOK, CtxTypeOK', ChildExtendsParent, CtxNext,
           NEW c \in DOMAIN contexts', NEW p, p = contexts'[c].parent, p # NilContext
    PROVE  /\ Len(optionsFromContext(p)') < Len(optionsFromContext(c)')
           /\ SubSeq(optionsFromContext(c)', 1, Len(optionsFromContext(p)')) =
              optionsFromContext(p)'
<1>1. PICK ctx \in DOMAIN contexts, opts \in OptionLists : ContextWithOptions(ctx, opts)
    BY DEF CtxNext
<1> DEFINE all == optionsFromContext(ctx) \o opts
<1>2. /\ all \in Seq(Options)
      /\ opts # <<>>
      /\ arrays' = Append(arrays, all)
      /\ contexts' = Append(contexts,
            [parent  |-> ctx,
             options |-> [array |-> Len(arrays) + 1, len |-> Len(all)]])
    BY <1>1, ContextStep
<1>3. /\ arrays \in Seq(Seq(Options))
      /\ contexts \in Seq(Context)
      /\ \A d \in DOMAIN contexts : contexts[d].parent \in 0 .. d - 1
    BY DEF CtxTypeOK
<1>4. CASE c \in DOMAIN contexts
    <2>1. contexts'[c] = contexts[c]
        BY <1>2, <1>3, <1>4
    <2>2. p \in DOMAIN contexts
        <3>1. p \in 0 .. c - 1 /\ c \in 1 .. Len(contexts)
            BY <1>3, <1>4, <2>1
        <3> QED
            BY <1>3, <3>1 DEF NilContext
    <2>3. /\ optionsFromContext(p)' = optionsFromContext(p)
          /\ optionsFromContext(c)' = optionsFromContext(c)
        BY <1>4, <2>2, ContextsKept
    <2>4. /\ Len(optionsFromContext(p)) < Len(optionsFromContext(c))
          /\ SubSeq(optionsFromContext(c), 1, Len(optionsFromContext(p))) =
             optionsFromContext(p)
        BY <1>4, <2>1 DEF ChildExtendsParent
    <2> QED
        BY <2>3, <2>4
<1>5. CASE c = Len(contexts) + 1
    <2>1. p = ctx /\ optionsFromContext(p)' = optionsFromContext(ctx)
        BY <1>1, <1>2, <1>3, <1>5, ContextsKept
    <2>2. optionsFromContext(c)' = all
        <3>1. /\ contexts'[c].options = [array |-> Len(arrays) + 1, len |-> Len(all)]
              /\ arrays'[Len(arrays) + 1] = all
            BY <1>2, <1>3, <1>5
        <3>2. c # NilContext
            BY <1>3, <1>5 DEF NilContext
        <3>3. optionsFromContext(c)' = [i \in 1 .. Len(all) |-> all[i]]
            <4> HIDE DEF all
            <4> QED
                BY <3>1, <3>2 DEF optionsFromContext, Elements
        <3>4. all = [i \in 1 .. Len(all) |-> all[i]]
            <4>1. all \in Seq(Options)
                BY <1>2
            <4> HIDE DEF all
            <4>2. all \in [1 .. Len(all) -> Options]
                BY <4>1, LenProperties
            <4> QED
                BY <4>2
        <3> QED
            BY <3>3, <3>4
    <2>3. optionsFromContext(ctx) \in Seq(Options) /\ opts \in Seq(Options)
        BY OptionsType
    <2> QED
        BY <1>2, <2>1, <2>2, <2>3
<1>6. c \in 1 .. Len(contexts) + 1
    BY <1>2, <1>3
<1> QED
    BY <1>3, <1>4, <1>5, <1>6

LEMMA LayersStep ==
    ASSUME CtxTypeOK, ChildExtendsParent, [CtxNext]_ctxVars
    PROVE  ChildExtendsParent'
<1>1. CASE UNCHANGED ctxVars
    <2>1. arrays' = arrays /\ contexts' = contexts
        BY <1>1 DEF ctxVars
    <2>2. \A c : optionsFromContext(c)' = optionsFromContext(c)
        BY <2>1 DEF optionsFromContext, Elements
    <2> QED
        BY <2>1, <2>2 DEF ChildExtendsParent
<1>2. CASE CtxNext
    BY <1>2, LayerKept, ContextTypeStep DEF ChildExtendsParent
<1> QED
    BY <1>1, <1>2

(* A derived context carries its parent's options first, and more.         *)
THEOREM ContextsLayered == CtxSpec => []ChildExtendsParent
<1>1. CtxInit => ChildExtendsParent
    BY DEF CtxInit, ChildExtendsParent, NilContext
<1>2. CtxTypeOK /\ ChildExtendsParent /\ [CtxNext]_ctxVars => ChildExtendsParent'
    BY LayersStep
<1> QED
    BY <1>1, <1>2, ContextTypeCorrect, PTL DEF CtxSpec

-----------------------------------------------------------------------------
(* Definitions                                                             *)

LEMMA DefaultSettingsType == defaultSettings \in Settings
BY DEF defaultSettings, Settings, Funcs

USE OptionsAssumption

LEMMA ApplySettingType ==
    ASSUME NEW s \in Settings, NEW o \in OptionValues(Keys, Values)
    PROVE  applySetting(s, o) \in Settings
<1> USE DEF Settings, applySetting
<1>1. CASE o.op = "noTrace"
    BY <1>1
<1>2. CASE o \in [op : {"stackSkip"}, skip : Int]
    BY <1>2
<1>3. CASE o \in [op : {"stackDepth"}, depth : Int]
    BY <1>3
<1>4. CASE o \in [op : {"stackSource"}, around : Nat, depth : Int]
    BY <1>4
<1>5. CASE o \in [op : {"formatter", "jsonMarshaler", "logValuer"}, fn : Funcs]
    BY <1>5
<1>6. CASE o.op \in {"field", "noop"}
    BY <1>6
<1> QED
    BY <1>1, <1>2, <1>3, <1>4, <1>5, <1>6 DEF OptionValues

LEMMA CapturedStackType ==
    ASSUME NEW s \in Settings, NEW skip \in Int
    PROVE  capturedStack(s, skip) \in Stacks
<1>1. CASE s.noTrace
    BY <1>1 DEF capturedStack, Stacks
<1>2. CASE ~s.noTrace
    BY <1>2 DEF capturedStack, Stacks, Settings, callersDepth
<1> QED
    BY <1>1, <1>2

LEMMA SetType ==
    ASSUME NEW f \in FieldsObject, NEW k \in Keys, NEW v \in Values
    PROVE  set(f, k, v) \in FieldsObject
BY DEF FieldsObject, Entry, set

(* The object that Define allocates.                                       *)
LEMMA DefineType ==
    ASSUME NEW kind \in Kinds, NEW n \in Nat
    PROVE  /\ [rootDef |-> NoDef, kind |-> kind, fields |-> n, settings |-> defaultSettings]
                  \in DefObject
           /\ newFields \in FieldsObject
<1>1. defaultSettings \in Settings
    BY DefaultSettingsType
<1>2. [k \in Keys |-> NotSet] \in [Keys -> Entry \cup {NotSet}]
    OBVIOUS
<1>3. newFields \in FieldsObject
    BY <1>2 DEF FieldsObject, newFields
<1> QED
    BY <1>1, <1>3 DEF DefObject, NoDef

-----------------------------------------------------------------------------

LEMMA TypeInit == Init => TypeOK
BY ContextTypeInit DEF Init, TypeOK, Idle, NoDef

LEMMA DefineKeepsType ==
    ASSUME TypeOK, NEW g \in Goroutines, NEW kind \in Kinds, NEW opts \in OptionLists,
           Define(g, kind, opts)
    PROVE  TypeOK'
<1> DEFINE obj == [rootDef |-> NoDef, kind |-> kind,
                   fields |-> Len(fieldStore) + 1, settings |-> defaultSettings]
<1>1. /\ defs' = Append(defs, obj)
      /\ fieldStore' = Append(fieldStore, newFields)
      /\ call' = [call EXCEPT ![g] = [def |-> Len(defs) + 1, pending |-> opts]]
      /\ UNCHANGED <<ctxVars, published, errors>>
    BY DEF Define
<1>2. /\ defs \in Seq(DefObject) /\ fieldStore \in Seq(FieldsObject)
      /\ opts \in Seq(Options)
    BY DEF TypeOK
<1>3. obj \in DefObject /\ newFields \in FieldsObject /\ obj.fields = Len(fieldStore) + 1
    <2>1. Len(fieldStore) + 1 \in Nat
        BY <1>2
    <2> QED
        BY <2>1, DefineType
<1> HIDE DEF obj
<1>4. CtxTypeOK'
    BY <1>1, ContextTypeStep DEF TypeOK
<1> QED
    <2>1. defs' \in Seq(DefObject) /\ fieldStore' \in Seq(FieldsObject)
        <3>1. Append(defs, obj) \in Seq(DefObject)
            BY <1>2, <1>3, AppendProperties
        <3>2. Append(fieldStore, newFields) \in Seq(FieldsObject)
            BY <1>2, <1>3, AppendProperties
        <3> QED
            BY <1>1, <3>1, <3>2
    <2>2. \A x \in DOMAIN defs' : defs'[x].fields \in DOMAIN fieldStore'
        <3>1. /\ DOMAIN fieldStore' = 1 .. Len(fieldStore) + 1
              /\ Len(fieldStore) + 1 \in DOMAIN fieldStore'
              /\ DOMAIN fieldStore \subseteq DOMAIN fieldStore'
            BY <1>1, <1>2
        <3>2. /\ DOMAIN defs' = DOMAIN defs \cup {Len(defs) + 1}
              /\ defs'[Len(defs) + 1] = obj
              /\ \A x \in DOMAIN defs : defs'[x] = defs[x]
            BY <1>1, <1>2
        <3>3. \A x \in DOMAIN defs : defs[x].fields \in DOMAIN fieldStore
            BY DEF TypeOK
        <3> QED
            BY <3>1, <3>2, <3>3, <1>3
    <2>3. published' \subseteq DOMAIN defs'
        BY <1>1, <1>2, <1>3 DEF TypeOK
    <2>4. call' \in [Goroutines -> [def : Nat, pending : Seq(Options)]]
        BY <1>1, <1>2 DEF TypeOK
    <2>5. \A h \in Goroutines : IF call'[h].def = NoDef THEN call'[h].pending = <<>>
                                                        ELSE call'[h].def \in DOMAIN defs'
        <3>1. /\ Len(defs) + 1 \in DOMAIN defs' /\ Len(defs) + 1 # NoDef
              /\ DOMAIN defs \subseteq DOMAIN defs'
            BY <1>1, <1>2, <1>3 DEF NoDef
        <3>2. /\ call'[g] = [def |-> Len(defs) + 1, pending |-> opts]
              /\ \A h \in Goroutines \ {g} : call'[h] = call[h]
            BY <1>1 DEF TypeOK
        <3> QED
            BY <3>1, <3>2 DEF TypeOK
    <2> QED
        BY <1>1, <1>4, <2>1, <2>2, <2>3, <2>4, <2>5 DEF TypeOK

LEMMA DeriveKeepsType ==
    ASSUME TypeOK, NEW g \in Goroutines, NEW d \in DOMAIN defs, NEW opts \in Seq(Options),
           derive(g, d, opts)
    PROVE  TypeOK'
<1> DEFINE obj == [defs[d] EXCEPT !.rootDef = root(d), !.fields = Len(fieldStore) + 1]
           fields == fieldStore[defs[d].fields]
<1>1. /\ defs' = Append(defs, obj)
      /\ fieldStore' = Append(fieldStore, fields)
      /\ call' = [call EXCEPT ![g] = [def |-> Len(defs) + 1, pending |-> opts]]
      /\ UNCHANGED <<ctxVars, published, errors>>
    BY DEF derive, clone, cloneFields
<1>2. defs \in Seq(DefObject) /\ fieldStore \in Seq(FieldsObject)
    BY DEF TypeOK
<1>3. obj \in DefObject /\ fields \in FieldsObject /\ obj.fields = Len(fieldStore) + 1
    <2>1. defs[d] \in DefObject
        BY <1>2, ElementOfSeq, LenProperties
    <2>2. defs[d].fields \in DOMAIN fieldStore
        BY DEF TypeOK
    <2>3. fields \in FieldsObject
        BY <1>2, <2>2, ElementOfSeq, LenProperties
    <2>4. Len(fieldStore) + 1 \in Nat /\ root(d) \in Nat
        BY <1>2, <2>1, LenProperties DEF root, DefObject
    <2> QED
        BY <2>1, <2>3, <2>4 DEF DefObject
<1> HIDE DEF obj, fields
<1>4. CtxTypeOK'
    BY <1>1, ContextTypeStep DEF TypeOK
<1> QED
    <2>1. defs' \in Seq(DefObject) /\ fieldStore' \in Seq(FieldsObject)
        <3>1. Append(defs, obj) \in Seq(DefObject)
            BY <1>2, <1>3, AppendProperties
        <3>2. Append(fieldStore, fields) \in Seq(FieldsObject)
            BY <1>2, <1>3, AppendProperties
        <3> QED
            BY <1>1, <3>1, <3>2
    <2>2. \A x \in DOMAIN defs' : defs'[x].fields \in DOMAIN fieldStore'
        <3>1. /\ DOMAIN fieldStore' = 1 .. Len(fieldStore) + 1
              /\ Len(fieldStore) + 1 \in DOMAIN fieldStore'
              /\ DOMAIN fieldStore \subseteq DOMAIN fieldStore'
            BY <1>1, <1>2
        <3>2. /\ DOMAIN defs' = DOMAIN defs \cup {Len(defs) + 1}
              /\ defs'[Len(defs) + 1] = obj
              /\ \A x \in DOMAIN defs : defs'[x] = defs[x]
            BY <1>1, <1>2
        <3>3. \A x \in DOMAIN defs : defs[x].fields \in DOMAIN fieldStore
            BY DEF TypeOK
        <3> QED
            BY <3>1, <3>2, <3>3, <1>3
    <2>3. published' \subseteq DOMAIN defs'
        BY <1>1, <1>2, <1>3 DEF TypeOK
    <2>4. call' \in [Goroutines -> [def : Nat, pending : Seq(Options)]]
        BY <1>1, <1>2 DEF TypeOK
    <2>5. \A h \in Goroutines : IF call'[h].def = NoDef THEN call'[h].pending = <<>>
                                                        ELSE call'[h].def \in DOMAIN defs'
        <3>1. /\ Len(defs) + 1 \in DOMAIN defs' /\ Len(defs) + 1 # NoDef
              /\ DOMAIN defs \subseteq DOMAIN defs'
            BY <1>1, <1>2, <1>3 DEF NoDef
        <3>2. /\ call'[g] = [def |-> Len(defs) + 1, pending |-> opts]
              /\ \A h \in Goroutines \ {g} : call'[h] = call[h]
            BY <1>1 DEF TypeOK
        <3>3. call'[g].def \in DOMAIN defs' /\ call'[g].def # NoDef
            BY <3>1, <3>2
        <3>4. \A h \in Goroutines \ {g} :
                 IF call[h].def = NoDef THEN call[h].pending = <<>>
                                        ELSE call[h].def \in DOMAIN defs'
            BY <3>1 DEF TypeOK
        <3> QED
            BY <3>2, <3>3, <3>4
    <2> QED
        BY <1>1, <1>4, <2>1, <2>2, <2>3, <2>4, <2>5 DEF TypeOK

LEMMA ApplyKeepsType ==
    ASSUME TypeOK, NEW g \in Goroutines, applyOption(g)
    PROVE  TypeOK'
<1> DEFINE d == call[g].def
           o == Head(call[g].pending)
           f == defs[d].fields
<1>1. call[g] \in [def : Nat, pending : Seq(Options)]
    BY DEF TypeOK
<1>2. o \in Options /\ Tail(call[g].pending) \in Seq(Options)
    BY <1>1 DEF applyOption
<1>3. o \in OptionValues(Keys, Values)
    BY <1>2
<1>4. d \in DOMAIN defs /\ d # NoDef
    BY DEF applyOption, TypeOK
<1>5. defs \in Seq(DefObject) /\ fieldStore \in Seq(FieldsObject)
    BY DEF TypeOK
<1>6. defs[d] \in DefObject
    BY <1>4, <1>5, ElementOfSeq, LenProperties
<1>7. f \in DOMAIN fieldStore
    BY <1>4 DEF TypeOK
<1>8. fieldStore[f] \in FieldsObject
    BY <1>5, <1>7, ElementOfSeq, LenProperties
<1>9. /\ defs' = [defs EXCEPT ![d].settings = applySetting(@, o)]
      /\ fieldStore' = IF o.op = "field"
                       THEN [fieldStore EXCEPT ![f] = set(@, o.key, o.value)]
                       ELSE fieldStore
      /\ call' = [call EXCEPT ![g].pending = Tail(@)]
      /\ UNCHANGED <<ctxVars, published, errors>>
    BY DEF applyOption
<1>10. CtxTypeOK'
    BY <1>9, ContextTypeStep DEF TypeOK
<1>11. fieldStore' \in Seq(FieldsObject) /\ DOMAIN fieldStore' = DOMAIN fieldStore
    <2>1. CASE o.op = "field"
        <3>1. o.key \in Keys /\ o.value \in Values
            BY <1>3, <2>1 DEF OptionValues
        <3>2. set(fieldStore[f], o.key, o.value) \in FieldsObject
            BY <1>8, <3>1, SetType
        <3> QED
            BY <1>5, <1>7, <1>9, <2>1, <3>2
    <2> QED
        BY <1>5, <1>9, <2>1
<1>12. applySetting(defs[d].settings, o) \in Settings
    BY <1>3, <1>6, ApplySettingType DEF DefObject
<1> DEFINE new == applySetting(defs[d].settings, o)
<1>13. defs' \in Seq(DefObject) /\ DOMAIN defs' = DOMAIN defs
    <2>1. [defs[d] EXCEPT !.settings = new] \in DefObject
        BY <1>6, <1>12 DEF DefObject
    <2>2. defs' = [defs EXCEPT ![d] = [defs[d] EXCEPT !.settings = new]]
        BY <1>9
    <2> HIDE DEF new
    <2> QED
        BY <1>4, <1>5, <2>1, <2>2
<1>14. \A c \in DOMAIN defs : defs'[c].fields = defs[c].fields
    <2> HIDE DEF new
    <2> SUFFICES ASSUME NEW c \in DOMAIN defs
                 PROVE  defs'[c].fields = defs[c].fields
        OBVIOUS
    <2>1. defs[c] \in DefObject
        BY <1>5, ElementOfSeq, LenProperties
    <2>2. defs' = [defs EXCEPT ![d] = [defs[d] EXCEPT !.settings = new]]
        BY <1>9 DEF new
    <2> QED
        BY <1>4, <1>6, <2>1, <2>2 DEF DefObject
<1>15. /\ call' \in [Goroutines -> [def : Nat, pending : Seq(Options)]]
       /\ \A h \in Goroutines : call'[h].def = call[h].def
       /\ \A h \in Goroutines \ {g} : call'[h] = call[h]
    BY <1>1, <1>2, <1>9 DEF TypeOK
<1> QED
    <2>1. \A c \in DOMAIN defs' : defs'[c].fields \in DOMAIN fieldStore'
        BY <1>11, <1>13, <1>14 DEF TypeOK
    <2>2. \A h \in Goroutines : IF call'[h].def = NoDef THEN call'[h].pending = <<>>
                                                        ELSE call'[h].def \in DOMAIN defs'
        BY <1>4, <1>13, <1>15 DEF TypeOK
    <2> HIDE DEF d, o, f
    <2> QED
        BY <1>9, <1>10, <1>11, <1>13, <1>15, <2>1, <2>2 DEF TypeOK

LEMMA ReturnKeepsType ==
    ASSUME TypeOK, NEW g \in Goroutines, Return(g)
    PROVE  TypeOK'
<1>1. /\ published' = published \cup {call[g].def}
      /\ call' = [call EXCEPT ![g] = Idle]
      /\ UNCHANGED <<ctxVars, defs, fieldStore, errors>>
      /\ call[g].def \in DOMAIN defs
    BY DEF Return, TypeOK
<1>2. CtxTypeOK'
    BY <1>1, ContextTypeStep DEF TypeOK
<1>3. call' \in [Goroutines -> [def : Nat, pending : Seq(Options)]]
    BY <1>1 DEF TypeOK, Idle, NoDef
<1>4. \A h \in Goroutines : IF call'[h].def = NoDef THEN call'[h].pending = <<>>
                                                    ELSE call'[h].def \in DOMAIN defs'
    BY <1>1 DEF TypeOK, Idle, NoDef
<1> QED
    BY <1>1, <1>2, <1>3, <1>4 DEF TypeOK

LEMMA NewErrorKeepsType ==
    ASSUME TypeOK, NEW d \in published, NEW how \in {"new", "wrap", "join", "panic"},
           NEW causes \in Seq(Nat \cup {Foreign}), NEW skip \in Int,
           newError(d, how, causes, skip)
    PROVE  TypeOK'
<1> DEFINE err == [def |-> d, how |-> how, causes |-> causes,
                   stack |-> capturedStack(defs[d].settings, skip)]
<1>1. /\ errors' = Append(errors, err)
      /\ UNCHANGED <<ctxVars, defs, fieldStore, published, call>>
    BY DEF newError
<1>2. err \in ErrorObject
    <2>1. d \in DOMAIN defs /\ defs \in Seq(DefObject)
        BY DEF TypeOK
    <2>2. defs[d] \in DefObject /\ d \in Nat
        BY <2>1, ElementOfSeq, LenProperties
    <2>3. capturedStack(defs[d].settings, skip) \in Stacks
        BY <2>2, CapturedStackType DEF DefObject
    <2> QED
        BY <2>2, <2>3 DEF ErrorObject
<1>3. err.def = d
    OBVIOUS
<1> HIDE DEF err
<1>4. errors' \in Seq(ErrorObject)
    BY <1>1, <1>2 DEF TypeOK
<1>5. \A e \in DOMAIN errors' : errors'[e].def \in published
    <2>1. /\ \A e \in DOMAIN errors' : e \in DOMAIN errors \/ e = Len(errors) + 1
          /\ \A e \in DOMAIN errors : errors'[e] = errors[e]
          /\ errors'[Len(errors) + 1] = err
        BY <1>1 DEF TypeOK
    <2>2. \A e \in DOMAIN errors : errors[e].def \in published
        BY DEF TypeOK
    <2> QED
        BY <1>3, <2>1, <2>2
<1>6. CtxTypeOK'
    BY <1>1, ContextTypeStep DEF TypeOK
<1> QED
    BY <1>1, <1>4, <1>5, <1>6 DEF TypeOK

(* Every cause is an earlier error or one of another package.              *)
LEMMA CausesType ==
    ASSUME TypeOK
    PROVE  Causes \subseteq Nat \cup {Foreign}
BY LenProperties DEF TypeOK, Causes

LEMMA CreateErrorKeepsType ==
    ASSUME TypeOK, CreateError
    PROVE  TypeOK'
<1> PICK d \in published :
        \/ New(d)
        \/ \E c \in Causes \cup {Nil} : Wrap(d, c)
        \/ \E n \in 0 .. MaxJoin : \E cs \in [1 .. n -> Causes] : Join(d, cs)
        \/ \E v \in Causes : Recover(d, v)
    BY DEF CreateError
<1>1. callersSkip \in Int /\ recoverSkip \in Int
    BY DEF callersSkip, recoverSkip
<1>2. CASE New(d)
    <2>1. <<>> \in Seq(Nat \cup {Foreign})
        OBVIOUS
    <2> QED
        BY <1>1, <1>2, <2>1, NewErrorKeepsType DEF New
<1>3. ASSUME NEW c \in Causes, Wrap(d, c)  PROVE TypeOK'
    <2>1. <<c>> \in Seq(Nat \cup {Foreign})
        BY CausesType
    <2> QED
        BY <1>1, <1>3, <2>1, NewErrorKeepsType DEF Wrap
<1>4. ASSUME NEW n \in 0 .. MaxJoin, NEW cs \in [1 .. n -> Causes], Join(d, cs)  PROVE TypeOK'
    <2>1. cs \in Seq(Nat \cup {Foreign})
        BY CausesType
    <2> QED
        BY <1>1, <1>4, <2>1, NewErrorKeepsType DEF Join
<1>5. ASSUME NEW v \in Causes, Recover(d, v)  PROVE TypeOK'
    <2>1. <<v>> \in Seq(Nat \cup {Foreign})
        BY CausesType
    <2> QED
        BY <1>1, <1>5, <2>1, NewErrorKeepsType DEF Recover
<1>6. ASSUME NEW c \in Causes \cup {Nil}, Wrap(d, c)  PROVE TypeOK'
    BY <1>3, <1>6 DEF Wrap
<1> QED
    BY <1>2, <1>4, <1>5, <1>6

LEMMA WithDerives ==
    ASSUME TypeOK, NEW g \in Goroutines, NEW d \in published,
           NEW ctx \in DOMAIN contexts \cup {NilContext}, NEW opts \in OptionLists,
           With(g, d, ctx, opts)
    PROVE  /\ d \in DOMAIN defs
           /\ optionsFromContext(ctx) \o opts \in Seq(Options)
           /\ derive(g, d, optionsFromContext(ctx) \o opts)
<1>1. optionsFromContext(ctx) \in Seq(Options)
    BY OptionsType DEF TypeOK
<1>2. opts \in Seq(Options)
    OBVIOUS
<1> QED
    BY <1>1, <1>2 DEF TypeOK, With

LEMMA TypeStep == TypeOK /\ [Next]_vars => TypeOK'
<1> SUFFICES ASSUME TypeOK, [Next]_vars  PROVE TypeOK'
    OBVIOUS
<1>1. ASSUME NEW g \in Goroutines, NEW kind \in Kinds, NEW opts \in OptionLists,
             Define(g, kind, opts)
      PROVE  TypeOK'
    BY <1>1, DefineKeepsType
<1>2. ASSUME NEW g \in Goroutines, NEW d \in published,
             NEW ctx \in DOMAIN contexts \cup {NilContext}, NEW opts \in OptionLists,
             With(g, d, ctx, opts)
      PROVE  TypeOK'
    BY <1>2, WithDerives, DeriveKeepsType
<1>3. ASSUME NEW g \in Goroutines, applyOption(g)  PROVE TypeOK'
    BY <1>3, ApplyKeepsType
<1>4. ASSUME NEW g \in Goroutines, Return(g)  PROVE TypeOK'
    BY <1>4, ReturnKeepsType
<1>5. CASE CreateError
    BY <1>5, CreateErrorKeepsType
<1>6. CASE DeriveContext
    <2>1. CtxTypeOK'
        BY <1>6, ContextTypeStep DEF DeriveContext, TypeOK
    <2> QED
        BY <1>6, <2>1 DEF DeriveContext, TypeOK
<1>7. CASE UNCHANGED vars
    <2>1. CtxTypeOK'
        BY <1>7, ContextTypeStep DEF vars, ctxVars, TypeOK
    <2> QED
        BY <1>7, <2>1 DEF vars, TypeOK
<1> QED
    BY <1>1, <1>2, <1>3, <1>4, <1>5, <1>6, <1>7 DEF Next, Build

(* Every pointer of the heap points to an object that exists, and errors   *)
(* only to published definitions (definition.go, error.go).                *)
THEOREM HeapTypeCorrect == Spec => []TypeOK
BY TypeInit, TypeStep, PTL DEF Spec

-----------------------------------------------------------------------------
(* What a step does to the heap: Define and derive allocate one object and *)
(* one field map at its end, applyOption writes one object and its fields, *)
(* and every other step leaves both alone.                                 *)

(* A new definition is its own root, or has the root and the kind of the   *)
(* one it is derived from.                                                 *)
Rooted(obj) ==
    \/ obj.rootDef = NoDef
    \/ \E d \in DOMAIN defs : obj.rootDef = root(d) /\ obj.kind = defs[d].kind

Allocates(g) ==
    \E obj, fs, opts :
        /\ obj.fields = Len(fieldStore) + 1
        /\ Rooted(obj)
        /\ fs = newFields \/ \E f \in DOMAIN fieldStore : fs = fieldStore[f]
        /\ defs' = Append(defs, obj)
        /\ fieldStore' = Append(fieldStore, fs)
        /\ call' = [call EXCEPT ![g] = [def |-> Len(defs) + 1, pending |-> opts]]
        /\ UNCHANGED <<published, errors>>

LEMMA DefineAllocates ==
    ASSUME TypeOK, NEW g \in Goroutines, NEW kind \in Kinds, NEW opts \in OptionLists,
           Define(g, kind, opts)
    PROVE  Allocates(g)
<1> DEFINE obj == [rootDef |-> NoDef, kind |-> kind,
                   fields |-> Len(fieldStore) + 1, settings |-> defaultSettings]
<1>1. obj.fields = Len(fieldStore) + 1 /\ Rooted(obj)
    BY DEF Rooted
<1>2. /\ defs' = Append(defs, obj)
      /\ fieldStore' = Append(fieldStore, newFields)
      /\ call' = [call EXCEPT ![g] = [def |-> Len(defs) + 1, pending |-> opts]]
      /\ UNCHANGED <<published, errors>>
    BY DEF Define
<1> HIDE DEF obj
<1> QED
    BY <1>1, <1>2 DEF Allocates

LEMMA DeriveAllocates ==
    ASSUME TypeOK, NEW g \in Goroutines, NEW d \in DOMAIN defs, NEW opts \in Seq(Options),
           derive(g, d, opts)
    PROVE  Allocates(g)
<1> DEFINE obj == [defs[d] EXCEPT !.rootDef = root(d), !.fields = Len(fieldStore) + 1]
           fs == fieldStore[defs[d].fields]
<1>1. obj.fields = Len(fieldStore) + 1 /\ Rooted(obj) /\ defs[d].fields \in DOMAIN fieldStore
    <2>1. defs[d] \in DefObject
        BY ElementOfSeq, LenProperties DEF TypeOK
    <2>2. obj.fields = Len(fieldStore) + 1 /\ obj.rootDef = root(d) /\ obj.kind = defs[d].kind
        BY <2>1 DEF DefObject
    <2> QED
        BY <2>2 DEF Rooted, TypeOK
<1>2. /\ defs' = Append(defs, obj)
      /\ fieldStore' = Append(fieldStore, fs)
      /\ call' = [call EXCEPT ![g] = [def |-> Len(defs) + 1, pending |-> opts]]
      /\ UNCHANGED <<published, errors>>
    BY DEF derive, clone, cloneFields
<1>3. \E f \in DOMAIN fieldStore : fs = fieldStore[f]
    BY <1>1
<1> HIDE DEF obj, fs
<1> QED
    BY <1>1, <1>2, <1>3 DEF Allocates

LEMMA AllocateEffect ==
    ASSUME TypeOK, NEW g \in Goroutines, Allocates(g)
    PROVE  /\ DOMAIN defs' = DOMAIN defs \cup {Len(defs) + 1}
           /\ Len(defs) + 1 \notin DOMAIN defs
           /\ defs'[Len(defs) + 1].fields = Len(fieldStore) + 1
           /\ Rooted(defs'[Len(defs) + 1])
           /\ \A d \in DOMAIN defs : defs'[d] = defs[d]
           /\ DOMAIN fieldStore' = DOMAIN fieldStore \cup {Len(fieldStore) + 1}
           /\ Len(fieldStore) + 1 \notin DOMAIN fieldStore
           /\ \/ fieldStore'[Len(fieldStore) + 1] = newFields
              \/ \E f \in DOMAIN fieldStore :
                    fieldStore'[Len(fieldStore) + 1] = fieldStore[f]
           /\ \A f \in DOMAIN fieldStore : fieldStore'[f] = fieldStore[f]
           /\ call'[g].def = Len(defs) + 1
           /\ \A h \in Goroutines \ {g} : call'[h] = call[h]
           /\ UNCHANGED <<published, errors>>
<1> PICK obj, fs, opts :
        /\ obj.fields = Len(fieldStore) + 1
        /\ Rooted(obj)
        /\ fs = newFields \/ \E f \in DOMAIN fieldStore : fs = fieldStore[f]
        /\ defs' = Append(defs, obj)
        /\ fieldStore' = Append(fieldStore, fs)
        /\ call' = [call EXCEPT ![g] = [def |-> Len(defs) + 1, pending |-> opts]]
        /\ UNCHANGED <<published, errors>>
    BY DEF Allocates
<1>1. defs \in Seq(DefObject) /\ fieldStore \in Seq(FieldsObject)
    BY DEF TypeOK
<1>2. /\ DOMAIN defs' = DOMAIN defs \cup {Len(defs) + 1}
      /\ Len(defs) + 1 \notin DOMAIN defs
      /\ \A d \in DOMAIN defs : defs'[d] = defs[d]
      /\ defs'[Len(defs) + 1] = obj
    BY <1>1
<1>3. /\ DOMAIN fieldStore' = DOMAIN fieldStore \cup {Len(fieldStore) + 1}
      /\ \A f \in DOMAIN fieldStore : fieldStore'[f] = fieldStore[f]
      /\ Len(fieldStore) + 1 \notin DOMAIN fieldStore
      /\ fieldStore'[Len(fieldStore) + 1] = fs
    BY <1>1
<1>4. call'[g].def = Len(defs) + 1 /\ \A h \in Goroutines \ {g} : call'[h] = call[h]
    BY DEF TypeOK
<1> QED
    BY <1>2, <1>3, <1>4

LEMMA ApplyEffect ==
    ASSUME TypeOK, NEW g \in Goroutines, applyOption(g)
    PROVE  /\ call[g].def # NoDef
           /\ DOMAIN defs' = DOMAIN defs
           /\ \A c \in DOMAIN defs : /\ defs'[c].fields = defs[c].fields
                                     /\ defs'[c].rootDef = defs[c].rootDef
                                     /\ defs'[c].kind = defs[c].kind
           /\ \A c \in DOMAIN defs \ {call[g].def} : defs'[c] = defs[c]
           /\ DOMAIN fieldStore' = DOMAIN fieldStore
           /\ \A f \in DOMAIN fieldStore \ {defs[call[g].def].fields} :
                 fieldStore'[f] = fieldStore[f]
           /\ LET f == defs[call[g].def].fields
              IN \/ fieldStore'[f] = fieldStore[f]
                 \/ \E k \in Keys, v \in Values : fieldStore'[f] = set(fieldStore[f], k, v)
           /\ \A h \in Goroutines : call'[h].def = call[h].def
           /\ UNCHANGED <<published, errors>>
<1> DEFINE d == call[g].def
           new == applySetting(defs[d].settings, Head(call[g].pending))
           written == set(fieldStore[defs[d].fields],
                          Head(call[g].pending).key, Head(call[g].pending).value)
<1>1. d \in DOMAIN defs /\ d # NoDef
    BY DEF applyOption, TypeOK
<1>2. defs \in Seq(DefObject) /\ fieldStore \in Seq(FieldsObject)
    BY DEF TypeOK
<1>3. defs' = [defs EXCEPT ![d] = [defs[d] EXCEPT !.settings = new]]
    BY DEF applyOption
<1>4. \/ fieldStore' = fieldStore
      \/ /\ fieldStore' = [fieldStore EXCEPT ![defs[d].fields] = written]
         /\ \E k \in Keys, v \in Values : written = set(fieldStore[defs[d].fields], k, v)
    <2>1. call[g] \in [def : Nat, pending : Seq(Options)]
        BY DEF TypeOK
    <2>2. Head(call[g].pending) \in OptionValues(Keys, Values)
        BY <2>1 DEF applyOption
    <2>3. Head(call[g].pending).op = "field"
            => Head(call[g].pending).key \in Keys /\ Head(call[g].pending).value \in Values
        BY <2>2 DEF OptionValues
    <2> QED
        BY <2>3 DEF applyOption
<1>5. call' = [call EXCEPT ![g].pending = Tail(@)] /\ UNCHANGED <<published, errors>>
    BY DEF applyOption
<1>6. \A h \in Goroutines : call'[h].def = call[h].def
    BY <1>5 DEF TypeOK
<1> HIDE DEF d, new, written
<1>7. defs[d] \in DefObject
    BY <1>1, <1>2, ElementOfSeq, LenProperties
<1>8. /\ DOMAIN defs' = DOMAIN defs
      /\ \A c \in DOMAIN defs \ {d} : defs'[c] = defs[c]
      /\ defs'[d] = [defs[d] EXCEPT !.settings = new]
    BY <1>1, <1>2, <1>3
<1>9. /\ defs'[d].fields = defs[d].fields
      /\ defs'[d].rootDef = defs[d].rootDef
      /\ defs'[d].kind = defs[d].kind
    BY <1>7, <1>8 DEF DefObject
<1>10. /\ DOMAIN fieldStore' = DOMAIN fieldStore
       /\ \A f \in DOMAIN fieldStore \ {defs[d].fields} : fieldStore'[f] = fieldStore[f]
       /\ \/ fieldStore'[defs[d].fields] = fieldStore[defs[d].fields]
          \/ \E k \in Keys, v \in Values :
                fieldStore'[defs[d].fields] = set(fieldStore[defs[d].fields], k, v)
    <2>1. defs[d].fields \in DOMAIN fieldStore
        BY <1>1 DEF TypeOK
    <2> QED
        BY <1>2, <1>4, <2>1
<1> QED
    BY <1>1, <1>5, <1>6, <1>8, <1>9, <1>10 DEF d

HeapStep ==
    \/ \E g \in Goroutines : Allocates(g) \/ applyOption(g) \/ Return(g)
    \/ CreateError
    \/ UNCHANGED <<defs, fieldStore, published, errors, call>>

LEMMA EveryStepIsHeapStep ==
    ASSUME TypeOK, [Next]_vars
    PROVE  HeapStep
<1>1. ASSUME NEW g \in Goroutines, NEW kind \in Kinds, NEW opts \in OptionLists,
             Define(g, kind, opts)
      PROVE  HeapStep
    BY <1>1, DefineAllocates DEF HeapStep
<1>2. ASSUME NEW g \in Goroutines, NEW d \in published,
             NEW ctx \in DOMAIN contexts \cup {NilContext}, NEW opts \in OptionLists,
             With(g, d, ctx, opts)
      PROVE  HeapStep
    BY <1>2, WithDerives, DeriveAllocates DEF HeapStep
<1>3. ASSUME NEW g \in Goroutines, applyOption(g) \/ Return(g)  PROVE HeapStep
    BY <1>3 DEF HeapStep
<1>4. CASE CreateError
    BY <1>4 DEF HeapStep
<1>5. CASE DeriveContext \/ UNCHANGED vars
    BY <1>5 DEF HeapStep, DeriveContext, vars
<1> QED
    BY <1>1, <1>2, <1>3, <1>4, <1>5 DEF Next, Build

(* Creating an error adds it to the errors and changes nothing else.       *)
LEMMA CreateErrorEffect ==
    ASSUME TypeOK, CreateError
    PROVE  /\ UNCHANGED <<defs, fieldStore, published, call>>
           /\ \A e \in DOMAIN errors : e \in DOMAIN errors' /\ errors'[e] = errors[e]
<1>1. /\ UNCHANGED <<defs, fieldStore, published, call>>
      /\ \E err : errors' = Append(errors, err)
    BY DEF CreateError, New, Wrap, Join, Recover, newError
<1> QED
    BY <1>1 DEF TypeOK

-----------------------------------------------------------------------------
(* WritersPrivate is inductive once every definition, and not only one     *)
(* being built, is known to have a field map of its own.                   *)

FieldMapsOwned ==
    \A d, e \in DOMAIN defs : d # e => defs[d].fields # defs[e].fields

ObjectsPrivate == FieldMapsOwned /\ WritersPrivate

LEMMA PrivateInit == Init => ObjectsPrivate
BY DEF Init, ObjectsPrivate, FieldMapsOwned, WritersPrivate, Idle

LEMMA AllocateKeepsPrivate ==
    ASSUME TypeOK, ObjectsPrivate, NEW g \in Goroutines, Allocates(g)
    PROVE  ObjectsPrivate'
<1> DEFINE new == Len(defs) + 1
<1>1. /\ DOMAIN defs' = DOMAIN defs \cup {new}
      /\ new \notin DOMAIN defs
      /\ defs'[new].fields \notin DOMAIN fieldStore
      /\ \A d \in DOMAIN defs : defs'[d] = defs[d]
      /\ call'[g].def = new
      /\ \A h \in Goroutines \ {g} : call'[h] = call[h]
      /\ published' = published
    BY AllocateEffect
<1>2. \A d \in DOMAIN defs : defs[d].fields \in DOMAIN fieldStore
    BY DEF TypeOK
<1>3. \A h \in Goroutines : call[h].def # NoDef => call[h].def \in DOMAIN defs
    BY DEF TypeOK
<1> HIDE DEF new
<1>4. FieldMapsOwned'
    BY <1>1, <1>2 DEF ObjectsPrivate, FieldMapsOwned
<1>5. WritersPrivate'
    <2> SUFFICES ASSUME NEW h \in Goroutines, call'[h].def # NoDef
                 PROVE  /\ call'[h].def \notin published'
                        /\ \A i \in Goroutines \ {h} : call'[i].def # call'[h].def
                        /\ \A d \in DOMAIN defs' \ {call'[h].def} :
                              defs'[d].fields # defs'[call'[h].def].fields
        BY DEF WritersPrivate
    <2>1. call'[h].def \in DOMAIN defs'
        BY <1>1, <1>3
    <2>2. call'[h].def \notin published'
        BY <1>1, <1>3 DEF ObjectsPrivate, WritersPrivate, TypeOK
    <2>3. \A i \in Goroutines \ {h} : call'[i].def # call'[h].def
        <3>1. CASE h = g
            <4>1. new # NoDef
                BY <1>1, <3>1
            <4> QED
                BY <1>1, <1>3, <3>1, <4>1
        <3>2. CASE h # g
            BY <1>1, <1>3, <3>2 DEF ObjectsPrivate, WritersPrivate
        <3> QED
            BY <3>1, <3>2
    <2> QED
        BY <1>4, <2>1, <2>2, <2>3 DEF FieldMapsOwned
<1> QED
    BY <1>4, <1>5 DEF ObjectsPrivate

LEMMA PrivateStep == TypeOK /\ ObjectsPrivate /\ [Next]_vars => ObjectsPrivate'
<1> SUFFICES ASSUME TypeOK, ObjectsPrivate, [Next]_vars  PROVE ObjectsPrivate'
    OBVIOUS
<1>1. HeapStep
    BY EveryStepIsHeapStep
<1>2. ASSUME NEW g \in Goroutines, Allocates(g)  PROVE ObjectsPrivate'
    BY <1>2, AllocateKeepsPrivate
<1>3. ASSUME NEW g \in Goroutines, applyOption(g)  PROVE ObjectsPrivate'
    <2>1. /\ DOMAIN defs' = DOMAIN defs
          /\ \A c \in DOMAIN defs : defs'[c].fields = defs[c].fields
          /\ \A h \in Goroutines : call'[h].def = call[h].def
          /\ published' = published
        BY <1>3, ApplyEffect
    <2>2. \A h \in Goroutines : call[h].def # NoDef => call[h].def \in DOMAIN defs
        BY DEF TypeOK
    <2>3. FieldMapsOwned'
        BY <2>1 DEF ObjectsPrivate, FieldMapsOwned
    <2>4. WritersPrivate'
        BY <2>1, <2>2 DEF ObjectsPrivate, WritersPrivate
    <2> QED
        BY <2>3, <2>4 DEF ObjectsPrivate
<1>4. ASSUME NEW g \in Goroutines, Return(g)  PROVE ObjectsPrivate'
    <2>1. /\ published' = published \cup {call[g].def}
          /\ call[g].def # NoDef
          /\ call'[g].def = NoDef
          /\ \A h \in Goroutines \ {g} : call'[h] = call[h]
          /\ UNCHANGED <<defs, fieldStore>>
        BY <1>4 DEF Return, TypeOK, Idle
    <2> QED
        BY <2>1 DEF ObjectsPrivate, FieldMapsOwned, WritersPrivate
<1>5. CASE CreateError
    BY <1>5, CreateErrorEffect DEF ObjectsPrivate, FieldMapsOwned, WritersPrivate
<1>6. CASE UNCHANGED <<defs, fieldStore, published, errors, call>>
    BY <1>6 DEF ObjectsPrivate, FieldMapsOwned, WritersPrivate
<1> QED
    BY <1>1, <1>2, <1>3, <1>4, <1>5, <1>6 DEF HeapStep

(* No definition is written but by the one goroutine that still builds it, *)
(* and no field map is shared: maps need no lock (definition.go:234-247).  *)
THEOREM WritersArePrivate == Spec => []WritersPrivate
<1>1. TypeOK /\ ObjectsPrivate /\ [Next]_vars => (TypeOK /\ ObjectsPrivate)'
    BY TypeStep, PrivateStep
<1>2. ObjectsPrivate => WritersPrivate
    BY DEF ObjectsPrivate
<1> QED
    BY TypeInit, PrivateInit, <1>1, <1>2, PTL DEF Spec

-----------------------------------------------------------------------------
(* What no goroutine builds is not written.                                *)
LEMMA PublishedKept ==
    ASSUME TypeOK, ObjectsPrivate, [Next]_vars, NEW d \in published
    PROVE  DefinitionView(d)' = DefinitionView(d) /\ d \in published'
<1>1. d \in DOMAIN defs /\ defs[d].fields \in DOMAIN fieldStore
    BY DEF TypeOK
<1>2. ASSUME defs'[d] = defs[d], fieldStore'[defs[d].fields] = fieldStore[defs[d].fields]
      PROVE  DefinitionView(d)' = DefinitionView(d)
    BY <1>2 DEF DefinitionView
<1>3. HeapStep
    BY EveryStepIsHeapStep
<1>4. ASSUME NEW g \in Goroutines, Allocates(g)
      PROVE  DefinitionView(d)' = DefinitionView(d) /\ d \in published'
    BY <1>1, <1>2, <1>4, AllocateEffect
<1>5. ASSUME NEW g \in Goroutines, applyOption(g)
      PROVE  DefinitionView(d)' = DefinitionView(d) /\ d \in published'
    <2>1. call[g].def \in DOMAIN defs /\ call[g].def # NoDef /\ call[g].def # d
        BY <1>5, ApplyEffect DEF TypeOK, ObjectsPrivate, WritersPrivate
    <2>2. defs[d].fields # defs[call[g].def].fields
        BY <1>1, <2>1 DEF ObjectsPrivate, FieldMapsOwned
    <2> QED
        BY <1>1, <1>2, <1>5, <2>1, <2>2, ApplyEffect
<1>6. ASSUME NEW g \in Goroutines, Return(g)
      PROVE  DefinitionView(d)' = DefinitionView(d) /\ d \in published'
    BY <1>2, <1>6 DEF Return
<1>7. CASE CreateError
    BY <1>2, <1>7, CreateErrorEffect
<1>8. CASE UNCHANGED <<defs, fieldStore, published, errors, call>>
    BY <1>2, <1>8
<1> QED
    BY <1>3, <1>4, <1>5, <1>6, <1>7, <1>8 DEF HeapStep

(* A definition or factory that a caller holds never changes, whatever any *)
(* goroutine derives from it (the clone in With, definition.go:134).       *)
THEOREM PublishedNeverChange == Spec => PublishedImmutable
<1>1. TypeOK /\ ObjectsPrivate /\ [Next]_vars => (TypeOK /\ ObjectsPrivate)'
    BY TypeStep, PrivateStep
<1>2. TypeOK /\ ObjectsPrivate /\ [Next]_vars
        => [\A d \in published : DefinitionView(d)' = DefinitionView(d)]_vars
    BY PublishedKept
<1> QED
    BY TypeInit, PrivateInit, <1>1, <1>2, PTL DEF Spec, PublishedImmutable

LEMMA ErrorKept ==
    ASSUME TypeOK, ObjectsPrivate, [Next]_vars, NEW e \in DOMAIN errors
    PROVE  ErrorView(e)' = ErrorView(e)
<1>1. errors'[e] = errors[e]
    <2>1. HeapStep
        BY EveryStepIsHeapStep
    <2>2. ASSUME NEW g \in Goroutines, Allocates(g) \/ applyOption(g) \/ Return(g)
          PROVE  errors' = errors
        BY <2>2, AllocateEffect, ApplyEffect DEF Return
    <2>3. CASE CreateError
        BY <2>3, CreateErrorEffect
    <2> QED
        BY <2>1, <2>2, <2>3 DEF HeapStep
<1>2. errors[e].def \in published
    BY DEF TypeOK
<1>3. DefinitionView(errors[e].def)' = DefinitionView(errors[e].def)
    BY <1>1, <1>2, PublishedKept DEF DefinitionView
<1> QED
    BY <1>1, <1>3 DEF ErrorView

(* Error instances are immutable after creation (error.go:15), with all    *)
(* they show of their definition.                                          *)
THEOREM ErrorsNeverChange == Spec => ErrorsImmutable
<1>1. TypeOK /\ ObjectsPrivate /\ [Next]_vars => (TypeOK /\ ObjectsPrivate)'
    BY TypeStep, PrivateStep
<1>2. TypeOK /\ ObjectsPrivate /\ [Next]_vars
        => [\A e \in DOMAIN errors : ErrorView(e)' = ErrorView(e)]_vars
    BY ErrorKept
<1> QED
    BY TypeInit, PrivateInit, <1>1, <1>2, PTL DEF Spec, ErrorsImmutable

-----------------------------------------------------------------------------
LEMMA RootsStep == TypeOK /\ RootsAreDefined /\ [Next]_vars => RootsAreDefined'
<1> SUFFICES ASSUME TypeOK, RootsAreDefined, [Next]_vars  PROVE RootsAreDefined'
    OBVIOUS
<1>1. HeapStep
    BY EveryStepIsHeapStep
<1>2. 0 \notin DOMAIN defs
    BY LenProperties DEF TypeOK
<1>3. ASSUME NEW g \in Goroutines, Allocates(g)  PROVE RootsAreDefined'
    <2> PICK new : new = Len(defs) + 1
        OBVIOUS
    <2>1. /\ DOMAIN defs' = DOMAIN defs \cup {new}
          /\ Rooted(defs'[new])
          /\ \A d \in DOMAIN defs : defs'[d] = defs[d]
        BY <1>3, AllocateEffect
    <2>2. \A d \in DOMAIN defs : root(d)' = root(d)
        BY <2>1 DEF root
    <2>3. ASSUME NEW d \in DOMAIN defs
          PROVE  /\ root(d)' \in DOMAIN defs'
                 /\ defs'[root(d)'].rootDef = NoDef
                 /\ defs'[root(d)'].kind = defs'[d].kind
        BY <2>1, <2>2 DEF RootsAreDefined
    <2>4. /\ root(new)' \in DOMAIN defs'
          /\ defs'[root(new)'].rootDef = NoDef
          /\ defs'[root(new)'].kind = defs'[new].kind
        <3>1. CASE defs'[new].rootDef = NoDef
            BY <2>1, <3>1 DEF root
        <3>2. ASSUME NEW d \in DOMAIN defs,
                     defs'[new].rootDef = root(d), defs'[new].kind = defs[d].kind
              PROVE  /\ root(new)' \in DOMAIN defs'
                     /\ defs'[root(new)'].rootDef = NoDef
                     /\ defs'[root(new)'].kind = defs'[new].kind
            <4>1. root(d) \in DOMAIN defs /\ root(d) # NoDef
                BY <1>2 DEF RootsAreDefined, NoDef
            <4>2. root(new)' = root(d)
                BY <3>2, <4>1 DEF root
            <4> QED
                BY <2>1, <3>2, <4>1, <4>2 DEF RootsAreDefined
        <3> QED
            BY <2>1, <3>1, <3>2 DEF Rooted
    <2> QED
        BY <2>1, <2>3, <2>4 DEF RootsAreDefined
<1>4. ASSUME NEW g \in Goroutines, applyOption(g)  PROVE RootsAreDefined'
    <2>1. /\ DOMAIN defs' = DOMAIN defs
          /\ \A c \in DOMAIN defs : /\ defs'[c].rootDef = defs[c].rootDef
                                    /\ defs'[c].kind = defs[c].kind
        BY <1>4, ApplyEffect
    <2> QED
        BY <2>1 DEF RootsAreDefined, root
<1>5. CASE UNCHANGED defs
    BY <1>5 DEF RootsAreDefined, root
<1> QED
    BY <1>1, <1>3, <1>4, <1>5, CreateErrorEffect DEF HeapStep, Return

(* The root of every definition is one that Define allocated, of the same  *)
(* kind, however long the chain of derivations (definition.go:227-241).    *)
THEOREM RootsHold == Spec => []RootsAreDefined
<1>1. Init => RootsAreDefined
    BY DEF Init, RootsAreDefined
<1>2. TypeOK /\ RootsAreDefined /\ [Next]_vars => (TypeOK /\ RootsAreDefined)'
    BY TypeStep, RootsStep
<1> QED
    BY TypeInit, <1>1, <1>2, PTL DEF Spec

-----------------------------------------------------------------------------
Ordered(f) ==
    \A k \in present(f) :
        /\ f.data[k].index \in 1 .. f.lastIndex
        /\ \A l \in present(f) \ {k} : f.data[l].index # f.data[k].index

LEMMA NewFieldsOrdered == Ordered(newFields)
BY DEF Ordered, newFields, present

(* The index of an assignment is above all the others.                     *)
LEMMA SetKeepsOrdered ==
    ASSUME NEW f \in FieldsObject, Ordered(f), NEW k \in Keys, NEW v \in Values
    PROVE  Ordered(set(f, k, v))
<1> DEFINE e == [value |-> v, index |-> f.lastIndex + 1]
           s == set(f, k, v)
<1>1. e \in Entry /\ e # NotSet /\ e.index = f.lastIndex + 1 /\ f.lastIndex \in Nat
    BY NotSetAssumption DEF Entry, FieldsObject
<1>2. /\ s.lastIndex = f.lastIndex + 1
      /\ s.data[k] = e
      /\ \A l \in Keys \ {k} : s.data[l] = f.data[l]
    BY DEF set, FieldsObject
<1> HIDE DEF e, s
<1>3. present(s) \ {k} = present(f) \ {k}
    BY <1>2 DEF present
<1>4. \A l \in present(f) : f.data[l].index \in 1 .. f.lastIndex
    BY DEF Ordered
<1>5. \A l \in present(s) \ {k} : s.data[l] = f.data[l] /\ l \in present(f)
    BY <1>2, <1>3 DEF present
<1>6. ASSUME NEW l \in present(s)
      PROVE  /\ s.data[l].index \in 1 .. s.lastIndex
             /\ \A m \in present(s) \ {l} : s.data[m].index # s.data[l].index
    <2>1. CASE l = k
        BY <1>1, <1>2, <1>4, <1>5, <2>1
    <2>2. CASE l # k
        <3>1. s.data[l].index \in 1 .. f.lastIndex
            BY <1>4, <1>5, <2>2
        <3>2. \A m \in present(s) \ {l} : s.data[m].index # s.data[l].index
            BY <1>1, <1>2, <1>5, <2>2, <3>1 DEF Ordered
        <3> QED
            BY <1>1, <1>2, <3>1, <3>2
    <2> QED
        BY <2>1, <2>2
<1> QED
    BY <1>6 DEF Ordered, s

LEMMA OrderStep == TypeOK /\ FieldOrder /\ [Next]_vars => FieldOrder'
<1> SUFFICES ASSUME TypeOK, FieldOrder, [Next]_vars  PROVE FieldOrder'
    OBVIOUS
<1>1. HeapStep
    BY EveryStepIsHeapStep
<1>2. \A f \in DOMAIN fieldStore : Ordered(fieldStore[f])
    BY DEF FieldOrder, Ordered
<1>3. (\A f \in DOMAIN fieldStore' : Ordered(fieldStore'[f])) => FieldOrder'
    BY DEF FieldOrder, Ordered, present
<1>4. ASSUME NEW g \in Goroutines, Allocates(g)  PROVE FieldOrder'
    BY <1>2, <1>3, <1>4, AllocateEffect, NewFieldsOrdered
<1>5. ASSUME NEW g \in Goroutines, applyOption(g)  PROVE FieldOrder'
    <2> DEFINE w == defs[call[g].def].fields
    <2>1. /\ DOMAIN fieldStore' = DOMAIN fieldStore
          /\ \A f \in DOMAIN fieldStore \ {w} : fieldStore'[f] = fieldStore[f]
          /\ \/ fieldStore'[w] = fieldStore[w]
             \/ \E k \in Keys, v \in Values : fieldStore'[w] = set(fieldStore[w], k, v)
        BY <1>5, ApplyEffect
    <2>2. \A f \in DOMAIN fieldStore : fieldStore[f] \in FieldsObject
        BY ElementOfSeq, LenProperties DEF TypeOK
    <2> HIDE DEF w
    <2> QED
        BY <1>2, <1>3, <2>1, <2>2, SetKeepsOrdered
<1>6. CASE UNCHANGED fieldStore
    BY <1>6 DEF FieldOrder, present
<1> QED
    BY <1>1, <1>4, <1>5, <1>6, CreateErrorEffect DEF HeapStep, Return

(* In every field map, cloned or not, the indices tell the fields apart    *)
(* and the next one is above them all (field.go:147-163).                  *)
THEOREM FieldOrderHolds == Spec => []FieldOrder
<1>1. Init => FieldOrder
    BY DEF Init, FieldOrder
<1>2. TypeOK /\ FieldOrder /\ [Next]_vars => (TypeOK /\ FieldOrder)'
    BY TypeStep, OrderStep
<1> QED
    BY TypeInit, <1>1, <1>2, PTL DEF Spec

-----------------------------------------------------------------------------
(* Lists of options, one option longer.                                    *)

LEMMA LeastNumber ==
    ASSUME NEW I, I \subseteq Nat, I # {}
    PROVE  \E x \in I : \A y \in I : x <= y
<1> DEFINE R == OpToRel(<, Nat)
<1>1. IsWellFoundedOn(R, Nat)
    BY NatLessThanWellFounded
<1>2. \A x, y \in Nat : y < x => <<y, x>> \in R
    BY DEF OpToRel
<1> HIDE DEF R
<1>3. PICK x \in I : \A y \in I : ~ (<<y, x>> \in R)
    BY <1>1, WFMin
<1>4. \A y \in I : x <= y
    <2> TAKE y \in I
    <2>1. x \in Nat /\ y \in Nat /\ ~ (<<y, x>> \in R)
        BY <1>3
    <2>2. ~ (y < x)
        BY <1>2, <2>1
    <2> QED
        BY <2>1, <2>2
<1> QED
    BY <1>4

LEMMA Greatest ==
    ASSUME NEW n \in Nat, NEW I, I \subseteq 1 .. n, I # {}
    PROVE  Templates!Max(I) \in I /\ \A i \in I : i <= Templates!Max(I)
<1> DEFINE Above == {j \in 1 .. n : \A i \in I : i <= j}
<1>1. n \in Above
    <2>1. PICK i \in I : i \in 1 .. n
        OBVIOUS
    <2>2. n \in 1 .. n /\ \A j \in I : j <= n
        BY <2>1
    <2> QED
        BY <2>2
<1>2. PICK x \in Above : \A y \in Above : x <= y
    <2>1. Above \subseteq Nat
        OBVIOUS
    <2> HIDE DEF Above
    <2> QED
        BY <1>1, <2>1, LeastNumber
<1>3. x \in I
    <2> SUFFICES ASSUME x \notin I PROVE FALSE
        OBVIOUS
    <2>1. \A i \in I : i <= x - 1 /\ i \in 1 .. n
        OBVIOUS
    <2>2. x - 1 \in 1 .. n
        <3>1. PICK i \in I : i \in 1 .. n /\ i <= x - 1
            BY <2>1
        <3>2. x \in 1 .. n
            OBVIOUS
        <3> QED
            BY <3>1, <3>2
    <2>3. x - 1 \in Above
        BY <2>1, <2>2
    <2>4. x <= x - 1
        BY <2>3, <1>2
    <2> QED
        BY <2>4
<1>4. \A y \in I : x >= y
    OBVIOUS
<1> QED
    BY <1>3, <1>4 DEF Templates!Max

LEMMA GreatestIs ==
    ASSUME NEW n \in Nat, NEW I, I \subseteq 1 .. n, NEW x \in I, \A i \in I : i <= x
    PROVE  Templates!Max(I) = x
<1> PICK m : m = Templates!Max(I)
    OBVIOUS
<1>1. m \in I /\ x <= m
    BY Greatest
<1>2. m <= x /\ x \in 1 .. n /\ m \in 1 .. n
    BY <1>1
<1> QED
    BY <1>1, <1>2

LEMMA Longer ==
    ASSUME NEW S, NEW p \in Seq(S), NEW o \in S
    PROVE  /\ Append(p, o) \in Seq(S)
           /\ Len(p) \in Nat /\ Len(Append(p, o)) = Len(p) + 1
           /\ DOMAIN p = 1 .. Len(p) /\ DOMAIN Append(p, o) = 1 .. Len(p) + 1
           /\ \A i \in 1 .. Len(p) : Append(p, o)[i] = p[i]
           /\ Append(p, o)[Len(p) + 1] = o
OBVIOUS

LEMMA PositionsLonger ==
    ASSUME NEW S, NEW p \in Seq(S), NEW o \in S, NEW op
    PROVE  /\ Templates!Positions(p, op) \subseteq 1 .. Len(p)
           /\ Templates!Positions(Append(p, o), op) =
                  Templates!Positions(p, op) \cup IF o.op = op THEN {Len(p) + 1} ELSE {}
           /\ o.op = op => Templates!Final(Append(p, o), op) = o
           /\ o.op # op /\ Templates!Positions(p, op) # {} =>
                  Templates!Final(Append(p, o), op) = Templates!Final(p, op)
<1> DEFINE q == Append(p, o)
           n == Len(p)
           P == Templates!Positions(p, op)
           Q == Templates!Positions(q, op)
<1>1. /\ n \in Nat /\ DOMAIN p = 1 .. n /\ DOMAIN q = 1 .. n + 1
      /\ \A i \in 1 .. n : q[i] = p[i]
      /\ q[n + 1] = o
    BY Longer
<1> HIDE DEF q, n
<1>2. P \subseteq 1 .. n
    BY <1>1 DEF Templates!Positions
<1>3. Q = P \cup IF o.op = op THEN {n + 1} ELSE {}
    BY <1>1 DEF Templates!Positions
<1> HIDE DEF P, Q
<1>4. ASSUME o.op = op
      PROVE  Templates!Max(Q) = n + 1
    <2>1. Q \subseteq 1 .. n + 1 /\ n + 1 \in Q /\ n + 1 \in Nat /\ \A i \in Q : i <= n + 1
        BY <1>1, <1>2, <1>3, <1>4
    <2> QED
        BY <2>1, GreatestIs
<1>5. o.op = op => Templates!Final(q, op) = o
    BY <1>1, <1>4 DEF Templates!Final, Q
<1>6. ASSUME o.op # op, P # {}
      PROVE  Templates!Final(q, op) = Templates!Final(p, op)
    <2>1. Q = P
        BY <1>3, <1>6
    <2>2. Templates!Max(P) \in 1 .. n
        BY <1>1, <1>2, <1>6, Greatest
    <2> QED
        BY <1>1, <2>1, <2>2 DEF Templates!Final, P, Q
<1> QED
    BY <1>2, <1>3, <1>5, <1>6 DEF P, Q, q, n

(* The recursion that adds up the skips has a solution.                    *)
LEMMA TotalSkipEquation ==
    ASSUME NEW S, NEW opts \in Seq(S)
    PROVE  \E total :
              /\ Templates!TotalSkip(opts) = total[Len(opts)]
              /\ total[0] = 0
              /\ \A n \in 1 .. Len(opts) :
                     total[n] = total[n - 1]
                                + IF opts[n].op = "stackSkip" THEN opts[n].skip ELSE 0
<1> DEFINE N          == Len(opts)
           skip(n)    == IF opts[n].op = "stackSkip" THEN opts[n].skip ELSE 0
           step(f, n) == IF n = 0 THEN 0 ELSE f[n - 1] + skip(n)
           E(f, m)    == f = [n \in 0 .. m |-> step(f, n)]
           Bad        == {m \in 0 .. N : ~ \E f : E(f, m)}
<1>1. N \in Nat
    OBVIOUS
<1> HIDE DEF skip
<1>2. Bad = {}
    <2> SUFFICES ASSUME Bad # {} PROVE FALSE
        OBVIOUS
    <2>1. PICK m \in Bad : \A y \in Bad : m <= y
        <3>1. Bad \subseteq Nat
            BY <1>1
        <3> HIDE DEF Bad
        <3> QED
            BY <3>1, LeastNumber
    <2>2. m \in 0 .. N
        OBVIOUS
    <2>3. CASE m = 0
        <3> DEFINE f == [n \in 0 .. 0 |-> 0]
        <3>1. f = [n \in 0 .. 0 |-> step(f, n)]
            OBVIOUS
        <3> QED
            BY <2>3, <3>1
    <2>4. CASE m # 0
        <3>1. m - 1 \in 0 .. N /\ ~ (m <= m - 1)
            BY <2>2, <2>4, <1>1
        <3>2. PICK f : E(f, m - 1)
            <4> HIDE DEF E
            <4> QED
                BY <2>1, <3>1
        <3> DEFINE g == [n \in 0 .. m |-> IF n < m THEN f[n] ELSE step(f, m)]
        <3>3. \A n \in 0 .. m : g[n] = step(g, n)
            <4> TAKE n \in 0 .. m
            <4>1. n # 0 => n - 1 \in 0 .. m /\ n - 1 < m
                BY <2>2
            <4>2. n # 0 => g[n - 1] = f[n - 1]
                <5> HIDE DEF step
                <5> QED
                    BY <4>1
            <4>3. step(g, n) = step(f, n)
                BY <4>2
            <4>4. n < m => n \in 0 .. m - 1
                BY <2>2
            <4>5. n < m => f[n] = step(f, n)
                <5> HIDE DEF step
                <5> QED
                    BY <4>4, <3>2
            <4>6. ~ (n < m) => n = m
                BY <2>2
            <4>7. g[n] = IF n < m THEN f[n] ELSE step(f, m)
                OBVIOUS
            <4> HIDE DEF step, g
            <4> QED
                BY <4>3, <4>5, <4>6, <4>7
        <3>4. E(g, m)
            <4>1. g = [n \in 0 .. m |-> g[n]]
                OBVIOUS
            <4> HIDE DEF g, step
            <4> QED
                BY <4>1, <3>3
        <3> HIDE DEF g, E
        <3> QED
            BY <3>4
    <2> QED
        BY <2>3, <2>4
<1>3. \E f : E(f, N)
    <2>1. N \in 0 .. N
        BY <1>1
    <2> HIDE DEF E
    <2> QED
        BY <2>1, <1>2
<1> DEFINE total == CHOOSE f : E(f, N)
<1>4. E(total, N)
    <2> HIDE DEF E
    <2> QED
        BY <1>3
<1>5. Templates!TotalSkip(opts) = total[N]
    BY DEF Templates!TotalSkip, skip
<1>6. \A n \in 0 .. N : total[n] = step(total, n)
    <2> HIDE DEF step, total
    <2> QED
        BY <1>4
<1> HIDE DEF total, E
<1>7. total[0] = 0
    BY <1>1, <1>6
<1>8. \A n \in 1 .. N : total[n] = total[n - 1] + skip(n)
    BY <1>1, <1>6
<1> QED
    BY <1>5, <1>7, <1>8 DEF skip

LEMMA TotalSkipLonger ==
    ASSUME NEW p \in Seq(Options), NEW o \in Options
    PROVE  /\ Templates!TotalSkip(<<>>) = 0
           /\ Templates!TotalSkip(p) \in Int
           /\ Templates!TotalSkip(Append(p, o)) =
                  Templates!TotalSkip(p) + IF o.op = "stackSkip" THEN o.skip ELSE 0
<1> DEFINE q == Append(p, o)
           n == Len(p)
           skip(x) == IF x.op = "stackSkip" THEN x.skip ELSE 0
<1>0. Templates!TotalSkip(<<>>) = 0
    <2>1. <<>> \in Seq(Options) /\ Len(<<>>) = 0
        OBVIOUS
    <2>2. PICK t : Templates!TotalSkip(<<>>) = t[Len(<<>>)] /\ t[0] = 0
        BY <2>1, TotalSkipEquation
    <2> QED
        BY <2>1, <2>2
<1>1. /\ q \in Seq(Options) /\ n \in Nat /\ Len(q) = n + 1
      /\ \A i \in 1 .. n : q[i] = p[i]
      /\ q[n + 1] = o
    BY Longer
<1>2. \A x \in Options : skip(x) \in Int
    BY DEF OptionValues
<1>3. \A i \in 1 .. n : p[i] \in Options
    OBVIOUS
<1> HIDE DEF q, skip
<1>4. PICK s : /\ Templates!TotalSkip(p) = s[n]
               /\ s[0] = 0
               /\ \A i \in 1 .. n : s[i] = s[i - 1] + skip(p[i])
    BY TotalSkipEquation DEF skip
<1>5. PICK t : /\ Templates!TotalSkip(q) = t[n + 1]
               /\ t[0] = 0
               /\ \A i \in 1 .. n + 1 : t[i] = t[i - 1] + skip(q[i])
    <2>1. \E t : /\ Templates!TotalSkip(q) = t[Len(q)]
                 /\ t[0] = 0
                 /\ \A i \in 1 .. Len(q) : t[i] = t[i - 1] + skip(q[i])
        BY <1>1, TotalSkipEquation DEF skip
    <2> QED
        BY <2>1, <1>1
<1> HIDE DEF n
<1> DEFINE Bad == {i \in 0 .. n : ~ (s[i] \in Int /\ t[i] = s[i])}
<1>6. Bad = {}
    <2> SUFFICES ASSUME Bad # {} PROVE FALSE
        OBVIOUS
    <2>1. PICK m \in Bad : \A y \in Bad : m <= y
        <3>1. Bad \subseteq Nat
            BY <1>1
        <3> HIDE DEF Bad
        <3> QED
            BY <3>1, LeastNumber
    <2>2. m \in 0 .. n /\ ~ (s[m] \in Int /\ t[m] = s[m])
        OBVIOUS
    <2>3. m # 0
        BY <2>2, <1>4, <1>5
    <2>4. m \in 1 .. n /\ m \in 1 .. n + 1 /\ m - 1 \in 0 .. n /\ ~ (m <= m - 1)
        BY <2>2, <2>3, <1>1
    <2>5. s[m - 1] \in Int /\ t[m - 1] = s[m - 1]
        BY <2>1, <2>4
    <2>6. s[m] = s[m - 1] + skip(p[m]) /\ t[m] = t[m - 1] + skip(p[m]) /\ skip(p[m]) \in Int
        BY <2>4, <1>1, <1>2, <1>3, <1>4, <1>5
    <2> QED
        BY <2>2, <2>5, <2>6
<1>7. s[n] \in Int /\ t[n] = s[n]
    <2>1. n \in 0 .. n
        BY <1>1
    <2> QED
        BY <2>1, <1>6
<1>8. t[n + 1] = t[n] + skip(o)
    <2>1. n + 1 \in 1 .. n + 1 /\ n + 1 - 1 = n
        BY <1>1
    <2> QED
        BY <2>1, <1>1, <1>5
<1> QED
    BY <1>0, <1>4, <1>5, <1>7, <1>8 DEF skip, q

(* One option more is one applyOption more.                                *)
LEMMA ConfiguredLonger ==
    ASSUME NEW s \in Settings, NEW p \in Seq(Options), NEW o \in Options
    PROVE  Templates!Configured(s, Append(p, o)) = applySetting(Templates!Configured(s, p), o)
<1> DEFINE q == Append(p, o)
           Has(l, op)     == Templates!Positions(l, op) # {}
           Fn(l, op, old) == IF Has(l, op) THEN Templates!Final(l, op).fn ELSE old
           trace(l)   == s.noTrace \/ Has(l, "noTrace")
           skip(l)    == s.stackSkip + Templates!TotalSkip(l)
           depth(l)   == IF Has(l, "stackDepth") THEN Templates!Final(l, "stackDepth").depth
                         ELSE s.stackDepth
           lines(l)   == IF Has(l, "stackSource") THEN Templates!Final(l, "stackSource").around
                         ELSE s.stackSourceLines
           source(l)  == IF Has(l, "stackSource") THEN Templates!Final(l, "stackSource").depth
                         ELSE s.stackSourceDepth
           format(l)  == Fn(l, "formatter", s.formatter)
           marshal(l) == Fn(l, "jsonMarshaler", s.jsonMarshaler)
           log(l)     == Fn(l, "logValuer", s.logValuer)
           Config(l)  == [noTrace |-> trace(l), stackSkip |-> skip(l), stackDepth |-> depth(l),
                          stackSourceLines |-> lines(l), stackSourceDepth |-> source(l),
                          formatter |-> format(l), jsonMarshaler |-> marshal(l), logValuer |-> log(l)]
<1>1. Templates!Configured(s, p) = Config(p) /\ Templates!Configured(s, q) = Config(q)
    BY DEF Templates!Configured
<1>2. \A op : /\ o.op # op => (Has(q, op) <=> Has(p, op))
              /\ o.op = op => Has(q, op) /\ Templates!Final(q, op) = o
              /\ o.op # op /\ Has(p, op) => Templates!Final(q, op) = Templates!Final(p, op)
    <2> TAKE op
    <2>1. /\ Templates!Positions(q, op) =
                 Templates!Positions(p, op) \cup IF o.op = op THEN {Len(p) + 1} ELSE {}
          /\ o.op = op => Templates!Final(q, op) = o
          /\ o.op # op /\ Templates!Positions(p, op) # {} =>
                 Templates!Final(q, op) = Templates!Final(p, op)
        BY PositionsLonger
    <2> HIDE DEF q
    <2> QED
        BY <2>1
<1> HIDE DEF Has, q
<1>3. trace(q) = IF o.op = "noTrace" THEN TRUE ELSE trace(p)
    BY <1>2
<1>4. skip(q) = IF o.op = "stackSkip" THEN skip(p) + o.skip ELSE skip(p)
    <2>1. /\ Templates!TotalSkip(p) \in Int
          /\ Templates!TotalSkip(q) =
                 Templates!TotalSkip(p) + IF o.op = "stackSkip" THEN o.skip ELSE 0
        BY TotalSkipLonger DEF q
    <2>2. s.stackSkip \in Int /\ (o.op = "stackSkip" => o.skip \in Int)
        BY DEF Settings, OptionValues
    <2> QED
        BY <2>1, <2>2
<1>5. depth(q) = IF o.op = "stackDepth" THEN o.depth ELSE depth(p)
    BY <1>2
<1>6. lines(q) = IF o.op = "stackSource" THEN o.around ELSE lines(p)
    BY <1>2
<1>7. source(q) = IF o.op = "stackSource" THEN o.depth ELSE source(p)
    BY <1>2
<1>8. \A op, old : Fn(q, op, old) = IF o.op = op THEN o.fn ELSE Fn(p, op, old)
    BY <1>2
<1>9. /\ format(q) = IF o.op = "formatter" THEN o.fn ELSE format(p)
      /\ marshal(q) = IF o.op = "jsonMarshaler" THEN o.fn ELSE marshal(p)
      /\ log(q) = IF o.op = "logValuer" THEN o.fn ELSE log(p)
    <2> HIDE DEF Fn
    <2> QED
        BY <1>8
<1> HIDE DEF trace, skip, depth, lines, source, format, marshal, log
<1>10. Config(q) = applySetting(Config(p), o)
    BY <1>3, <1>4, <1>5, <1>6, <1>7, <1>9 DEF applySetting
<1> QED
    BY <1>1, <1>10 DEF q

LEMMA ConfiguredEmpty ==
    ASSUME NEW s \in Settings
    PROVE  Templates!Configured(s, <<>>) = s
<1>1. \A op : Templates!Positions(<<>>, op) = {}
    BY DEF Templates!Positions
<1>2. Templates!TotalSkip(<<>>) = 0
    <2>1. <<>> \in Seq(Options) /\ Len(<<>>) = 0
        OBVIOUS
    <2>2. PICK t : Templates!TotalSkip(<<>>) = t[Len(<<>>)] /\ t[0] = 0
        BY <2>1, TotalSkipEquation
    <2> QED
        BY <2>1, <2>2
<1> PICK none : none = <<>>
    OBVIOUS
<1>3. Templates!Configured(s, none) = s
    BY <1>1, <1>2 DEF Templates!Configured, Settings
<1> QED
    BY <1>3

(* The fields F after an assignment.                                       *)
Put(F, k, v) ==
    [j \in DOMAIN F \cup {k} |->
        IF j = k THEN [value |-> v, before |-> DOMAIN F \ {k}]
        ELSE [value |-> F[j].value, before |-> F[j].before \ {k}]]

LEMMA OverlaidLonger ==
    ASSUME NEW F, NEW p \in Seq(Options), NEW o \in Options
    PROVE  Templates!Overlaid(F, Append(p, o)) =
               IF o.op = "field" THEN Put(Templates!Overlaid(F, p), o.key, o.value)
               ELSE Templates!Overlaid(F, p)
<1> DEFINE q == Append(p, o)
           n == Len(p)
           At(l)      == Templates!Positions(l, "field")
           Of(l, k)   == {i \in At(l) : l[i].key = k}
           Last(l, k) == Templates!Max(Of(l, k))
           Assigned(l) == {l[i].key : i \in At(l)}
           Kept(l)    == DOMAIN F \ Assigned(l)
           Before(l, k) == Kept(l) \cup {j \in Assigned(l) : Last(l, j) < Last(l, k)}
           Over(l)    == [k \in Kept(l) \cup Assigned(l) |->
                             IF k \in Kept(l)
                             THEN [value |-> F[k].value, before |-> F[k].before \ Assigned(l)]
                             ELSE [value |-> l[Last(l, k)].value, before |-> Before(l, k)]]
<1>1. Templates!Overlaid(F, p) = Over(p) /\ Templates!Overlaid(F, q) = Over(q)
    BY DEF Templates!Overlaid
<1>2. /\ n \in Nat
      /\ \A i \in 1 .. n : q[i] = p[i]
      /\ q[n + 1] = o
    BY Longer
<1>3. /\ At(p) \subseteq 1 .. n
      /\ At(q) = At(p) \cup IF o.op = "field" THEN {n + 1} ELSE {}
    BY PositionsLonger
<1> HIDE DEF q, n, At
<1>4. \A k \in Assigned(p) : Last(p, k) \in 1 .. n /\ Last(p, k) \in Nat
    <2> TAKE k \in Assigned(p)
    <2>1. Of(p, k) \subseteq 1 .. n /\ Of(p, k) # {}
        BY <1>3
    <2> HIDE DEF Of, Assigned
    <2>2. Last(p, k) \in 1 .. n
        BY <2>1, <1>2, <1>3, Greatest
    <2> QED
        BY <2>2, <1>2
<1>5. ASSUME o.op # "field"
      PROVE  Over(q) = Over(p)
    <2>1. At(q) = At(p)
        BY <1>3, <1>5
    <2>2. \A i \in At(p) : q[i] = p[i]
        BY <1>2, <1>3
    <2>3. Assigned(q) = Assigned(p) /\ \A k : Of(q, k) = Of(p, k)
        BY <2>1, <2>2
    <2>4. \A k : Last(q, k) = Last(p, k)
        BY <2>3
    <2> HIDE DEF Of, Last, Assigned
    <2>5. \A k \in Assigned(p) : q[Last(q, k)] = p[Last(p, k)]
        BY <2>4, <1>2, <1>4
    <2>6. Kept(q) = Kept(p) /\ \A k : Before(q, k) = Before(p, k)
        BY <2>3, <2>4
    <2> HIDE DEF Before
    <2>7. \A k \in Kept(p) \cup Assigned(p) : k \notin Kept(p) => k \in Assigned(p)
        OBVIOUS
    <2> HIDE DEF Kept
    <2> QED
        BY <2>3, <2>5, <2>6, <2>7
<1>6. ASSUME o.op = "field"
      PROVE  Over(q) = Put(Over(p), o.key, o.value)
    <2> PICK key : key = o.key
        OBVIOUS
    <2>1. At(q) = At(p) \cup {n + 1} /\ n + 1 \notin At(p)
        BY <1>2, <1>3, <1>6
    <2>2. \A i \in At(p) : q[i] = p[i]
        BY <1>2, <1>3
    <2>3. Assigned(q) = Assigned(p) \cup {key}
        BY <2>1, <2>2, <1>2
    <2>4. \A k : k # key => Of(q, k) = Of(p, k)
        BY <2>1, <2>2, <1>2
    <2>5. Last(q, key) = n + 1
        <3>1. Of(q, key) \subseteq 1 .. n + 1 /\ n + 1 \in Of(q, key) /\ n + 1 \in Nat
            BY <2>1, <1>2, <1>3
        <3>2. \A i \in Of(q, key) : i <= n + 1
            BY <3>1
        <3> HIDE DEF Of
        <3> QED
            BY <3>1, <3>2, GreatestIs
    <2>6. \A k : k # key => Last(q, k) = Last(p, k)
        BY <2>4
    <2> HIDE DEF Of, Last, Assigned
    <2>7. \A k \in Assigned(p) : k # key => q[Last(q, k)] = p[Last(p, k)]
        BY <2>6, <1>2, <1>4
    <2>8. q[Last(q, key)] = o
        BY <2>5, <1>2
    <2>9. Before(q, key) = (Kept(p) \cup Assigned(p)) \ {key}
        <3>1. \A j \in Assigned(q) : Last(q, j) < Last(q, key) <=> j # key
            BY <2>3, <2>5, <2>6, <1>2, <1>4
        <3> QED
            BY <3>1, <2>3
    <2>10. ASSUME NEW k \in Assigned(p), k # key
           PROVE  Before(q, k) = Before(p, k) \ {key}
        <3>1. ~ (Last(q, key) < Last(q, k))
            BY <2>5, <2>6, <2>10, <1>2, <1>4
        <3>2. \A j \in Assigned(q) : Last(q, j) < Last(q, k) <=> j # key /\ Last(p, j) < Last(p, k)
            BY <3>1, <2>6, <2>10
        <3> QED
            BY <3>2, <2>3
    <2> DEFINE P == Put(Over(p), key, o.value)
    <2>11. DOMAIN Over(p) = Kept(p) \cup Assigned(p)
        OBVIOUS
    <2>12. Kept(q) \cup Assigned(q) = DOMAIN Over(p) \cup {key}
        BY <2>3, <2>11
    <2>13. Kept(q) = Kept(p) \ {key}
        BY <2>3
    <2> HIDE DEF Before, Kept
    <2>14. P = [j \in DOMAIN Over(p) \cup {key} |->
                  IF j = key THEN [value |-> o.value, before |-> DOMAIN Over(p) \ {key}]
                  ELSE [value |-> Over(p)[j].value, before |-> Over(p)[j].before \ {key}]]
        BY DEF Put
    <2>15. ASSUME NEW k \in Kept(q) \cup Assigned(q)
           PROVE  Over(q)[k] = P[k]
        <3>1. CASE k = key
            <4>1. k \notin Kept(q)
                BY <2>13, <3>1
            <4>2. Over(q)[k] = [value |-> o.value, before |-> Before(q, key)]
                BY <4>1, <2>8, <3>1
            <4>3. P[k] = [value |-> o.value, before |-> DOMAIN Over(p) \ {key}]
                BY <3>1, <2>12, <2>14
            <4> QED
                BY <4>2, <4>3, <2>9, <2>11
        <3>2. CASE k # key /\ k \in Kept(p)
            <4>1. Over(q)[k] = [value |-> F[k].value, before |-> F[k].before \ Assigned(q)]
                BY <3>2, <2>13
            <4>2. Over(p)[k] = [value |-> F[k].value, before |-> F[k].before \ Assigned(p)]
                BY <3>2
            <4>3. P[k] = [value |-> Over(p)[k].value, before |-> Over(p)[k].before \ {key}]
                BY <3>2, <2>12, <2>14
            <4>4. F[k].before \ Assigned(q) = (F[k].before \ Assigned(p)) \ {key}
                BY <2>3
            <4> PICK old : old = Over(p)[k]
                OBVIOUS
            <4> HIDE DEF Over, P
            <4>5. old.value = F[k].value /\ old.before = F[k].before \ Assigned(p)
                BY <4>2
            <4>6. P[k] = [value |-> old.value, before |-> old.before \ {key}]
                BY <4>3
            <4> QED
                BY <4>1, <4>4, <4>5, <4>6
        <3>3. CASE k # key /\ k \notin Kept(p)
            <4>1. k \in Assigned(p) /\ k \notin Kept(q)
                BY <3>3, <2>3, <2>13
            <4>2. Over(q)[k] = [value |-> q[Last(q, k)].value, before |-> Before(q, k)]
                BY <4>1
            <4>3. Over(p)[k] = [value |-> p[Last(p, k)].value, before |-> Before(p, k)]
                BY <3>3, <4>1
            <4> PICK old : old = Over(p)[k]
                OBVIOUS
            <4>4. old.value = p[Last(p, k)].value /\ old.before = Before(p, k)
                BY <4>3
            <4>5. P[k] = [value |-> old.value, before |-> old.before \ {key}]
                BY <3>3, <2>12, <2>14
            <4>6. q[Last(q, k)] = p[Last(p, k)] /\ Before(q, k) = Before(p, k) \ {key}
                BY <4>1, <3>3, <2>7, <2>10
            <4> HIDE DEF Over, P
            <4> QED
                BY <4>2, <4>4, <4>5, <4>6
        <3> QED
            BY <3>1, <3>2, <3>3
    <2>16. Over(q) = [k \in Kept(q) \cup Assigned(q) |-> Over(q)[k]]
        OBVIOUS
    <2>17. P = [k \in Kept(q) \cup Assigned(q) |-> P[k]]
        BY <2>12, <2>14
    <2> HIDE DEF Over, P
    <2>18. Over(q) = P
        BY <2>15, <2>16, <2>17
    <2> QED
        BY <2>18 DEF P
<1> HIDE DEF Over
<1> QED
    BY <1>1, <1>5, <1>6 DEF q

LEMMA OverlaidEmpty ==
    ASSUME NEW f \in FieldsObject
    PROVE  Templates!Overlaid(All(f), <<>>) = All(f)
<1> PICK none : none = <<>>
    OBVIOUS
<1>1. Templates!Positions(none, "field") = {}
    BY DEF Templates!Positions
<1>2. Templates!Overlaid(All(f), none) =
          [k \in DOMAIN All(f) |-> [value |-> All(f)[k].value, before |-> All(f)[k].before]]
    BY <1>1 DEF Templates!Overlaid
<1> QED
    BY <1>2 DEF All

(* An assignment gives the field the last place (field.go:147-156).        *)
LEMMA SetPuts ==
    ASSUME NEW f \in FieldsObject, Ordered(f), NEW k \in Keys, NEW v \in Values
    PROVE  All(set(f, k, v)) = Put(All(f), k, v)
<1> DEFINE e == [value |-> v, index |-> f.lastIndex + 1]
           s == set(f, k, v)
           P == Put(All(f), k, v)
<1>1. e \in Entry /\ e # NotSet /\ e.index = f.lastIndex + 1 /\ e.value = v /\ f.lastIndex \in Nat
    BY NotSetAssumption DEF Entry, FieldsObject
<1>2. s.data[k] = e /\ \A l \in Keys \ {k} : s.data[l] = f.data[l]
    BY DEF set, FieldsObject
<1> HIDE DEF e, s
<1>3. present(s) = present(f) \cup {k} /\ k \in present(s)
    BY <1>1, <1>2 DEF present
<1>4. \A l \in present(f) : f.data[l].index \in 1 .. f.lastIndex
    BY DEF Ordered
<1>5. \A l \in present(s) : l # k => s.data[l] = f.data[l] /\ l \in present(f)
    BY <1>2, <1>3 DEF present
<1>6. {j \in present(s) : s.data[j].index < s.data[k].index} = present(f) \ {k}
    BY <1>1, <1>2, <1>3, <1>4, <1>5
<1>7. \A l \in present(s) : l # k =>
          {j \in present(s) : s.data[j].index < s.data[l].index}
              = {j \in present(f) : f.data[j].index < f.data[l].index} \ {k}
    <2> TAKE l \in present(s)
    <2> HAVE l # k
    <2>1. l \in present(f) /\ s.data[l] = f.data[l] /\ f.data[l].index \in 1 .. f.lastIndex
        BY <1>4, <1>5
    <2>2. ~ (s.data[k].index < s.data[l].index)
        BY <2>1, <1>1, <1>2
    <2>3. \A j \in present(s) : j # k => s.data[j] = f.data[j] /\ j \in present(f)
        BY <1>5
    <2> QED
        BY <2>1, <2>2, <2>3, <1>3
<1>8. DOMAIN All(f) = present(f)
    BY DEF All
<1>9. \A l \in present(s) : All(s)[l] = P[l]
    <2> TAKE l \in present(s)
    <2>1. CASE l = k
        <3>1. All(s)[l] = [value |-> v, before |-> present(f) \ {k}]
            BY <2>1, <1>1, <1>2, <1>6 DEF All
        <3> QED
            BY <3>1, <2>1, <1>8 DEF Put
    <2>2. CASE l # k
        <3>1. l \in present(f) /\ s.data[l] = f.data[l]
            BY <2>2, <1>5
        <3>2. All(f)[l] = [value |-> f.data[l].value,
                           before |-> {j \in present(f) : f.data[j].index < f.data[l].index}]
            BY <3>1 DEF All
        <3>3. All(s)[l] = [value |-> f.data[l].value,
                           before |-> {j \in present(f) : f.data[j].index < f.data[l].index} \ {k}]
            BY <2>2, <3>1, <1>7 DEF All
        <3>4. P[l] = [value |-> All(f)[l].value, before |-> All(f)[l].before \ {k}]
            BY <2>2, <3>1, <1>8 DEF Put
        <3> QED
            BY <3>2, <3>3, <3>4
    <2> QED
        BY <2>1, <2>2
<1>10. All(s) = [l \in present(s) |-> All(s)[l]]
    BY DEF All
<1>11. P = [l \in present(s) |-> P[l]]
    BY <1>3, <1>8 DEF Put
<1> HIDE DEF P
<1>12. All(s) = P
    BY <1>9, <1>10, <1>11
<1> QED
    BY <1>12 DEF P, s

LEMMA NewFieldsEmpty == All(newFields) = Templates!NoFields
<1>1. present(newFields) = {}
    BY DEF present, newFields
<1> QED
    BY <1>1 DEF All, Templates!NoFields
-----------------------------------------------------------------------------
(* What a definition still being built has become: what it began with,     *)
(* derived by the options already applied.                                 *)

LEMMA DerivedIs ==
    ASSUME NEW a, NEW b, NEW F, NEW s, NEW opts
    PROVE  Templates!Derived([origin |-> a, kind |-> b, fields |-> F, settings |-> s], opts) =
               [origin |-> a, kind |-> b, fields |-> Templates!Overlaid(F, opts),
                settings |-> Templates!Configured(s, opts)]
<1> PICK t : t = [origin |-> a, kind |-> b, fields |-> F, settings |-> s]
    OBVIOUS
<1> PICK fields, settings :
        fields = Templates!Overlaid(F, opts) /\ settings = Templates!Configured(s, opts)
    OBVIOUS
<1>1. Templates!Derived(t, opts) = [t EXCEPT !.fields = fields, !.settings = settings]
    BY DEF Templates!Derived
<1> QED
    BY <1>1

LEMMA TemplateIs ==
    ASSUME NEW d
    PROVE  template(d) =
               [origin |-> root(d), kind |-> defs[d].kind,
                fields |-> All(fieldStore[defs[d].fields]), settings |-> defs[d].settings]
BY DEF template, root

LEMMA ViewTells ==
    ASSUME NEW d, DefinitionView(d)' = DefinitionView(d)
    PROVE  template(d)' = template(d)
<1>1. defs'[d] = defs[d] /\ fieldStore'[defs'[d].fields] = fieldStore[defs[d].fields]
    BY DEF DefinitionView
<1> QED
    BY <1>1 DEF template, root

LEMMA CtxStepOfNext ==
    ASSUME [Next]_vars
    PROVE  [CtxNext]_ctxVars
BY DEF Next, Build, CreateError, DeriveContext, Define, With, derive, applyOption, Return,
       New, Wrap, Join, Recover, newError, vars, ctxVars

LEMMA ContextsStay ==
    ASSUME CtxTypeOK, [CtxNext]_ctxVars
    PROVE  DOMAIN contexts \subseteq DOMAIN contexts'
<1>1. ASSUME NEW ctx \in DOMAIN contexts, NEW opts \in OptionLists, ContextWithOptions(ctx, opts)
      PROVE  DOMAIN contexts \subseteq DOMAIN contexts'
    <2>1. PICK new : contexts' = Append(contexts, new)
        BY <1>1 DEF ContextWithOptions
    <2>2. contexts \in Seq(Context)
        BY DEF CtxTypeOK
    <2> QED
        BY <2>1, <2>2
<1> QED
    BY <1>1 DEF CtxNext, ctxVars

(* What Define or With began with for definition d: a template and the     *)
(* options to apply to it.                                                 *)
Begins(d, t, all) ==
    \/ \E kind \in Kinds, opts \in OptionLists :
          t = Templates!Blank(d, kind) /\ all = opts
    \/ \E base \in published, ctx \in DOMAIN contexts \cup {NilContext}, opts \in OptionLists :
          t = template(base) /\ all = optionsFromContext(ctx) \o opts

Halfway(d, pending) ==
    \E t, all : \E done \in Seq(Options) :
        /\ Begins(d, t, all)
        /\ done \o pending = all
        /\ template(d) = Templates!Derived(t, done)

BuiltAsAsked ==
    \A g \in Goroutines : \A d, pending :
        /\ d # NoDef
        /\ call[g].def = d
        /\ call[g].pending = pending
        => Halfway(d, pending)

(* The values a derivation can begin with have proper settings.            *)
LEMMA BeginsType ==
    ASSUME TypeOK, NEW d, NEW t, NEW all, Begins(d, t, all)
    PROVE  \E a, b, F : \E s \in Settings :
               t = [origin |-> a, kind |-> b, fields |-> F, settings |-> s]
<1>1. ASSUME NEW kind, t = Templates!Blank(d, kind)
      PROVE  \E a, b, F : \E s \in Settings :
                 t = [origin |-> a, kind |-> b, fields |-> F, settings |-> s]
    <2>1. Templates!defaultSettings \in Settings
        BY DefaultSettingsType DEF Templates!defaultSettings, Templates!NilFunc, defaultSettings, NilFunc
    <2>2. t = [origin |-> d, kind |-> kind, fields |-> Templates!NoFields,
               settings |-> Templates!defaultSettings]
        BY <1>1 DEF Templates!Blank
    <2> QED
        BY <2>1, <2>2
<1>2. ASSUME NEW base \in published, t = template(base)
      PROVE  \E a, b, F : \E s \in Settings :
                 t = [origin |-> a, kind |-> b, fields |-> F, settings |-> s]
    <2>1. defs[base].settings \in Settings
        <3>1. base \in DOMAIN defs /\ defs \in Seq(DefObject)
            BY DEF TypeOK
        <3>2. defs[base] \in DefObject
            BY <3>1, ElementOfSeq, LenProperties
        <3> QED
            BY <3>2 DEF DefObject
    <2> QED
        BY <1>2, <2>1, TemplateIs
<1> QED
    BY <1>1, <1>2 DEF Begins

(* A published template stays, a context keeps its options: what a         *)
(* derivation began with is the same ever after.                           *)
LEMMA BeginsKept ==
    ASSUME TypeOK, ObjectsPrivate, [Next]_vars,
           NEW d, NEW t, NEW all, Begins(d, t, all)
    PROVE  Begins(d, t, all)'
<1>1. ASSUME NEW base \in published, NEW ctx \in DOMAIN contexts \cup {NilContext},
             NEW opts \in OptionLists, t = template(base), all = optionsFromContext(ctx) \o opts
      PROVE  Begins(d, t, all)'
    <2>1. template(base)' = template(base) /\ base \in published'
        BY PublishedKept, ViewTells
    <2>2. CtxTypeOK /\ [CtxNext]_ctxVars
        BY CtxStepOfNext DEF TypeOK
    <2>3. optionsFromContext(ctx)' = optionsFromContext(ctx)
        BY <2>2, ContextsKept
    <2>4. DOMAIN contexts \subseteq DOMAIN contexts'
        BY <2>2, ContextsStay
    <2> QED
        BY <1>1, <2>1, <2>3, <2>4 DEF Begins
<1>2. ASSUME NEW kind \in Kinds, NEW opts \in OptionLists,
             t = Templates!Blank(d, kind), all = opts
      PROVE  Begins(d, t, all)'
    BY <1>2 DEF Begins, Templates!Blank, Templates!NoFields, Templates!defaultSettings
<1> QED
    BY <1>1, <1>2 DEF Begins

LEMMA DerivedConstant ==
    ASSUME NEW t, NEW opts
    PROVE  Templates!Derived(t, opts)' = Templates!Derived(t, opts)
BY DEF Templates!Derived

LEMMA HalfwayKept ==
    ASSUME TypeOK, ObjectsPrivate, [Next]_vars, NEW d, NEW pending,
           Halfway(d, pending), template(d)' = template(d)
    PROVE  Halfway(d, pending)'
<1>1. PICK t, all : \E done \in Seq(Options) :
          /\ Begins(d, t, all)
          /\ done \o pending = all
          /\ template(d) = Templates!Derived(t, done)
    BY DEF Halfway
<1>2. PICK done \in Seq(Options) :
          /\ Begins(d, t, all)
          /\ done \o pending = all
          /\ template(d) = Templates!Derived(t, done)
    BY <1>1
<1>3. Begins(d, t, all)'
    BY <1>2, BeginsKept
<1>4. template(d)' = Templates!Derived(t, done)'
    BY <1>2, DerivedConstant
<1> QED
    BY <1>2, <1>3, <1>4 DEF Halfway

(* What one goroutine does leaves alone what another one builds.           *)
LEMMA OthersKept ==
    ASSUME TypeOK, ObjectsPrivate, NEW g \in Goroutines,
           Allocates(g) \/ applyOption(g) \/ Return(g),
           NEW h \in Goroutines \ {g}, NEW d, d # NoDef, call[h].def = d
    PROVE  template(d)' = template(d) /\ call'[h] = call[h]
<1>1. d \in DOMAIN defs /\ defs[d].fields \in DOMAIN fieldStore
    BY DEF TypeOK
<1>2. ASSUME defs'[d] = defs[d], fieldStore'[defs[d].fields] = fieldStore[defs[d].fields]
      PROVE  template(d)' = template(d)
    BY <1>2, ViewTells DEF DefinitionView
<1>3. CASE Allocates(g)
    <2>1. /\ defs'[d] = defs[d]
          /\ fieldStore'[defs[d].fields] = fieldStore[defs[d].fields]
          /\ call'[h] = call[h]
        BY <1>1, <1>3, AllocateEffect
    <2> QED
        BY <1>2, <2>1
<1>4. CASE applyOption(g)
    <2>1. call[g].def \in DOMAIN defs /\ call[g].def # NoDef /\ call[g].def # d
        <3>1. call[g].def # NoDef
            BY <1>4, ApplyEffect
        <3>2. call[g].def \in DOMAIN defs
            BY <3>1 DEF TypeOK
        <3>3. call[g].def # d
            BY <3>1 DEF ObjectsPrivate, WritersPrivate
        <3> QED
            BY <3>1, <3>2, <3>3
    <2>2. defs[d].fields # defs[call[g].def].fields
        BY <1>1, <2>1 DEF ObjectsPrivate, FieldMapsOwned
    <2>3. call'[h] = call[h]
        BY <1>4 DEF applyOption, TypeOK
    <2> QED
        BY <1>1, <1>2, <1>4, <2>1, <2>2, <2>3, ApplyEffect
<1>5. CASE Return(g)
    <2>1. call'[h] = call[h]
        BY <1>5 DEF Return, TypeOK
    <2> QED
        BY <1>2, <1>5, <2>1 DEF Return
<1> QED
    BY <1>3, <1>4, <1>5

LEMMA StartDerived ==
    ASSUME NEW a, NEW b, NEW f \in FieldsObject, NEW s \in Settings, NEW t,
           t = [origin |-> a, kind |-> b, fields |-> All(f), settings |-> s]
    PROVE  Templates!Derived(t, <<>>) = t
<1> PICK none : none = <<>>
    OBVIOUS
<1>1. Templates!Overlaid(All(f), none) = All(f) /\ Templates!Configured(s, none) = s
    BY OverlaidEmpty, ConfiguredEmpty
<1>2. Templates!Derived(t, none) =
          [origin |-> a, kind |-> b, fields |-> Templates!Overlaid(All(f), none),
           settings |-> Templates!Configured(s, none)]
    BY DerivedIs
<1> QED
    BY <1>1, <1>2

LEMMA NothingDone ==
    ASSUME NEW opts \in Seq(Options)
    PROVE  <<>> \in Seq(Options) /\ <<>> \o opts = opts
OBVIOUS

LEMMA DefineBuilds ==
    ASSUME TypeOK, NEW g \in Goroutines, NEW kind \in Kinds, NEW opts \in OptionLists,
           Define(g, kind, opts), NEW d, NEW pending, call'[g].def = d, call'[g].pending = pending
    PROVE  Halfway(d, pending)'
<1> DEFINE obj == [rootDef |-> NoDef, kind |-> kind,
                   fields |-> Len(fieldStore) + 1, settings |-> defaultSettings]
<1>1. /\ defs' = Append(defs, obj)
      /\ fieldStore' = Append(fieldStore, newFields)
      /\ call' = [call EXCEPT ![g] = [def |-> Len(defs) + 1, pending |-> opts]]
    BY DEF Define
<1>2. defs \in Seq(DefObject) /\ fieldStore \in Seq(FieldsObject) /\ newFields \in FieldsObject
    BY DefineType DEF TypeOK
<1>3. d = Len(defs) + 1 /\ pending = opts
    BY <1>1 DEF TypeOK
<1>4. defs'[d] = obj
    <2> HIDE DEF obj
    <2> QED
        BY <1>1, <1>2, <1>3
<1>5. fieldStore'[Len(fieldStore) + 1] = newFields
    BY <1>1, <1>2
<1> PICK t : t = [origin |-> d, kind |-> kind, fields |-> All(newFields),
                  settings |-> defaultSettings]
    OBVIOUS
<1>6. template(d)' = t
    BY <1>4, <1>5 DEF template, root
<1>7. t = Templates!Blank(d, kind)
    BY NewFieldsEmpty DEF Templates!Blank, Templates!defaultSettings, defaultSettings,
       Templates!NilFunc, NilFunc
<1>8. Templates!Derived(t, <<>>) = t
    BY <1>2, DefaultSettingsType, StartDerived
<1>9. Begins(d, t, opts)'
    BY <1>7 DEF Begins, Templates!Blank, Templates!NoFields, Templates!defaultSettings
<1>10. template(d)' = Templates!Derived(t, <<>>)'
    BY <1>6, <1>8, DerivedConstant
<1>11. <<>> \in Seq(Options) /\ <<>> \o pending = opts
    BY <1>3, NothingDone
<1> QED
    BY <1>9, <1>10, <1>11 DEF Halfway

LEMMA WithBuilds ==
    ASSUME TypeOK, ObjectsPrivate, RootsAreDefined, [Next]_vars, NEW g \in Goroutines,
           NEW base \in published, NEW ctx \in DOMAIN contexts \cup {NilContext},
           NEW opts \in OptionLists, With(g, base, ctx, opts),
           NEW d, NEW pending, call'[g].def = d, call'[g].pending = pending
    PROVE  Halfway(d, pending)'
<1>0. PICK all, t : all = optionsFromContext(ctx) \o opts /\ t = template(base)
    OBVIOUS
<1>1. base \in DOMAIN defs /\ all \in Seq(Options) /\ derive(g, base, all)
    BY <1>0, WithDerives
<1> DEFINE obj == [defs[base] EXCEPT !.rootDef = root(base), !.fields = Len(fieldStore) + 1]
           fs  == fieldStore[defs[base].fields]
<1>2. /\ defs' = Append(defs, obj)
      /\ fieldStore' = Append(fieldStore, fs)
      /\ call' = [call EXCEPT ![g] = [def |-> Len(defs) + 1, pending |-> all]]
    BY <1>1 DEF derive, clone, cloneFields
<1>3. /\ defs \in Seq(DefObject) /\ fieldStore \in Seq(FieldsObject)
      /\ defs[base] \in DefObject
      /\ fs \in FieldsObject
    <2>1. defs \in Seq(DefObject) /\ fieldStore \in Seq(FieldsObject)
        BY DEF TypeOK
    <2>2. defs[base].fields \in DOMAIN fieldStore
        BY <1>1 DEF TypeOK
    <2> QED
        BY <1>1, <2>1, <2>2, ElementOfSeq, LenProperties
<1>4. d = Len(defs) + 1 /\ pending = all
    BY <1>2 DEF TypeOK
<1>5. defs'[d] = obj /\ fieldStore'[Len(fieldStore) + 1] = fs
    <2> HIDE DEF obj, fs
    <2> QED
        BY <1>2, <1>3, <1>4
<1>6. /\ obj.rootDef = root(base) /\ obj.kind = defs[base].kind
      /\ obj.fields = Len(fieldStore) + 1 /\ obj.settings = defs[base].settings
    BY <1>3 DEF DefObject
<1>7. root(base) # NoDef
    BY <1>1, LenProperties DEF RootsAreDefined, TypeOK, NoDef
<1>8. t = [origin |-> root(base), kind |-> defs[base].kind, fields |-> All(fs),
           settings |-> defs[base].settings]
    BY <1>0, TemplateIs
<1>9. template(d)' = t
    <2>1. root(d)' = root(base)
        <3> HIDE DEF obj
        <3>1. PICK r : r = root(base)
            OBVIOUS
        <3> QED
            BY <1>5, <1>6, <1>7, <3>1 DEF root
    <2>2. template(d)' = [origin |-> root(d)', kind |-> defs'[d].kind,
                          fields |-> All(fieldStore'[defs'[d].fields]),
                          settings |-> defs'[d].settings]
        BY DEF template, root
    <2> HIDE DEF obj, fs
    <2> QED
        BY <1>5, <1>6, <1>8, <2>1, <2>2
<1>10. defs[base].settings \in Settings
    BY <1>3 DEF DefObject
<1> HIDE DEF obj, fs
<1>11. Templates!Derived(t, <<>>) = t
    <2>0. PICK a, b, f, s : a = root(base) /\ b = defs[base].kind /\ f = fs /\ s = defs[base].settings
        OBVIOUS
    <2>1. f \in FieldsObject /\ s \in Settings
        BY <1>3, <1>10, <2>0
    <2>2. t = [origin |-> a, kind |-> b, fields |-> All(f), settings |-> s]
        BY <1>8, <2>0
    <2>3. \A y : y = [origin |-> a, kind |-> b, fields |-> All(f), settings |-> s]
                => Templates!Derived(y, <<>>) = y
        BY <2>1, StartDerived
    <2> QED
        BY <2>2, <2>3
<1>12. Begins(d, t, all)
    BY <1>0 DEF Begins
<1>13. Begins(d, t, all)'
    BY <1>12, BeginsKept
<1>14. template(d)' = Templates!Derived(t, <<>>)'
    BY <1>9, <1>11, DerivedConstant
<1>15. <<>> \in Seq(Options) /\ <<>> \o pending = all
    BY <1>1, <1>4, NothingDone
<1> QED
    BY <1>13, <1>14, <1>15 DEF Halfway

LEMMA OneMoreDone ==
    ASSUME NEW done \in Seq(Options), NEW rest \in Seq(Options), rest # <<>>
    PROVE  /\ Head(rest) \in Options /\ Tail(rest) \in Seq(Options)
           /\ Append(done, Head(rest)) \in Seq(Options)
           /\ Append(done, Head(rest)) \o Tail(rest) = done \o rest
OBVIOUS

(* One turn of applyOptions derives by one option more.                    *)
LEMMA DerivedLonger ==
    ASSUME TypeOK, FieldOrder, NEW t, NEW a, NEW b, NEW F, NEW s \in Settings,
           t = [origin |-> a, kind |-> b, fields |-> F, settings |-> s],
           NEW done \in Seq(Options), NEW o \in Options,
           NEW f \in DOMAIN fieldStore, NEW c \in Settings,
           NEW r, NEW k, NEW new, new = IF o.op = "field" THEN set(fieldStore[f], o.key, o.value)
                                        ELSE fieldStore[f],
           [origin |-> r, kind |-> k, fields |-> All(fieldStore[f]), settings |-> c]
               = Templates!Derived(t, done)
    PROVE  [origin |-> r, kind |-> k, fields |-> All(new), settings |-> applySetting(c, o)]
               = Templates!Derived(t, Append(done, o))
<1> PICK all : all = Append(done, o)
    OBVIOUS
<1>1. /\ Templates!Derived(t, done) =
             [origin |-> a, kind |-> b, fields |-> Templates!Overlaid(F, done),
              settings |-> Templates!Configured(s, done)]
      /\ Templates!Derived(t, all) =
             [origin |-> a, kind |-> b, fields |-> Templates!Overlaid(F, all),
              settings |-> Templates!Configured(s, all)]
    BY DerivedIs
<1>2. /\ r = a /\ k = b
      /\ All(fieldStore[f]) = Templates!Overlaid(F, done)
      /\ c = Templates!Configured(s, done)
    BY <1>1
<1>3. Templates!Configured(s, all) = applySetting(c, o)
    BY <1>2, ConfiguredLonger
<1>4. Templates!Overlaid(F, all) = IF o.op = "field" THEN Put(All(fieldStore[f]), o.key, o.value)
                                   ELSE All(fieldStore[f])
    BY <1>2, OverlaidLonger
<1>5. All(new) = Templates!Overlaid(F, all)
    <2>1. CASE o.op = "field"
        <3>1. o.key \in Keys /\ o.value \in Values
            BY <2>1 DEF OptionValues
        <3>2. fieldStore[f] \in FieldsObject /\ Ordered(fieldStore[f])
            BY ElementOfSeq, LenProperties DEF TypeOK, FieldOrder, Ordered
        <3>3. All(set(fieldStore[f], o.key, o.value)) = Put(All(fieldStore[f]), o.key, o.value)
            BY <3>1, <3>2, SetPuts
        <3> QED
            BY <2>1, <3>3, <1>4
    <2>2. CASE o.op # "field"
        BY <2>2, <1>4
    <2> QED
        BY <2>1, <2>2
<1> QED
    BY <1>1, <1>2, <1>3, <1>5

LEMMA ApplyBuilds ==
    ASSUME TypeOK, ObjectsPrivate, FieldOrder, [Next]_vars, BuiltAsAsked,
           NEW g \in Goroutines, applyOption(g),
           NEW d, NEW pending, call'[g].def = d, call'[g].pending = pending
    PROVE  Halfway(d, pending)'
<1> PICK left : left = call[g].pending
    OBVIOUS
<1> PICK o : o = Head(left)
    OBVIOUS
<1>1. /\ call[g] \in [def : Nat, pending : Seq(Options)]
      /\ left \in Seq(Options) /\ left # <<>>
    BY DEF applyOption, TypeOK
<1>2. call' = [call EXCEPT ![g].pending = Tail(@)]
    BY DEF applyOption
<1>3. call[g].def = d /\ pending = Tail(left)
    BY <1>1, <1>2 DEF TypeOK
<1>4. d # NoDef /\ d \in DOMAIN defs
    BY <1>3, ApplyEffect DEF TypeOK
<1> PICK f : f = defs[d].fields
    OBVIOUS
<1> PICK c : c = defs[d].settings
    OBVIOUS
<1> PICK new : new = IF o.op = "field" THEN set(fieldStore[f], o.key, o.value) ELSE fieldStore[f]
    OBVIOUS
<1>5. /\ defs' = [defs EXCEPT ![d].settings = applySetting(@, o)]
      /\ fieldStore' = IF o.op = "field"
                       THEN [fieldStore EXCEPT ![f] = set(@, o.key, o.value)]
                       ELSE fieldStore
    BY <1>3 DEF applyOption
<1>6. /\ defs \in Seq(DefObject) /\ fieldStore \in Seq(FieldsObject)
      /\ defs[d] \in DefObject /\ f \in DOMAIN fieldStore
    BY <1>4, ElementOfSeq, LenProperties DEF TypeOK
<1>7. fieldStore'[f] = new
    BY <1>5, <1>6
<1>8. /\ defs'[d].fields = f /\ defs'[d].settings = applySetting(c, o)
      /\ defs'[d].rootDef = defs[d].rootDef /\ defs'[d].kind = defs[d].kind
    <2>1. defs' = [defs EXCEPT ![d] = [defs[d] EXCEPT !.settings = applySetting(c, o)]]
        BY <1>5
    <2> PICK after : after = applySetting(c, o)
        OBVIOUS
    <2>2. defs'[d] = [defs[d] EXCEPT !.settings = after]
        BY <2>1, <1>4, <1>6
    <2> QED
        BY <2>2, <1>6 DEF DefObject
<1>9. Halfway(d, left)
    BY <1>3, <1>4 DEF BuiltAsAsked
<1>10. PICK t, all : \E done \in Seq(Options) :
          /\ Begins(d, t, all)
          /\ done \o left = all
          /\ template(d) = Templates!Derived(t, done)
    BY <1>9 DEF Halfway
<1>11. PICK done \in Seq(Options) :
          /\ Begins(d, t, all)
          /\ done \o left = all
          /\ template(d) = Templates!Derived(t, done)
    BY <1>10
<1> PICK longer : longer = Append(done, o)
    OBVIOUS
<1>12. o \in Options /\ longer \in Seq(Options) /\ longer \o pending = all
    <2>1. /\ Head(left) \in Options
          /\ Append(done, Head(left)) \in Seq(Options)
          /\ Append(done, Head(left)) \o Tail(left) = done \o left
        BY <1>1, OneMoreDone
    <2> QED
        BY <1>3, <1>11, <2>1
<1> PICK r, k : r = root(d) /\ k = defs[d].kind
    OBVIOUS
<1>13. [origin |-> r, kind |-> k, fields |-> All(new), settings |-> applySetting(c, o)]
           = Templates!Derived(t, longer)
    <2>1. PICK a, b, F : \E s \in Settings :
              t = [origin |-> a, kind |-> b, fields |-> F, settings |-> s]
        BY <1>11, BeginsType
    <2>2. PICK s \in Settings : t = [origin |-> a, kind |-> b, fields |-> F, settings |-> s]
        BY <2>1
    <2>3. template(d) = [origin |-> r, kind |-> k, fields |-> All(fieldStore[f]), settings |-> c]
        BY TemplateIs
    <2>4. c \in Settings
        BY <1>6 DEF DefObject
    <2>5. [origin |-> r, kind |-> k, fields |-> All(fieldStore[f]), settings |-> c]
              = Templates!Derived(t, done)
        BY <1>11, <2>3
    <2> QED
        BY <2>2, <2>4, <2>5, <1>6, <1>12, DerivedLonger
<1>14. template(d)' = [origin |-> r, kind |-> k, fields |-> All(new), settings |-> applySetting(c, o)]
    <2>1. template(d)' = [origin |-> root(d)', kind |-> defs'[d].kind,
                          fields |-> All(fieldStore'[defs'[d].fields]),
                          settings |-> defs'[d].settings]
        BY DEF template, root
    <2>2. root(d)' = r
        BY <1>8 DEF root
    <2> QED
        BY <2>1, <2>2, <1>7, <1>8
<1>15. Begins(d, t, all)'
    BY <1>11, BeginsKept
<1>16. template(d)' = Templates!Derived(t, longer)'
    BY <1>13, <1>14, DerivedConstant
<1> QED
    BY <1>12, <1>15, <1>16 DEF Halfway

(* However the goroutines interleave, what each of them builds is what it  *)
(* began with and the options applied so far, for the options asked for.   *)
LEMMA BuiltStep ==
    ASSUME TypeOK, ObjectsPrivate, FieldOrder, RootsAreDefined, [Next]_vars, BuiltAsAsked
    PROVE  BuiltAsAsked'
<1> SUFFICES ASSUME NEW h \in Goroutines, NEW d, NEW pending,
                    d # NoDef, call'[h].def = d, call'[h].pending = pending
             PROVE  Halfway(d, pending)'
    BY DEF BuiltAsAsked
<1>1. ASSUME template(d)' = template(d), call'[h] = call[h]
      PROVE  Halfway(d, pending)'
    <2>1. Halfway(d, pending)
        BY <1>1 DEF BuiltAsAsked
    <2> QED
        BY <1>1, <2>1, HalfwayKept
<1>2. ASSUME NEW g \in Goroutines, Allocates(g) \/ applyOption(g) \/ Return(g), g # h
      PROVE  Halfway(d, pending)'
    <2>1. call'[h] = call[h]
        BY <1>2, AllocateEffect DEF applyOption, Return, TypeOK
    <2>2. call[h].def = d
        BY <2>1
    <2>3. h \in Goroutines \ {g}
        BY <1>2
    <2>4. template(d)' = template(d)
        BY <1>2, <2>2, <2>3, OthersKept
    <2> QED
        BY <1>1, <2>1, <2>4
<1>3. ASSUME NEW g \in Goroutines, NEW kind \in Kinds, NEW opts \in OptionLists,
             Define(g, kind, opts)
      PROVE  Halfway(d, pending)'
    <2>1. CASE g = h
        BY <1>3, <2>1, DefineBuilds
    <2>2. CASE g # h
        BY <1>2, <1>3, <2>2, DefineAllocates
    <2> QED
        BY <2>1, <2>2
<1>4. ASSUME NEW g \in Goroutines, NEW base \in published,
             NEW ctx \in DOMAIN contexts \cup {NilContext}, NEW opts \in OptionLists,
             With(g, base, ctx, opts)
      PROVE  Halfway(d, pending)'
    <2>1. CASE g = h
        BY <1>4, <2>1, WithBuilds
    <2>2. CASE g # h
        BY <1>2, <1>4, <2>2, WithDerives, DeriveAllocates
    <2> QED
        BY <2>1, <2>2
<1>5. ASSUME NEW g \in Goroutines, applyOption(g)
      PROVE  Halfway(d, pending)'
    <2>1. CASE g = h
        BY <1>5, <2>1, ApplyBuilds
    <2>2. CASE g # h
        BY <1>2, <1>5, <2>2
    <2> QED
        BY <2>1, <2>2
<1>6. ASSUME NEW g \in Goroutines, Return(g)
      PROVE  Halfway(d, pending)'
    <2>1. CASE g = h
        <3>1. call'[h].def = NoDef
            BY <1>6, <2>1 DEF Return, TypeOK, Idle
        <3> QED
            BY <3>1
    <2>2. CASE g # h
        BY <1>2, <1>6, <2>2
    <2> QED
        BY <2>1, <2>2
<1>7. CASE UNCHANGED <<defs, fieldStore, call>>
    <2>1. template(d)' = template(d)
        BY <1>7 DEF template, root
    <2> QED
        BY <1>1, <1>7, <2>1
<1>8. CASE CreateError
    BY <1>7, <1>8, CreateErrorEffect
<1>9. CASE DeriveContext \/ UNCHANGED vars
    BY <1>7, <1>9 DEF DeriveContext, vars
<1> QED
    BY <1>3, <1>4, <1>5, <1>6, <1>8, <1>9 DEF Next, Build

-----------------------------------------------------------------------------
(* The refinement: the contexts, templates and errors that the state       *)
(* stands for.                                                             *)

LEMMA AppendOf ==
    ASSUME NEW n \in Nat, NEW S, NEW f \in [1 .. n -> S], NEW h \in [1 .. n + 1 -> S],
           \A i \in 1 .. n : h[i] = f[i]
    PROVE  Len(f) = n /\ h = Append(f, h[n + 1])
<1>1. f \in Seq(S)
    BY SeqDef
<1>2. Len(f) = n
    BY <1>1
<1>3. PICK x \in S : x = h[n + 1]
    OBVIOUS
<1>4. PICK a : a = Append(f, x)
    OBVIOUS
<1>5. /\ a \in Seq(S) /\ Len(a) = n + 1
      /\ \A i \in 1 .. n : a[i] = f[i]
      /\ a[n + 1] = x
    BY <1>1, <1>2, <1>4, AppendProperties
<1>6. a \in [1 .. n + 1 -> S]
    BY <1>5, LenProperties
<1>7. a = [i \in 1 .. n + 1 |-> a[i]] /\ h = [i \in 1 .. n + 1 |-> h[i]]
    BY <1>6
<1>8. \A i \in 1 .. n + 1 : i \in 1 .. n \/ i = n + 1
    OBVIOUS
<1>9. \A i \in 1 .. n + 1 : a[i] = h[i]
    BY <1>3, <1>5, <1>8
<1> QED
    BY <1>2, <1>3, <1>4, <1>7, <1>9

LEMMA NewContextCarries ==
    ASSUME CtxTypeOK, NEW ctx \in DOMAIN contexts, NEW opts \in OptionLists,
           ContextWithOptions(ctx, opts), NEW n, n = Len(contexts) + 1,
           NEW all, all = optionsFromContext(ctx) \o opts
    PROVE  /\ DOMAIN contexts = 1 .. n - 1 /\ DOMAIN contexts' = 1 .. n /\ n \in Nat \ {0}
           /\ optionsFromContext(n)' = all
<1>0. all \in Seq(Options)
    BY ContextStep
<1>1. /\ arrays' = Append(arrays, all)
      /\ contexts' = Append(contexts,
            [parent |-> ctx, options |-> [array |-> Len(arrays) + 1, len |-> Len(all)]])
    BY ContextStep
<1>2. arrays \in Seq(Seq(Options)) /\ contexts \in Seq(Context)
    BY DEF CtxTypeOK
<1>3. DOMAIN contexts = 1 .. n - 1 /\ DOMAIN contexts' = 1 .. n /\ n \in Nat \ {0} /\ n # NilContext
    BY <1>1, <1>2 DEF NilContext
<1>4. /\ contexts'[n].options = [array |-> Len(arrays) + 1, len |-> Len(all)]
      /\ arrays'[Len(arrays) + 1] = all
    <2> PICK new : new = [parent |-> ctx, options |-> [array |-> Len(arrays) + 1, len |-> Len(all)]]
        OBVIOUS
    <2>1. contexts'[n] = new /\ arrays'[Len(arrays) + 1] = all
        BY <1>1, <1>2
    <2> QED
        BY <2>1
<1>5. optionsFromContext(n)' = [i \in 1 .. Len(all) |-> all[i]]
    <2> PICK s, m : s = contexts'[n].options /\ m = Len(all)
        OBVIOUS
    <2>1. optionsFromContext(n)' = [i \in 1 .. s.len |-> arrays'[s.array][i]]
        BY <1>3 DEF optionsFromContext, Elements
    <2>2. s.len = m /\ s.array = Len(arrays) + 1
        BY <1>4
    <2>3. arrays'[s.array] = all
        BY <1>4, <2>2
    <2> QED
        BY <2>1, <2>2, <2>3
<1>6. all = [i \in 1 .. Len(all) |-> all[i]]
    BY <1>0, LenProperties
<1> QED
    BY <1>3, <1>5, <1>6

(* Deriving a context.                                                     *)
LEMMA ContextImplements ==
    ASSUME TypeOK, [Next]_vars, DeriveContext
    PROVE  Templates!ContextWithOptions
<1>1. PICK ctx \in DOMAIN contexts, opts \in OptionLists : ContextWithOptions(ctx, opts)
    BY DEF DeriveContext, CtxNext
<1>n. PICK n : n = Len(contexts) + 1
    OBVIOUS
<1>a. PICK all : all = optionsFromContext(ctx) \o opts
    OBVIOUS
<1>c. PICK C : C = [c \in DOMAIN contexts |-> optionsFromContext(c)]
    OBVIOUS
<1>d. PICK D : D = [c \in DOMAIN contexts |-> optionsFromContext(c)]'
    OBVIOUS
<1>2. /\ DOMAIN contexts = 1 .. n - 1 /\ DOMAIN contexts' = 1 .. n /\ n \in Nat \ {0}
      /\ optionsFromContext(n)' = all
    BY <1>1, <1>n, <1>a, NewContextCarries DEF TypeOK
<1>3. \A c \in DOMAIN contexts : optionsFromContext(c)' = optionsFromContext(c)
    BY CtxStepOfNext, ContextsKept DEF TypeOK
<1>4. D = Append(C, all)
    <2>m. PICK m : m = n - 1
        OBVIOUS
    <2>0. m \in Nat /\ m + 1 = n /\ n - 1 = m
        BY <1>2, <2>m
    <2>2. (\A i \in DOMAIN contexts : C[i] = optionsFromContext(i))
        BY <1>c
    <2>3. (\A i \in DOMAIN contexts' : D[i] = optionsFromContext(i)')
        BY <1>d
    <2>4. (\A i \in 1 .. m : D[i] = C[i])
        BY <1>2, <1>3, <2>0, <2>2, <2>3
    <2>5. D[m + 1] = all
        <3>1. D[n] = all
            BY <1>2, <2>3
        <3> QED
            BY <2>0, <3>1
    <2>s. PICK S : S = {D[i] : i \in 1 .. n}
        OBVIOUS
    <2>6. DOMAIN C = 1 .. m /\ DOMAIN D = 1 .. m + 1
        BY <1>c, <1>d, <1>2, <2>0
    <2>7. C \in [1 .. m -> S] /\ D \in [1 .. m + 1 -> S]
        <3>1. \A i \in 1 .. m + 1 : D[i] \in S
            BY <2>0, <2>s
        <3>2. \A i \in 1 .. m : C[i] \in S
            BY <2>0, <2>4, <3>1
        <3>3. C = [i \in 1 .. m |-> C[i]] /\ D = [i \in 1 .. m + 1 |-> D[i]]
            BY <1>c, <1>d, <2>6
        <3> QED
            BY <3>1, <3>2, <3>3
    <2>8. D = Append(C, D[m + 1])
        BY <2>0, <2>4, <2>7, AppendOf
    <2> QED
        BY <2>5, <2>8
<1>5. C[ctx] = optionsFromContext(ctx) /\ ctx \in DOMAIN C
    BY <1>c
<1>6. D = Append(C, C[ctx] \o opts)
    BY <1>a, <1>4, <1>5
<1>7. UNCHANGED <<defs, fieldStore, published, errors>>
    BY DEF DeriveContext
<1> QED
    BY <1>c, <1>d, <1>5, <1>6, <1>7 DEF Templates!ContextWithOptions, template, root

LEMMA ContextsCounted ==
    ASSUME CtxTypeOK, NEW C, C = [c \in DOMAIN contexts |-> optionsFromContext(c)]
    PROVE  Len(C) = Len(contexts) /\ Len(contexts) \in Nat /\ DOMAIN contexts = 1 .. Len(contexts)
<1>1. Len(contexts) \in Nat /\ DOMAIN contexts = 1 .. Len(contexts)
    BY LenProperties DEF CtxTypeOK
<1>2. C \in [1 .. Len(contexts) -> Seq(Options)]
    BY <1>1, OptionsType
<1>3. C \in Seq(Seq(Options))
    BY <1>1, <1>2, SeqDef
<1> QED
    BY <1>1, <1>2, <1>3, LenProperties

LEMMA InitImplements == Init => Templates!Init
<1> SUFFICES ASSUME Init PROVE Templates!Init
    OBVIOUS
<1>1. DOMAIN contexts = 1 .. 1 /\ contexts[1].options.len = 0
    BY DEF Init, CtxInit, NilSlice
<1>2. optionsFromContext(1) = <<>>
    BY <1>1 DEF optionsFromContext, Elements, NilContext
<1>3. [c \in DOMAIN contexts |-> optionsFromContext(c)] = << <<>> >>
    BY <1>1, <1>2
<1>4. published = {} /\ DOMAIN errors = {}
    BY DEF Init
<1> QED
    BY <1>3, <1>4 DEF Templates!Init

(* Return hands out at once what was built step by step.                   *)
LEMMA ReturnImplements ==
    ASSUME TypeOK, ObjectsPrivate, BuiltAsAsked, NEW g \in Goroutines, Return(g)
    PROVE  Templates!Define \/ Templates!Derive
<1>d. PICK d : d = call[g].def
    OBVIOUS
<1> DEFINE P == [x \in published |-> template(x)]
           C == [c \in DOMAIN contexts |-> optionsFromContext(c)]
<1>1. /\ d # NoDef /\ call[g].pending = <<>> /\ d \notin published
      /\ published' = published \cup {d}
      /\ UNCHANGED <<arrays, contexts, defs, fieldStore, errors>>
    BY <1>d DEF Return, ObjectsPrivate, WritersPrivate, ctxVars
<1>2. \A x : template(x)' = template(x)
    BY <1>1 DEF template, root
<1>3. /\ DOMAIN P = published /\ DOMAIN P' = published \cup {d}
      /\ \A x \in published : P[x] = template(x) /\ P'[x] = template(x)
      /\ P'[d] = template(d)
    BY <1>1, <1>2
<1> HIDE DEF P, C
<1>4. PICK t, all : Begins(d, t, all) /\ template(d) = Templates!Derived(t, all)
    <2>1. Halfway(d, <<>>)
        BY <1>d, <1>1 DEF BuiltAsAsked
    <2>2. PICK t, all : \E done \in Seq(Options) :
              /\ Begins(d, t, all)
              /\ done \o <<>> = all
              /\ template(d) = Templates!Derived(t, done)
        BY <2>1 DEF Halfway
    <2>3. PICK done \in Seq(Options) :
              /\ Begins(d, t, all)
              /\ done \o <<>> = all
              /\ template(d) = Templates!Derived(t, done)
        BY <2>2
    <2>4. done \o <<>> = done
        OBVIOUS
    <2> QED
        BY <2>3, <2>4
<1>5. d \in DOMAIN P' \ DOMAIN P /\ DOMAIN P' = DOMAIN P \cup {d} /\ \A i \in DOMAIN P : P'[i] = P[i]
    BY <1>1, <1>3
<1>6. UNCHANGED <<[c \in DOMAIN contexts |-> optionsFromContext(c)],
                  [e \in DOMAIN errors |->
                      [template |-> template(errors[e].def), how |-> errors[e].how,
                       causes   |-> errors[e].causes,        stack |-> errors[e].stack]]>>
    <2>1. UNCHANGED [c \in DOMAIN contexts |-> optionsFromContext(c)]
        BY <1>1 DEF optionsFromContext, Elements
    <2>2. UNCHANGED [e \in DOMAIN errors |->
                      [template |-> template(errors[e].def), how |-> errors[e].how,
                       causes   |-> errors[e].causes,        stack |-> errors[e].stack]]
        <3>1. \A e \in DOMAIN errors : template(errors[e].def)' = template(errors[e].def)
            BY <1>1 DEF template, root
        <3> QED
            BY <1>1, <3>1
    <2> QED
        BY <2>1, <2>2
<1>7. ASSUME NEW kind \in Kinds, NEW opts \in OptionLists,
             t = Templates!Blank(d, kind), all = opts
      PROVE  Templates!Define
    <2>1. P'[d] = Templates!Derived(Templates!Blank(d, kind), opts)
        BY <1>3, <1>4, <1>7
    <2>2. \E id \in DOMAIN P' \ DOMAIN P :
              /\ DOMAIN P' = DOMAIN P \cup {id}
              /\ \A i \in DOMAIN P : P'[i] = P[i]
              /\ \E k \in Kinds, l \in OptionLists :
                    P'[id] = Templates!Derived(Templates!Blank(id, k), l)
        BY <1>5, <2>1
    <2> QED
        BY <1>6, <2>2 DEF P, Templates!Define, Templates!Issue
<1>8. ASSUME NEW base \in published, NEW ctx \in DOMAIN contexts \cup {NilContext},
             NEW opts \in OptionLists, t = template(base), all = optionsFromContext(ctx) \o opts
      PROVE  Templates!Derive
    <2>1. base \in DOMAIN P /\ P[base] = t
        BY <1>3, <1>8
    <2>2. ctx \in 0 .. Len(C) /\ (IF ctx = 0 THEN <<>> ELSE C[ctx]) = optionsFromContext(ctx)
        <3>1. Len(C) = Len(contexts) /\ Len(contexts) \in Nat /\ DOMAIN contexts = 1 .. Len(contexts)
            BY ContextsCounted DEF C, TypeOK
        <3>2. ctx \in 0 .. Len(C)
            BY <3>1 DEF NilContext
        <3>3. ctx = 0 => optionsFromContext(ctx) = <<>>
            BY DEF optionsFromContext, NilContext
        <3>4. ctx # 0 => C[ctx] = optionsFromContext(ctx)
            BY DEF C, NilContext
        <3> QED
            BY <3>2, <3>3, <3>4
    <2>3. P'[d] = Templates!Derived(P[base], (IF ctx = 0 THEN <<>> ELSE C[ctx]) \o opts)
        BY <1>3, <1>4, <1>8, <2>1, <2>2
    <2>4. \E b \in DOMAIN P, c \in 0 .. Len(C), l \in OptionLists :
              P'[d] = Templates!Derived(P[b], (IF c = 0 THEN <<>> ELSE C[c]) \o l)
        BY <2>1, <2>2, <2>3
    <2>5. \E id \in DOMAIN P' \ DOMAIN P :
              /\ DOMAIN P' = DOMAIN P \cup {id}
              /\ \A i \in DOMAIN P : P'[i] = P[i]
              /\ \E b \in DOMAIN P, c \in 0 .. Len(C), l \in OptionLists :
                    P'[id] = Templates!Derived(P[b], (IF c = 0 THEN <<>> ELSE C[c]) \o l)
        BY <1>5, <2>4
    <2> QED
        BY <1>6, <2>5 DEF P, C, Templates!Derive, Templates!Issue
<1> QED
    BY <1>4, <1>7, <1>8 DEF Begins

(* Nobody sees Define or With at work.                                     *)
LEMMA WorkIsUnseen ==
    ASSUME TypeOK, ObjectsPrivate, [Next]_vars,
           UNCHANGED <<ctxVars, published, errors>>
    PROVE  UNCHANGED Templates!vars
<1>1. UNCHANGED <<arrays, contexts, published, errors>>
    BY DEF ctxVars
<1>2. \A d \in published : template(d)' = template(d)
    BY PublishedKept, ViewTells
<1>3. \A e \in DOMAIN errors : errors[e].def \in published
    BY DEF TypeOK
<1>4. [c \in DOMAIN contexts |-> optionsFromContext(c)]'
          = [c \in DOMAIN contexts |-> optionsFromContext(c)]
    BY <1>1 DEF optionsFromContext, Elements
<1>5. [d \in published |-> template(d)]' = [d \in published |-> template(d)]
    BY <1>1, <1>2
<1>6. \A e \in DOMAIN errors : template(errors[e].def)' = template(errors[e].def)
    BY <1>1, <1>2, <1>3
<1>7. [e \in DOMAIN errors |->
          [template |-> template(errors[e].def), how |-> errors[e].how,
           causes   |-> errors[e].causes,        stack |-> errors[e].stack]]'
      = [e \in DOMAIN errors |->
          [template |-> template(errors[e].def), how |-> errors[e].how,
           causes   |-> errors[e].causes,        stack |-> errors[e].stack]]
    BY <1>1, <1>6
<1> QED
    BY <1>4, <1>5, <1>7 DEF Templates!vars

LEMMA SameStack ==
    ASSUME NEW s, NEW skip
    PROVE  Templates!capturedStack(s, skip) = capturedStack(s, skip)
BY DEF Templates!capturedStack, capturedStack, Templates!NoStack, NoStack,
       Templates!callersDepth, callersDepth

LEMMA NewErrorImplements ==
    ASSUME TypeOK, NEW d \in published, NEW how, NEW causes, NEW skip,
           newError(d, how, causes, skip)
    PROVE  Templates!Create(d, how, causes, skip)
<1>n. PICK n : n = Len(errors)
    OBVIOUS
<1>e. PICK E : E = [e \in DOMAIN errors |->
          [template |-> template(errors[e].def), how |-> errors[e].how,
           causes   |-> errors[e].causes,        stack |-> errors[e].stack]]
    OBVIOUS
<1>f. PICK F : F = [e \in DOMAIN errors |->
          [template |-> template(errors[e].def), how |-> errors[e].how,
           causes   |-> errors[e].causes,        stack |-> errors[e].stack]]'
    OBVIOUS
<1>p. PICK P : P = [x \in published |-> template(x)]
    OBVIOUS
<1>x. PICK err : err = [def |-> d, how |-> how, causes |-> causes,
                        stack |-> capturedStack(defs[d].settings, skip)]
    OBVIOUS
<1>1. errors' = Append(errors, err) /\ UNCHANGED <<arrays, contexts, defs, fieldStore, published>>
    BY <1>x DEF newError, ctxVars
<1>2. /\ n \in Nat /\ DOMAIN errors = 1 .. n /\ DOMAIN errors' = 1 .. n + 1
      /\ \A e \in 1 .. n : errors'[e] = errors[e]
      /\ errors'[n + 1] = err
    BY <1>n, <1>1 DEF TypeOK
<1>3. \A x : template(x)' = template(x)
    BY <1>1 DEF template, root
<1>4. DOMAIN E = 1 .. n /\ DOMAIN F = 1 .. n + 1
    BY <1>e, <1>f, <1>2
<1>5. \A e \in 1 .. n : F[e] = E[e]
    <2> TAKE e \in 1 .. n
    <2>1. E[e] = [template |-> template(errors[e].def), how |-> errors[e].how,
                  causes   |-> errors[e].causes,        stack |-> errors[e].stack]
        BY <1>e, <1>2
    <2>2. F[e] = [template |-> template(errors[e].def)', how |-> errors'[e].how,
                  causes   |-> errors'[e].causes,         stack |-> errors'[e].stack]
        BY <1>f, <1>2
    <2>3. template(errors[e].def)' = template(errors[e].def)
        BY <1>1, <1>2 DEF template, root
    <2> QED
        BY <2>1, <2>2, <2>3, <1>2
<1>6. P[d] = template(d) /\ P[d].settings = defs[d].settings /\ d \in DOMAIN P
    BY <1>p, TemplateIs
<1>7. F[n + 1] = [template |-> P[d], how |-> how, causes |-> causes,
                  stack |-> Templates!capturedStack(P[d].settings, skip)]
    <2>1. F[n + 1] = [template |-> template(errors[n + 1].def)', how |-> errors'[n + 1].how,
                      causes   |-> errors'[n + 1].causes,         stack |-> errors'[n + 1].stack]
        BY <1>f, <1>2
    <2>2. template(errors[n + 1].def)' = template(d)
        <3>1. errors'[n + 1].def = d
            BY <1>x, <1>2
        <3> QED
            BY <3>1, <1>1 DEF template, root
    <2>3. /\ errors'[n + 1].how = how /\ errors'[n + 1].causes = causes
          /\ errors'[n + 1].stack = capturedStack(defs[d].settings, skip)
        BY <1>x, <1>2
    <2>4. Templates!capturedStack(P[d].settings, skip) = capturedStack(defs[d].settings, skip)
        BY <1>6, SameStack
    <2> QED
        BY <2>1, <2>2, <2>3, <2>4, <1>6
<1>8. F = Append(E, F[n + 1])
    <2>s. PICK S : S = {F[i] : i \in 1 .. n + 1}
        OBVIOUS
    <2>1. (\A i \in 1 .. n + 1 : F[i] \in S) /\ (\A i \in 1 .. n : E[i] \in S)
        BY <2>s, <1>2, <1>5
    <2>2. E = [i \in 1 .. n |-> E[i]] /\ F = [i \in 1 .. n + 1 |-> F[i]]
        BY <1>e, <1>f, <1>4
    <2>3. E \in [1 .. n -> S] /\ F \in [1 .. n + 1 -> S]
        BY <2>1, <2>2
    <2> QED
        BY <2>3, <1>2, <1>5, AppendOf
<1>9. F = Append(E, [template |-> P[d], how |-> how, causes |-> causes,
                     stack |-> Templates!capturedStack(P[d].settings, skip)])
    BY <1>7, <1>8
<1>10. UNCHANGED <<[c \in DOMAIN contexts |-> optionsFromContext(c)],
                   [x \in published |-> template(x)]>>
    BY <1>1 DEF optionsFromContext, Elements, template, root
<1> QED
    BY <1>e, <1>f, <1>p, <1>9, <1>10 DEF Templates!Create

LEMMA ErrorImplements ==
    ASSUME TypeOK, CreateError
    PROVE  Templates!New \/ Templates!Wrap \/ Templates!Recover \/ Templates!Join
<1>d. PICK d \in published :
        \/ New(d)
        \/ \E c \in Causes \cup {Nil} : Wrap(d, c)
        \/ \E n \in 0 .. MaxJoin : \E cs \in [1 .. n -> Causes] : Join(d, cs)
        \/ \E v \in Causes : Recover(d, v)
    BY DEF CreateError
<1>1. d \in DOMAIN [x \in published |-> template(x)]
    OBVIOUS
<1>2. Templates!Causes = Causes
    BY DEF Templates!Causes, Causes
<1>3. Templates!callersSkip = callersSkip /\ Templates!recoverSkip = recoverSkip
    BY DEF Templates!callersSkip, callersSkip, Templates!recoverSkip, recoverSkip
<1>4. CASE New(d)
    <2>1. Templates!Create(d, "new", <<>>, callersSkip)
        BY <1>4, NewErrorImplements DEF New
    <2> QED
        BY <1>1, <1>3, <2>1 DEF Templates!New
<1>5. ASSUME NEW c \in Causes, Wrap(d, c)
      PROVE  Templates!Wrap
    <2>1. Templates!Create(d, "wrap", <<c>>, callersSkip)
        BY <1>5, NewErrorImplements DEF Wrap
    <2> QED
        BY <1>1, <1>2, <1>3, <2>1 DEF Templates!Wrap
<1>6. ASSUME NEW c \in Causes, Recover(d, c)
      PROVE  Templates!Recover
    <2>1. Templates!Create(d, "panic", <<c>>, recoverSkip)
        BY <1>6, NewErrorImplements DEF Recover
    <2> QED
        BY <1>1, <1>2, <1>3, <2>1 DEF Templates!Recover
<1>7. ASSUME NEW n \in 0 .. MaxJoin, NEW cs \in [1 .. n -> Causes], Join(d, cs)
      PROVE  Templates!Join
    <2>1. Templates!Create(d, "join", cs, callersSkip)
        BY <1>7, NewErrorImplements DEF Join
    <2>2. n \in 1 .. MaxJoin
        <3>1. n # 0
            <4> SUFFICES ASSUME n = 0 PROVE FALSE
                OBVIOUS
            <4>1. cs = <<>>
                OBVIOUS
            <4> QED
                BY <4>1, <1>7 DEF Join
        <3> QED
            BY <3>1
    <2> QED
        BY <1>1, <1>2, <1>3, <2>1, <2>2 DEF Templates!Join
<1>8. ASSUME NEW c \in Causes \cup {Nil}, Wrap(d, c)
      PROVE  Templates!Wrap
    BY <1>5, <1>8 DEF Wrap
<1> QED
    BY <1>d, <1>4, <1>6, <1>7, <1>8

(* Every step of the code is one of the abstract specification, or unseen. *)
LEMMA StepImplements ==
    ASSUME TypeOK, ObjectsPrivate, BuiltAsAsked, [Next]_vars
    PROVE  [Templates!Next]_(Templates!vars)
<1>1. ASSUME NEW g \in Goroutines, Build(g), ~ Return(g)
      PROVE  UNCHANGED Templates!vars
    <2>1. UNCHANGED <<ctxVars, published, errors>>
        BY <1>1 DEF Build, Define, With, derive, applyOption
    <2> QED
        BY <2>1, WorkIsUnseen
<1>2. ASSUME NEW g \in Goroutines, Return(g)
      PROVE  Templates!Define \/ Templates!Derive
    BY <1>2, ReturnImplements
<1>3. CASE CreateError
    BY <1>3, ErrorImplements DEF Templates!Next
<1>4. CASE DeriveContext
    BY <1>4, ContextImplements DEF Templates!Next
<1>5. CASE UNCHANGED vars
    <2>1. UNCHANGED <<ctxVars, published, errors>>
        BY <1>5 DEF vars, ctxVars
    <2> QED
        BY <2>1, WorkIsUnseen
<1> QED
    BY <1>1, <1>2, <1>3, <1>4, <1>5 DEF Next, Templates!Next

(* Pointers, clones and one option at a time implement values and atomic   *)
(* derivations: whatever the goroutines do, of every setting the last      *)
(* option wins and the fields are in the order of their last assignment.   *)
THEOREM TemplatesImplemented == Spec => ImplementsTemplates
<1> DEFINE Inv == TypeOK /\ ObjectsPrivate /\ FieldOrder /\ RootsAreDefined /\ BuiltAsAsked
<1>1. Init => Inv
    BY TypeInit, PrivateInit DEF Init, FieldOrder, RootsAreDefined, BuiltAsAsked, Idle
<1>2. Inv /\ [Next]_vars => Inv'
    BY TypeStep, PrivateStep, OrderStep, RootsStep, BuiltStep
<1>3. Inv /\ [Next]_vars => [Templates!Next]_(Templates!vars)
    BY StepImplements
<1> QED
    BY InitImplements, <1>1, <1>2, <1>3, PTL DEF Spec, ImplementsTemplates, Templates!Spec
=============================================================================
