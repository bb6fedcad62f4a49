--------------------------- MODULE OptionContext ---------------------------
(***************************************************************************)
(* Error options carried by a context.Context (context.go).                *)
(*                                                                         *)
(* A Go slice is a reference to a backing array and a length; two slices   *)
(* may look at one array.  The arrays are therefore kept apart from the    *)
(* contexts, and every sibling derived from one request context could, if  *)
(* the code appended in place, write over the options of another.          *)
(***************************************************************************)
EXTENDS Naturals, Sequences

CONSTANTS
    Options,        \* the option values an application has at hand
    OptionLists,    \* the lists of them that callers pass
    MaxContexts     \* bound: number of contexts ever derived, the first included

ASSUME OptionListsAssumption == OptionLists \subseteq Seq(Options)
ASSUME MaxContextsAssumption == MaxContexts \in Nat \ {0}

VARIABLES
    arrays,         \* backing arrays, in order of allocation
    contexts        \* contexts, in order of creation: parent and option slice

ctxVars == <<arrays, contexts>>

NilContext == 0     \* the nil context.Context

Slice == [array : Nat, len : Nat]
NilSlice == [array |-> 0, len |-> 0]

Context == [parent : Nat, options : Slice]

Elements(slice) ==
    [i \in 1 .. slice.len |-> arrays[slice.array][i]]

optionsFromContext(ctx) ==
    IF ctx = NilContext THEN <<>> ELSE Elements(contexts[ctx].options)

(* What append(ctxOpts, opts...) would do instead: write behind the slice  *)
(* when the array has room, else move to an array of twice the size (whose *)
(* spare elements hold anything).                                          *)
appendedOptions(ctx, opts) ==
    LET old  == contexts[ctx].options
        need == old.len + Len(opts)
        cap  == IF old.array = 0 THEN 0 ELSE Len(arrays[old.array])
        Put(s, i) == IF i <= old.len \/ i > need THEN s[i] ELSE opts[i - old.len]
    IN IF need <= cap
       THEN [arrays  |-> [arrays EXCEPT ![old.array] = [i \in 1 .. cap |-> Put(@, i)]],
             options |-> [array |-> old.array, len |-> need]]
       ELSE [arrays  |-> Append(arrays,
                 [i \in 1 .. 2 * need |->
                     IF i > need THEN opts[1] ELSE Put(optionsFromContext(ctx), i)]),
             options |-> [array |-> Len(arrays) + 1, len |-> need]]

(* The two copies in the wrong order: the caller's options come first.     *)
prependedOptions(ctx, opts) ==
    [arrays  |-> Append(arrays, opts \o optionsFromContext(ctx)),
     options |-> [array |-> Len(arrays) + 1,
                  len   |-> Len(optionsFromContext(ctx)) + Len(opts)]]

(* make() of the exact size and two copies: the new slice has an array of  *)
(* its own.                                                                *)
copiedOptions(ctx, opts) ==
    [arrays  |-> Append(arrays, optionsFromContext(ctx) \o opts),
     options |-> [array |-> Len(arrays) + 1,
                  len   |-> Len(optionsFromContext(ctx)) + Len(opts)]]

(* No option at all returns ctx itself and changes nothing; a nil ctx with *)
(* options panics in context.WithValue.  Both are left out.                *)
ContextWithOptions(ctx, opts) ==
    /\ opts # <<>>
    /\ Len(contexts) < MaxContexts
    /\ LET new == copiedOptions(ctx, opts)
       IN /\ arrays' = new.arrays
          /\ contexts' = Append(contexts, [parent |-> ctx, options |-> new.options])

CtxInit ==
    /\ arrays = <<>>
    /\ contexts = <<[parent |-> NilContext, options |-> NilSlice]>>

CtxNext ==
    \E ctx \in DOMAIN contexts, opts \in OptionLists : ContextWithOptions(ctx, opts)

CtxSpec == CtxInit /\ [][CtxNext]_ctxVars

-----------------------------------------------------------------------------

CtxTypeOK ==
    /\ arrays \in Seq(Seq(Options))
    /\ contexts \in Seq(Context)
    /\ \A c \in DOMAIN contexts :
          LET s == contexts[c].options
          IN /\ contexts[c].parent \in 0 .. c - 1
             /\ s = NilSlice \/ /\ s.array \in DOMAIN arrays
                                /\ s.len <= Len(arrays[s.array])

(* A context, once handed out, carries the same options for ever, whatever *)
(* siblings and children are derived from it or beside it (the copy in     *)
(* ContextWithOptions, context.go:17-19).                                  *)
ContextsImmutable ==
    [][\A c \in DOMAIN contexts : optionsFromContext(c)' = optionsFromContext(c)]_ctxVars

(* A derived context carries its parent's options, first and in their      *)
(* order, and at least one more: options meant to override an outer layer's*)
(* come after it (context.go:18-19).                                       *)
ChildExtendsParent ==
    \A c \in DOMAIN contexts :
        LET inherited == optionsFromContext(contexts[c].parent)
            own       == optionsFromContext(c)
        IN contexts[c].parent # NilContext =>
              /\ Len(inherited) < Len(own)
              /\ SubSeq(own, 1, Len(inherited)) = inherited
=============================================================================
