--------------------------- MODULE ErrorTemplate ---------------------------
(***************************************************************************)
(* What the package promises of definitions, factories and errors, without *)
(* pointers, maps, clones or steps.  A template is a value; deriving one   *)
(* from another is atomic and given in closed form: of every setting the   *)
(* last option wins (definition.go:36-42), the fields a derivation sets    *)
(* come after those it keeps, in the order of their last assignment; the   *)
(* fields of a template are told by what comes before each of them.  An    *)
(* error holds the value of its template, so nothing later can change it   *)
(* (error.go:15).  Definition implements this specification.               *)
(***************************************************************************)
EXTENDS ErrorOptions, Sequences, FiniteSetsExt

CONSTANTS
    Kinds,          \* kinds of definitions
    OptionLists,    \* lists of options that callers pass
    Foreign,        \* an error of another package
    MaxJoin         \* bound: causes given to one Join

VARIABLES
    contexts,       \* contexts, each the list of options it carries
    templates,      \* the templates handed out, by an identifier of their own
    errors          \* the errors created, in order

vars == <<contexts, templates, errors>>

Positions(opts, op) == {i \in DOMAIN opts : opts[i].op = op}

Final(opts, op) == opts[Max(Positions(opts, op))]

(* What the skips of a list of options add up to.                          *)
TotalSkip(opts) ==
    LET total[n \in 0 .. Len(opts)] ==
            IF n = 0 THEN 0
            ELSE total[n - 1] + IF opts[n].op = "stackSkip" THEN opts[n].skip ELSE 0
    IN total[Len(opts)]

Configured(s, opts) ==
    LET Has(op) == Positions(opts, op) # {}
        Fn(op, old) == IF Has(op) THEN Final(opts, op).fn ELSE old
    IN [noTrace          |-> s.noTrace \/ Has("noTrace"),
        stackSkip        |-> s.stackSkip + TotalSkip(opts),
        stackDepth       |-> IF Has("stackDepth") THEN Final(opts, "stackDepth").depth
                                                  ELSE s.stackDepth,
        stackSourceLines |-> IF Has("stackSource") THEN Final(opts, "stackSource").around
                                                   ELSE s.stackSourceLines,
        stackSourceDepth |-> IF Has("stackSource") THEN Final(opts, "stackSource").depth
                                                   ELSE s.stackSourceDepth,
        formatter        |-> Fn("formatter", s.formatter),
        jsonMarshaler    |-> Fn("jsonMarshaler", s.jsonMarshaler),
        logValuer        |-> Fn("logValuer", s.logValuer)]

(* The fields that opts leave behind on top of others.                     *)
Overlaid(fields, opts) ==
    LET assigned == Positions(opts, "field")
        keys     == {opts[i].key : i \in assigned}
        kept     == DOMAIN fields \ keys
        Last(k)  == Max({i \in assigned : opts[i].key = k})
    IN [k \in kept \cup keys |->
           IF k \in kept
           THEN [value |-> fields[k].value, before |-> fields[k].before \ keys]
           ELSE [value |-> opts[Last(k)].value, before |-> kept \cup {j \in keys : Last(j) < Last(k)}]]

NoFields == [k \in {} |-> k]

Derived(t, opts) ==
    [t EXCEPT !.fields = Overlaid(@, opts), !.settings = Configured(@, opts)]

Blank(id, kind) ==
    [origin |-> id, kind |-> kind, fields |-> NoFields, settings |-> defaultSettings]

(* One template more, with the value asked for, and the others unchanged.  *)
Issue(Value(_)) ==
    \E id \in DOMAIN templates' \ DOMAIN templates :
        /\ DOMAIN templates' = DOMAIN templates \cup {id}
        /\ \A i \in DOMAIN templates : templates'[i] = templates[i]
        /\ Value(id)
        /\ UNCHANGED <<contexts, errors>>

Create(id, how, causes, skip) ==
    /\ errors' = Append(errors,
          [template |-> templates[id], how |-> how, causes |-> causes,
           stack |-> capturedStack(templates[id].settings, skip)])
    /\ UNCHANGED <<contexts, templates>>

-----------------------------------------------------------------------------

Init ==
    /\ contexts = << <<>> >>
    /\ templates = <<>>
    /\ errors = <<>>

(* A definition is the origin of every template derived from it.           *)
Define ==
    Issue(LAMBDA id : \E kind \in Kinds, opts \in OptionLists :
              templates'[id] = Derived(Blank(id, kind), opts))

(* With and WithOptions: the context's options, if any, before the         *)
(* caller's.                                                               *)
Derive ==
    Issue(LAMBDA id :
              \E base \in DOMAIN templates, c \in 0 .. Len(contexts), opts \in OptionLists :
                  templates'[id] = Derived(templates[base],
                                           (IF c = 0 THEN <<>> ELSE contexts[c]) \o opts))

ContextWithOptions ==
    \E c \in DOMAIN contexts, opts \in OptionLists :
        /\ contexts' = Append(contexts, contexts[c] \o opts)
        /\ UNCHANGED <<templates, errors>>

(* New has no cause, Wrap and Recover have one, Join has one or more that  *)
(* are not nil; a cause is an earlier error or an error of another package.*)
Causes == DOMAIN errors \cup {Foreign}

New     == \E id \in DOMAIN templates : Create(id, "new", <<>>, callersSkip)
Wrap    == \E id \in DOMAIN templates, c \in Causes :
               Create(id, "wrap", <<c>>, callersSkip)
Recover == \E id \in DOMAIN templates, c \in Causes :
               Create(id, "panic", <<c>>, recoverSkip)
Join    == \E id \in DOMAIN templates, n \in 1 .. MaxJoin : \E cs \in [1 .. n -> Causes] :
               Create(id, "join", cs, callersSkip)

Next == Define \/ Derive \/ ContextWithOptions \/ New \/ Wrap \/ Recover \/ Join

Spec == Init /\ [][Next]_vars
=============================================================================
