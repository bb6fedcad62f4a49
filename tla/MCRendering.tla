---------------------------- MODULE MCRendering ----------------------------
(* Rendering of an error with three others among its causes, and of single *)
(* errors with every kind of stack; an int has four bits.  In some trees   *)
(* the source of one error cannot be sliced: its line and its setting      *)
(* overflow.                                                               *)
EXTENDS Rendering, TLC

CONSTANTS e0, e1, e2, e3

Lists == {<<>>, <<e1>>, <<e2>>, <<e2, e3>>, <<e3, e2>>, <<Nil, e3>>}

Field(name, value) == [name |-> name, value |-> value]
Fields == <<Field("id", 1), Field("user", 2), Field("id", 3)>>

File(line, length) == [file |-> TRUE, line |-> line, length |-> length]
NoFile == [file |-> FALSE, line |-> 1, length |-> 1]

Plain == Stack(<<File(1, 3), NoFile>>, 1, 1)

Request(m, tree, d, options, fields, stacks) ==
    [mode |-> m, root |-> e0, causes |-> tree, defined |-> d,
     options |-> [e \in Errors |-> IF e \in {e0, e1} THEN options[e] ELSE {}],
     kind |-> [e \in Errors |-> "kind"], fields |-> [e \in Errors |-> fields],
     stackOf |-> [e \in Errors |-> stacks], typeName |-> [e \in Errors |-> "type"]]

NoOptions == [e \in Errors |-> {}]
OwnJSON   == [e \in Errors |-> IF e = e1 THEN {"JSONMarshaler", "Formatter", "LogValuer"} ELSE {}]
OwnAll    == [e \in Errors |-> IF e = e0 THEN {"JSONMarshaler", "Formatter", "LogValuer"} ELSE {}]

Trees ==
    {(e0 :> x) @@ f : x \in {<<e1, Nil, e2>>, <<e1, e1>>}, f \in [{e1, e2, e3} -> Lists]}

CyclesToRoot ==
    {(e0 :> <<e1>>) @@ f : f \in [{e1, e2, e3} -> {<<>>, <<e0>>, <<e2>>, <<e2, e0>>}]}

GraphRequests ==
    {Request(m, t, d, NoOptions, <<>>, Plain) :
        m \in {"text", "json", "nodes", "walk"}, t \in Trees \cup CyclesToRoot,
        d \in {{e0}, {e0, e1}, {e0, e2}}}

OptionRequests ==
    {Request(m, t, {e0, e1}, o, Fields, Plain) :
        m \in Modes, t \in {t \in Trees : t[e1] = <<e2, e3>> /\ t[e3] = <<>>}, o \in {OwnJSON, OwnAll, NoOptions}}

Stacks ==
    {Stack(<<File(line, length), File(1, 2), NoFile>>, around, depth) :
        line \in 0 .. 5, length \in 0 .. 4, around \in 0 .. 7, depth \in -1 .. 2}

StackRequests ==
    {Request("text", [e \in Errors |-> <<>>], {e0}, NoOptions, <<>>, s) : s \in Stacks}

Overflow == Stack(<<File(1, 3), File(2, 3), File(1, 3)>>, 6, -1)

BreakRequests ==
    {[Request(m, t, d, o, <<>>, Plain) EXCEPT !.stackOf[e] = Overflow] :
        m \in {"text", "plain"}, d \in {{e0, e1}, {e0, e2}}, e \in {e0, e1, e2},
        o \in {OwnAll, NoOptions},
        t \in {t \in Trees : t[e2] \in {<<>>, <<e1>>} /\ t[e3] \in {<<>>, <<e2>>}}}

AllRequests == GraphRequests \cup OptionRequests \cup StackRequests \cup BreakRequests

MCRequests == {q \in AllRequests : q.mode = "json" => CyclesForeign(q)}

CyclicRequests == {q \in GraphRequests : q.mode = "json"}
=============================================================================
