----------------------------- MODULE Rendering -----------------------------
(***************************************************************************)
(* Rendering an error (definition.go: FormatError, MarshalErrorJSON,       *)
(* MakeErrorLogValue; node.go: MarshalJSON, LogValue, Walk; field.go).     *)
(*                                                                         *)
(* The recursion over the nodes of the cause tree is a stack of frames.  A *)
(* tree is built before it is rendered (CauseTree); here its nodes appear  *)
(* as they are come to: a frame knows the errors on the path of the tree   *)
(* it belongs to.  Every error is a pointer.  A node rendered is known by  *)
(* its trail: at each level the position among the causes and the error.   *)
(***************************************************************************)
EXTENDS Naturals, Sequences, SequencesExt, SourceWindow

CONSTANTS
    Errors,
    Nil,            \* the nil error
    Requests,       \* what is rendered and how
    MaxDepth        \* bound: frames on the stack

VARIABLES
    request,        \* which no step changes
    stack,          \* frames: an error, its path, its trail, the next cause
    out             \* the nodes rendered, in order

vars == <<request, stack, out>>

mode == request.mode
defined == request.defined
causes(e) == request.causes[e]

(* Text stands for the verb %+v, plain for %v, %s and %q, and nothing for  *)
(* the verbs that FormatError does not know.                               *)
Formats == {"text", "plain", "nothing"}
Modes == Formats \cup {"json", "log", "nodes", "walk"}

ASSUME RequestsAssumption ==
    /\ Nil \notin Errors
    /\ \A q \in Requests :
           /\ q.mode \in Modes /\ q.root \in Errors /\ q.defined \subseteq Errors
           /\ q.causes \in [Errors -> Seq(Errors \cup {Nil})]
           /\ \A e \in Errors : q.fields[e] \in Seq(ToSet(q.fields[e]))
           /\ \A e \in Errors : StackTyped(q.stackOf[e])

(* Options of the definition that take the rendering over.                 *)
Own == [shows |-> "own"]

ownOption ==
    IF mode \in Formats THEN "Formatter" ELSE IF mode = "json" THEN "JSONMarshaler" ELSE "LogValuer"

TakesOver(e) == e \in defined /\ ownOption \in request.options[e]

-----------------------------------------------------------------------------
(* What is shown of an error.                                              *)

(* MarshalJSON goes through a map: the last field of a name is left.       *)
lastByName(fields) ==
    [name \in {fields[i].name : i \in DOMAIN fields} |->
        fields[Max({i \in DOMAIN fields : fields[i].name = name})].value]

formatErrorDetails(e) ==
    [kind |-> request.kind[e], fields |-> request.fields[e],
     sources |-> FramesAndSource(request.stackOf[e])]

jsonErrorData(e) ==
    [kind |-> request.kind[e], fields |-> lastByName(request.fields[e]),
     frames |-> Len(request.stackOf[e].frames)]

(* The type: what its method TypeName says, or the Go type.                *)
jsonCauseData(e) == [type |-> request.typeName[e]]

MakeErrorLogValue(e) ==
    [kind |-> request.kind[e], fields |-> request.fields[e],
     origin |-> SubSeq(request.stackOf[e].frames, 1, 1)]

nodeLogValue(e) ==
    [kind |-> request.kind[e], fields |-> request.fields[e],
     frames |-> Len(request.stackOf[e].frames)]

(* Reading the source of a frame panics: fmt catches it and keeps what was *)
(* written until then, and nothing more is.                                *)
Breaks(e) == mode = "text" /\ e \in defined /\ Panicking(request.stackOf[e]) # {}

Message == [shows |-> "message"]
Nothing == [shows |-> "nothing"]

(* The error that is rendered itself.                                      *)
ShownAtTop(e) ==
    IF TakesOver(e) THEN Own
    ELSE CASE mode = "text"  -> formatErrorDetails(e)
           [] mode = "json"  -> jsonErrorData(e)
           [] mode = "log"   -> MakeErrorLogValue(e)
           [] mode = "plain" -> Message
           [] OTHER          -> Nothing

(* A formatter of its own is looked for at every level.                    *)
ShownBelowAsAtTop(e) ==
    IF e \in defined THEN ShownAtTop(e) ELSE Message

(* A node below it: only JSON asks the definition again.                   *)
ShownBelow(e) ==
    CASE mode = "json" -> IF e \in defined THEN ShownAtTop(e) ELSE jsonCauseData(e)
      [] mode = "text" /\ e \in defined -> formatErrorDetails(e)
      [] mode = "nodes" /\ e \in defined -> nodeLogValue(e)
      [] OTHER -> Message

DescendsAtTop(e) ==
    \/ mode \in {"nodes", "walk"}
    \/ mode \in {"text", "json"} /\ ~ TakesOver(e)

DescendsBelow(e) == mode = "json" => ~ TakesOver(e)

-----------------------------------------------------------------------------

frame == stack[Len(stack)]

HasNext == stack # <<>> /\ frame.next <= Len(causes(frame.err))

(* Causes from the last to the first.                                      *)
fromTheLast == Len(causes(frame.err)) - frame.next + 1

position == frame.next

cause == causes(frame.err)[position]

(* The nodes below one on the path are left out.                           *)
OnPath == cause \in frame.path

Frame(e, path, trail) == [err |-> e, path |-> path, trail |-> trail, next |-> 1]

(* The path forgotten at every node.                                       *)
pathForgotten(e) == {}

(* A defined error marshals itself: it builds a tree of its own, whose     *)
(* path starts empty.                                                      *)
pathBelow(e) ==
    IF mode = "json" /\ e \in defined THEN {} ELSE frame.path \cup {e}

Advanced == [stack EXCEPT ![Len(stack)].next = @ + 1]

Init ==
    /\ request \in Requests
    /\ stack = <<>>
    /\ out = <<>>

(* Nodes and walks start from the tree of the root, not from the root.     *)
Start ==
    /\ stack = <<>> /\ out = <<>>
    /\ out' = <<[trail |-> <<>>, shows |-> IF mode \in {"nodes", "walk"} THEN Nothing
                                           ELSE ShownAtTop(request.root)]>>
    /\ stack' = IF DescendsAtTop(request.root) /\ ~ Breaks(request.root)
                THEN <<Frame(request.root, {}, <<>>)>> ELSE <<>>
    /\ UNCHANGED request

Skip ==
    /\ HasNext
    /\ cause = Nil \/ OnPath
    /\ stack' = Advanced
    /\ UNCHANGED <<request, out>>

trailBelow == Append(frame.trail, [pos |-> position, err |-> cause])

Show ==
    /\ HasNext
    /\ cause # Nil /\ ~ OnPath /\ ~ Breaks(cause)
    /\ Len(stack) <= MaxDepth
    /\ LET trail == trailBelow
       IN /\ out' = Append(out, [trail |-> trail, shows |-> ShownBelow(cause)])
          /\ stack' = IF DescendsBelow(cause)
                      THEN Append(Advanced, Frame(cause, pathBelow(cause), trail))
                      ELSE Advanced
    /\ UNCHANGED request

(* The panic unwinds every call.                                           *)
Break ==
    /\ HasNext
    /\ cause # Nil /\ ~ OnPath /\ Breaks(cause)
    /\ out' = Append(out, [trail |-> trailBelow, shows |-> ShownBelow(cause)])
    /\ stack' = <<>>
    /\ UNCHANGED request

(* Leaves a node after its first cause.                                    *)
LeaveEarly ==
    /\ stack # <<>>
    /\ ~ HasNext \/ frame.next = 2
    /\ stack' = SubSeq(stack, 1, Len(stack) - 1)
    /\ UNCHANGED <<request, out>>

Leave ==
    /\ stack # <<>>
    /\ ~ HasNext
    /\ stack' = SubSeq(stack, 1, Len(stack) - 1)
    /\ UNCHANGED <<request, out>>

Next == Start \/ Skip \/ Show \/ Break \/ Leave

Spec == Init /\ [][Next]_vars

(* A rendering is one goroutine's; while it can move it does.              *)
FairSpec == Spec /\ WF_vars(Next)

(* No defined error is reached from its causes: it is outside some set     *)
(* that holds them and all that is reached from them.                      *)
CyclesForeign(q) ==
    LET Causes(e) == ToSet(q.causes[e]) \ {Nil}
    IN \A e \in q.defined : \E C \in SUBSET (Errors \ {e}) :
           Causes(e) \subseteq C /\ \A c \in C : Causes(c) \subseteq C

-----------------------------------------------------------------------------

Done == stack = <<>> /\ out # <<>>

Trails == {out[i].trail : i \in DOMAIN out}

ErrorAt(t) == IF t = <<>> THEN request.root ELSE Last(t).err

OnTrail(t, e) == \E i \in DOMAIN t : t[i].err = e

(* One of the nodes rendered made the rendering break off.                 *)
BrokenOff ==
    \E i \in DOMAIN out : Breaks(ErrorAt(out[i].trail)) /\ out[i].shows # Own

(* The frames are the way down to the node rendered last, or back from it. *)
RenderingTypeOK ==
    /\ stack # <<>> => stack[1] = [Frame(request.root, {}, <<>>) EXCEPT !.next = stack[1].next]
    /\ \A i \in 2 .. Len(stack) :
           /\ stack[i].trail = Append(stack[i - 1].trail,
                                      [pos |-> stack[i - 1].next - 1, err |-> stack[i].err])
           /\ stack[i].trail \in Trails
           /\ stack[i].path \subseteq {stack[i].trail[j].err : j \in DOMAIN stack[i].trail}

(* Every rendering that descends shows the same tree, that of UnwrapTree:  *)
(* each cause of a node shown, unless it is nil or would close a cycle     *)
(* (error.go:34-35), though JSON builds a tree anew at every defined error;*)
(* only below an error that marshals itself is nothing shown, and nothing  *)
(* after one at which the rendering broke off.                             *)
EveryCauseShown ==
    Done => \A t \in Trails : \A i \in DOMAIN causes(ErrorAt(t)) :
        LET c     == causes(ErrorAt(t))[i]
            shown == Append(t, [pos |-> i, err |-> c]) \in Trails
            due   == /\ c # Nil /\ ~ OnTrail(t, c)
                     /\ IF t = <<>> THEN DescendsAtTop(request.root) ELSE DescendsBelow(ErrorAt(t))
        IN (shown => due) /\ (due => shown \/ BrokenOff)

(* A trail stands before another if it leads to it or branches off earlier.*)
Before(s, t) ==
    \/ IsStrictPrefix(s, t)
    \/ \E i \in DOMAIN s \cap DOMAIN t :
           /\ SubSeq(s, 1, i - 1) = SubSeq(t, 1, i - 1)
           /\ s[i].pos < t[i].pos

(* Nodes come depth first, in the order of the causes, and each once       *)
(* (node.go:41).                                                           *)
DepthFirst ==
    /\ RenderingTypeOK
    /\ \A i, j \in DOMAIN out : i < j => Before(out[i].trail, out[j].trail)

(* A definition's own JSON marshaler speaks for its errors at every level; *)
(* its formatter and log valuer only for an error rendered by itself, so   *)
(* that a tree of text or log values is never cut short below the top      *)
(* (node.go:69-70, 89-109, definition.go:417-418).                         *)
OwnOptionsDecide ==
    \A i \in DOMAIN out : LET t == out[i].trail IN
        (out[i].shows = Own) <=>
            /\ mode \notin {"nodes", "walk"}
            /\ TakesOver(ErrorAt(t)) /\ (t = <<>> \/ mode = "json")

(* Where several fields have one name, JSON shows the one that comes last  *)
(* in the text, whatever the order they were set in (field.go:130-131).    *)
FieldsAgree ==
    \A i \in DOMAIN out : LET e == ErrorAt(out[i].trail) IN
        mode = "json" /\ e \in defined /\ out[i].shows # Own =>
            LET text == request.fields[e] IN
            \A n \in DOMAIN text :
                (\A k \in n + 1 .. Len(text) : text[k].name # text[n].name) =>
                    out[i].shows.fields[text[n].name] = text[n].value

(* A node is shown by what its definition asks for, and in the same way by *)
(* every rendering of it.                                                  *)
ShownAsAsked == OwnOptionsDecide /\ FieldsAgree

(* The source lines shown with a frame are those around its line, for      *)
(* every setting (stack.go:121-142, 170-193, 203-217); but where the line  *)
(* and the setting add up to more than the largest int, slicing the file   *)
(* panics (stack.go:214-216), and the rendering ends there.                *)
SourcesExact ==
    mode = "text" => \A i \in DOMAIN out :
        LET e == ErrorAt(out[i].trail)
            s == request.stackOf[e]
        IN e \in defined /\ out[i].shows # Own =>
               /\ WindowsExact(s, out[i].shows.sources)
               /\ Overflowing(s) # {} => i = Len(out) /\ stack = <<>>

(* Every rendering ends, whatever cycles the causes form, but for JSON     *)
(* under a cycle with a defined error in it (CyclesForeign).               *)
RenderingEnds == <>Done

(* "the node that would create the cycle is excluded" (error.go:35): said  *)
(* of what is marshalled as JSON.                                          *)
NothingBelowItself ==
    \A t \in Trails : \A i, j \in DOMAIN t : i < j => t[i].err # t[j].err
=============================================================================
