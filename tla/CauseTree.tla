----------------------------- MODULE CauseTree -----------------------------
(***************************************************************************)
(* Building the tree of an error's causes (node.go: buildNodes, buildNode, *)
(* HasCycle; BuildCauseTree in definition.go).                             *)
(*                                                                         *)
(* The recursion is a stack of frames, one per call of buildNodes; the     *)
(* bottom frame lists the causes of the error whose tree is asked for.     *)
(* The shared map `visited' holds the addresses of the errors on the path, *)
(* and under the key 0 the address at which the last cycle closed.  Only   *)
(* errors that are pointers, maps, slices, channels or functions have an   *)
(* address; a struct has none and is not tracked.  A node of the tree is   *)
(* known by its trail: at each level the position among the causes and the *)
(* error found there.                                                      *)
(***************************************************************************)
EXTENDS Naturals, Sequences

CONSTANTS
    Errors,         \* error values
    Nil,            \* the nil error
    Root,           \* the error whose tree is built, as the caller of buildNodes
    Addrs,          \* addresses, 0 among them
    NoAddr,         \* the address of an error that is not tracked
    Absent,         \* what visited holds for a key it does not contain
    Graphs,         \* the errors' addresses and causes, and the causes of Root
    MaxDepth        \* bound: frames on the stack

CauseLists == Seq(Errors \cup {Nil})

Graph == [addr   : [Errors -> Addrs \cup {NoAddr}],
          unwrap : [Errors -> CauseLists],
          top    : CauseLists]

ASSUME GraphsAssumption == Graphs \subseteq Graph
ASSUME AddrsAssumption == 0 \in Addrs /\ Addrs \subseteq Nat
ASSUME DistinctAssumption ==
    /\ Nil \notin Errors /\ Root \notin Errors
    /\ NoAddr \notin Addrs /\ Absent \notin Addrs
ASSUME MaxDepthAssumption == MaxDepth \in Nat

VARIABLES
    graph,          \* the graph, which no step changes
    stack,          \* frames: an error and the position of its next cause
    visited,
    tree,           \* trails of the nodes built
    cyclic          \* trails of the nodes whose IsCyclic is set

vars == <<graph, stack, visited, tree, cyclic>>

Slot == 0           \* the key under which a closed cycle waits for its head

causesOf(e) == IF e = Root THEN graph.top ELSE graph.unwrap[e]

addr(e) == graph.addr[e]

frame == stack[Len(stack)]

HasNext == stack # <<>> /\ frame.next <= Len(causesOf(frame.err))

cause == causesOf(frame.err)[frame.next]

trail ==
    [i \in 1 .. Len(stack) - 1 |-> [pos |-> stack[i].next - 1, err |-> stack[i + 1].err]]

advanced == [stack EXCEPT ![Len(stack)].next = @ + 1]

-----------------------------------------------------------------------------

Init ==
    /\ graph \in Graphs
    /\ stack = <<[err |-> Root, next |-> 1]>>
    /\ visited = [a \in Addrs |-> Absent]
    /\ tree = {}
    /\ cyclic = {}

SkipNil ==
    /\ HasNext
    /\ cause = Nil
    /\ stack' = advanced
    /\ UNCHANGED <<graph, visited, tree, cyclic>>

(* An address in the map is taken for a cycle; its error gets no node.     *)
SkipVisited ==
    /\ HasNext
    /\ cause # Nil
    /\ addr(cause) # NoAddr
    /\ visited[addr(cause)] # Absent
    /\ stack' = advanced
    /\ visited' = [visited EXCEPT ![Slot] = addr(cause)]
    /\ UNCHANGED <<graph, tree, cyclic>>

(* No check of the map.                                                    *)
EnterUnchecked ==
    /\ HasNext
    /\ cause # Nil
    /\ Len(stack) <= MaxDepth
    /\ stack' = Append(advanced, [err |-> cause, next |-> 1])
    /\ visited' = IF addr(cause) = NoAddr THEN visited
                  ELSE [visited EXCEPT ![addr(cause)] = addr(cause)]
    /\ tree' = tree \cup {trail'}
    /\ UNCHANGED <<graph, cyclic>>

Enter ==
    /\ HasNext
    /\ cause # Nil
    /\ addr(cause) # NoAddr => visited[addr(cause)] = Absent
    /\ Len(stack) <= MaxDepth
    /\ stack' = Append(advanced, [err |-> cause, next |-> 1])
    /\ visited' = IF addr(cause) = NoAddr THEN visited
                  ELSE [visited EXCEPT ![addr(cause)] = addr(cause)]
    /\ tree' = tree \cup {trail'}
    /\ UNCHANGED <<graph, cyclic>>

(* The address that leaves the path stays in the map.                      *)
forgetNothing(ptr, v) == v

(* The deferred deletions of a node with address ptr.                      *)
forget(ptr, v) ==
    [a \in Addrs |-> IF a = ptr \/ (a = Slot /\ v[Slot] = ptr) THEN Absent ELSE v[a]]

(* The head of a cycle is taken for any node left while a cycle waits.     *)
closesAny(ptr) == visited[Slot] # Absent

closesCycle(ptr) == visited[Slot] = ptr

Leave ==
    /\ Len(stack) > 1
    /\ ~HasNext
    /\ LET ptr == addr(frame.err)
       IN IF ptr = NoAddr
          THEN UNCHANGED <<visited, cyclic>>
          ELSE /\ cyclic' = IF closesCycle(ptr) THEN cyclic \cup {trail} ELSE cyclic
               /\ visited' = forget(ptr, visited)
    /\ stack' = SubSeq(stack, 1, Len(stack) - 1)
    /\ UNCHANGED <<graph, tree>>

Finish ==
    /\ Len(stack) = 1
    /\ ~HasNext
    /\ stack' = <<>>
    /\ UNCHANGED <<graph, visited, tree, cyclic>>

Next == SkipNil \/ SkipVisited \/ Enter \/ Leave \/ Finish

Spec == Init /\ [][Next]_vars

(* The construction is one goroutine's; while it can move it does.         *)
FairSpec == Spec /\ WF_vars(Next)

-----------------------------------------------------------------------------
(* The graph of causes, apart from the way it is searched.                 *)

Causes(e) == {causesOf(e)[i] : i \in DOMAIN causesOf(e)} \ {Nil}

Closed(C) == \A e \in C : Causes(e) \subseteq C

(* e is d or reached from d: it is in every closed set that contains d.    *)
ReachedFrom(D, e) == \A C \in SUBSET Errors : D \subseteq C /\ Closed(C) => e \in C

OnCycle(e) == ReachedFrom(Causes(e), e)

Cyclic == \E e \in Errors : ReachedFrom(Causes(Root), e) /\ OnCycle(e)

(* Pointers that are not nil, no two of them to the same address.          *)
Faithful(g) ==
    /\ \A e \in Errors : g.addr[e] # 0
    /\ \A e, d \in Errors : g.addr[e] = g.addr[d] /\ g.addr[e] # NoAddr => e = d

(* No cycle among errors that are not tracked.                             *)
ValuesAcyclic(g) ==
    \A V \in SUBSET {e \in Errors : g.addr[e] = NoAddr} :
        V # {} => \E e \in V : \A i \in DOMAIN g.unwrap[e] : g.unwrap[e][i] \notin V

-----------------------------------------------------------------------------

Done == stack = <<>>

Frame == [err : Errors \cup {Root}, next : Nat \ {0}]

Trail == Seq([pos : Nat \ {0}, err : Errors])

(* The map holds the addresses of the path and nothing else, and the cycle *)
(* that waits in the slot closes at an error still on the path: deletions  *)
(* and the slot that shares the map never disturb each other               *)
(* (node.go:178-191).                                                      *)
VisitedIsPath ==
    LET path == {addr(stack[i].err) : i \in 2 .. Len(stack)} \ {NoAddr}
    IN /\ \A a \in Addrs \ {Slot} : visited[a] = IF a \in path THEN a ELSE Absent
       /\ visited[Slot] \in path \cup {Absent}

(* The frames stand at one of their causes or behind the last, only built  *)
(* nodes are marked, and the map holds what it should (node.go:154-196).   *)
TypeOK ==
    /\ graph \in Graphs
    /\ stack \in Seq(Frame)
    /\ \A i \in DOMAIN stack : stack[i].err = Root <=> i = 1
    /\ \A i \in DOMAIN stack : stack[i].next <= Len(causesOf(stack[i].err)) + 1
    /\ visited \in [Addrs -> Addrs \cup {Absent}]
    /\ tree \subseteq Trail
    /\ cyclic \subseteq tree
    /\ VisitedIsPath

(* No tracked error is below itself: the result is acyclic (error.go:35).  *)
NoErrorBelowItself ==
    \A t \in tree : \A i, j \in DOMAIN t :
        i < j /\ addr(t[i].err) # NoAddr => t[i].err # t[j].err

OnTrail(t, c) == addr(c) # NoAddr /\ \E i \in DOMAIN t : t[i].err = c

ErrorAt(t) == IF t = <<>> THEN Root ELSE t[Len(t)].err

(* The tree is acyclic and nothing else is left out of it: a cause of a    *)
(* node is missing exactly if it is nil or would close a cycle, so that an *)
(* error with several parents is built under each of them ("the node that  *)
(* would create the cycle is excluded", error.go:34-35).                   *)
TreeComplete ==
    /\ NoErrorBelowItself
    /\ Done => \A t \in tree \cup {<<>>} : \A i \in DOMAIN causesOf(ErrorAt(t)) :
            LET c == causesOf(ErrorAt(t))[i]
            IN Append(t, [pos |-> i, err |-> c]) \in tree <=> c # Nil /\ ~OnTrail(t, c)

(* HasCycle says whether the error's causes form a cycle (node.go:53).     *)
HasCycle == cyclic # {}

HasCycleExact == Done => (HasCycle <=> Cyclic)

(* A node that is marked is on a cycle (node.go:21): no innocent error     *)
(* between the head of a cycle and the point where it closes, or outside.  *)
MarkedOnCycle == \A t \in cyclic : OnCycle(ErrorAt(t))

(* Some node is marked exactly if there is a cycle, and every marked node  *)
(* is on one, however many cycles wait for their heads (node.go:183-191).  *)
CycleMarks == HasCycleExact /\ MarkedOnCycle

(* The construction comes to an end, whatever cycles the causes form.      *)
Terminates == <>Done
=============================================================================
