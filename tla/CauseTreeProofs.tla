-------------------------- MODULE CauseTreeProofs --------------------------
(***************************************************************************)
(* Safety of the construction of cause trees, for any errors, addresses    *)
(* and causes, where pointers are not nil and no two errors share one      *)
(* address, and no errors without one form a cycle among themselves.       *)
(*                                                                         *)
(* The argument: the stack is a path of causes, the map holds that path's  *)
(* addresses, and behind the frames everything is built.  A cycle that     *)
(* waits in the slot has its head on the path, so the head is marked when  *)
(* it is left, or another head is waiting then; and if none was marked,    *)
(* nothing was left out, so that an error on a cycle would be below itself. *)
(***************************************************************************)
EXTENDS CauseTree, SequenceTheorems, TLAPS

(* The first n - 1 steps of the trail.                                     *)
TrailTo(n) ==
    [i \in 1 .. n - 1 |-> [pos |-> stack[i].next - 1, err |-> stack[i + 1].err]]

(* Each frame but the first is the cause its predecessor has just passed.  *)
StackInv ==
    /\ graph \in Graphs
    /\ stack \in Seq(Frame)
    /\ \A i \in DOMAIN stack : stack[i].err = Root <=> i = 1
    /\ \A i \in DOMAIN stack : stack[i].next <= Len(causesOf(stack[i].err)) + 1
    /\ \A i \in DOMAIN stack : i + 1 \in DOMAIN stack =>
          /\ stack[i].next >= 2
          /\ causesOf(stack[i].err)[stack[i].next - 1] = stack[i + 1].err

(* The addresses of the path.                                              *)
Path == {addr(stack[i].err) : i \in 2 .. Len(stack)} \ {NoAddr}

MapInv ==
    /\ visited \in [Addrs -> Addrs \cup {Absent}]
    /\ VisitedIsPath
    /\ \A i, j \in 2 .. Len(stack) :
          addr(stack[i].err) = addr(stack[j].err) /\ addr(stack[i].err) # NoAddr => i = j

TreeInv ==
    /\ tree \subseteq Trail
    /\ \A t \in tree : t # <<>>
    /\ cyclic \subseteq tree
    /\ \A n \in 2 .. Len(stack) : TrailTo(n) \in tree
    /\ NoErrorBelowItself

(* The i-th cause of a node's error is behind the node's frame, if the     *)
(* node has one.                                                           *)
Passed(t, i) == \A n \in DOMAIN stack : t = TrailTo(n) => i < stack[n].next

(* No cause was passed without a node, but for nil and the errors above it. *)
BuiltInv ==
    \A t \in tree \cup {<<>>} : \A i \in DOMAIN causesOf(ErrorAt(t)) :
        LET c == causesOf(ErrorAt(t))[i]
        IN Passed(t, i) /\ c # Nil /\ ~OnTrail(t, c) => Append(t, [pos |-> i, err |-> c]) \in tree

Above(d, e) == \E i, j \in DOMAIN stack : i < j /\ stack[i].err = d /\ stack[j].err = e

(* What is below is reached from above.                                    *)
ReachInv ==
    /\ \A d \in Errors \cup {Root} : \A e \in Errors : Above(d, e) => ReachedFrom(Causes(d), e)
    /\ \A t \in tree : ReachedFrom(Causes(Root), ErrorAt(t))

(* The error whose address waits in the slot is on a cycle, and so are the *)
(* errors that were marked.                                                *)
SlotInv ==
    /\ visited[Slot] # Absent => \A e \in Errors : addr(e) = visited[Slot] => OnCycle(e)
    /\ MarkedOnCycle

(* A cause left out for a cycle leaves a mark, or one to come.             *)
WaitInv ==
    \A t \in tree \cup {<<>>} : \A i \in DOMAIN causesOf(ErrorAt(t)) :
        LET c == causesOf(ErrorAt(t))[i]
        IN Passed(t, i) /\ c # Nil /\ OnTrail(t, c) => visited[Slot] # Absent \/ HasCycle

(* Pointers are not nil and not shared.                                    *)
Pointers == \A g \in Graphs : Faithful(g)

TreesInv == StackInv /\ MapInv /\ TreeInv /\ BuiltInv /\ ReachInv /\ SlotInv /\ WaitInv

-----------------------------------------------------------------------------
(* What a step does to the stack                                           *)

USE AddrsAssumption, DistinctAssumption

LEMMA CausesTyped ==
    ASSUME StackInv, NEW e \in Errors \cup {Root}
    PROVE  causesOf(e) \in CauseLists
BY GraphsAssumption DEF StackInv, causesOf, Graph

LEMMA FrameTyped ==
    ASSUME StackInv, NEW i \in DOMAIN stack
    PROVE  /\ stack[i] \in Frame /\ stack[i].err \in Errors \cup {Root}
           /\ stack[i].next \in Nat \ {0}
           /\ i # 1 => stack[i].err \in Errors
           /\ i = 1 => stack[i].err = Root
           /\ i \in 1 .. Len(stack) /\ Len(stack) \in Nat
<1>1. stack \in Seq(Frame) /\ (stack[i].err = Root <=> i = 1)
    BY DEF StackInv
<1>2. stack[i] \in Frame /\ i \in 1 .. Len(stack) /\ Len(stack) \in Nat
    BY <1>1
<1>3. stack[i].err \in Errors \cup {Root} /\ stack[i].next \in Nat \ {0}
    BY <1>2 DEF Frame
<1> QED
    BY <1>1, <1>2, <1>3

LEMMA CauseTyped ==
    ASSUME StackInv, HasNext
    PROVE  /\ Len(stack) \in DOMAIN stack /\ Len(stack) \in Nat \ {0}
           /\ frame.next \in DOMAIN causesOf(frame.err)
           /\ cause \in Errors \cup {Nil}
           /\ cause # Nil => cause \in Causes(frame.err)
<1>1. Len(stack) \in DOMAIN stack /\ Len(stack) \in Nat \ {0}
    BY DEF StackInv, HasNext
<1>2. frame.err \in Errors \cup {Root} /\ frame.next \in Nat \ {0}
    BY <1>1, FrameTyped DEF frame
<1>3. causesOf(frame.err) \in CauseLists
    BY <1>2, CausesTyped
<1>4. frame.next \in DOMAIN causesOf(frame.err)
    BY <1>2, <1>3 DEF HasNext, CauseLists
<1> QED
    BY <1>1, <1>3, <1>4 DEF cause, Causes, CauseLists

LEMMA AdvancedEffect ==
    ASSUME StackInv, HasNext
    PROVE  /\ advanced \in Seq(Frame) /\ Len(advanced) = Len(stack)
           /\ DOMAIN advanced = DOMAIN stack
           /\ \A i \in DOMAIN stack : /\ advanced[i].err = stack[i].err
                                      /\ i # Len(stack) => advanced[i] = stack[i]
           /\ advanced[Len(stack)].next = frame.next + 1
<1>1. stack \in Seq(Frame) /\ Len(stack) \in DOMAIN stack
    BY CauseTyped DEF StackInv
<1>2. [stack[Len(stack)] EXCEPT !.next = @ + 1] \in Frame
    <2>1. \A f \in Frame : [f EXCEPT !.next = @ + 1] \in Frame
        BY DEF Frame
    <2> QED
        BY <1>1, <2>1
<1>3. advanced = [stack EXCEPT ![Len(stack)] = [stack[Len(stack)] EXCEPT !.next = @ + 1]]
    BY DEF advanced
<1>4. stack[Len(stack)] \in Frame
    BY <1>1
<1> QED
    BY <1>1, <1>2, <1>3, <1>4 DEF frame, Frame

LEMMA SkipEffect ==
    ASSUME StackInv, SkipNil \/ SkipVisited
    PROVE  /\ stack' \in Seq(Frame) /\ Len(stack') = Len(stack) /\ DOMAIN stack' = DOMAIN stack
           /\ \A i \in DOMAIN stack : /\ stack'[i].err = stack[i].err
                                      /\ i # Len(stack) => stack'[i] = stack[i]
           /\ stack'[Len(stack)].next = frame.next + 1
           /\ \A n \in DOMAIN stack : TrailTo(n)' = TrailTo(n)
           /\ UNCHANGED <<graph, tree, cyclic>>
<1>1. HasNext /\ stack' = advanced /\ UNCHANGED <<graph, tree, cyclic>>
    BY DEF SkipNil, SkipVisited
<1>2. \A n \in DOMAIN stack : TrailTo(n)' = TrailTo(n)
    BY <1>1, AdvancedEffect, CauseTyped DEF TrailTo, StackInv
<1> QED
    BY <1>1, <1>2, AdvancedEffect

LEMMA FunctionIsSeq ==
    ASSUME NEW S, NEW m \in Nat, NEW f \in [1 .. m -> S]
    PROVE  f \in Seq(S) /\ Len(f) = m
<1>1. f \in Seq(S)
    BY SeqDef
<1>2. Len(f) \in Nat /\ DOMAIN f = 1 .. Len(f) /\ DOMAIN f = 1 .. m
    BY <1>1, LenProperties
<1> QED
    BY <1>1, <1>2

LEMMA TrailTyped ==
    ASSUME StackInv, NEW n \in DOMAIN stack
    PROVE  /\ TrailTo(n) \in Trail /\ Len(TrailTo(n)) = n - 1
           /\ \A i \in 1 .. n - 1 : TrailTo(n)[i] = [pos |-> stack[i].next - 1, err |-> stack[i + 1].err]
<1>1. n \in Nat \ {0} /\ stack \in Seq(Frame) /\ n <= Len(stack)
    BY DEF StackInv
<1>2. ASSUME NEW i \in 1 .. n - 1
      PROVE  [pos |-> stack[i].next - 1, err |-> stack[i + 1].err] \in [pos : Nat \ {0}, err : Errors]
    <2>1. i \in DOMAIN stack /\ i + 1 \in DOMAIN stack /\ i + 1 # 1
        BY <1>1, <1>2
    <2>2. stack[i].next \in Nat /\ stack[i].next >= 2 /\ stack[i + 1].err \in Errors
        BY <2>1, FrameTyped DEF StackInv
    <2> QED
        BY <2>2
<1>3. TrailTo(n) = [i \in 1 .. n - 1 |-> [pos |-> stack[i].next - 1, err |-> stack[i + 1].err]]
    BY DEF TrailTo
<1>4. n - 1 \in Nat
    BY <1>1
<1>5. TrailTo(n) \in [1 .. n - 1 -> [pos : Nat \ {0}, err : Errors]]
    BY <1>2, <1>3
<1> HIDE DEF Trail
<1>6. TrailTo(n) \in Trail /\ Len(TrailTo(n)) = n - 1
    BY <1>4, <1>5, FunctionIsSeq DEF Trail
<1> QED
    BY <1>3, <1>6

LEMMA EnterEffect ==
    ASSUME StackInv, Enter, NEW N, N = Len(stack)
    PROVE  /\ stack' \in Seq(Frame) /\ Len(stack') = N + 1
           /\ \A i \in DOMAIN stack : /\ i \in DOMAIN stack' /\ stack'[i].err = stack[i].err
                                      /\ i # N => stack'[i] = stack[i]
           /\ stack'[N].next = frame.next + 1
           /\ stack'[N + 1] = [err |-> cause, next |-> 1]
           /\ \A i \in DOMAIN stack' : i \in DOMAIN stack \/ i = N + 1
           /\ \A n \in DOMAIN stack : TrailTo(n)' = TrailTo(n)
           /\ TrailTo(N + 1)' = Append(TrailTo(N), [pos |-> frame.next, err |-> cause])
           /\ trail' = TrailTo(N + 1)'
           /\ cause \in Errors /\ graph' = graph /\ cyclic' = cyclic
<1>1. /\ HasNext /\ cause # Nil /\ stack' = Append(advanced, [err |-> cause, next |-> 1])
      /\ graph' = graph /\ cyclic' = cyclic
    BY DEF Enter
<1>2. /\ cause \in Errors /\ N \in Nat \ {0} /\ stack \in Seq(Frame)
      /\ frame.next \in Nat \ {0}
    BY <1>1, CauseTyped, FrameTyped DEF StackInv, frame
<1>3. [err |-> cause, next |-> 1] \in Frame
    BY <1>2 DEF Frame
<1>4. /\ stack' \in Seq(Frame) /\ Len(stack') = N + 1
      /\ \A i \in DOMAIN stack : i \in DOMAIN stack' /\ stack'[i] = advanced[i]
      /\ stack'[N + 1] = [err |-> cause, next |-> 1]
      /\ \A i \in DOMAIN stack' : i \in DOMAIN stack \/ i = N + 1
    BY <1>1, <1>2, <1>3, AdvancedEffect
<1>5. /\ \A i \in DOMAIN stack : /\ stack'[i].err = stack[i].err
                                 /\ i # N => stack'[i] = stack[i]
      /\ stack'[N].next = frame.next + 1
    BY <1>1, <1>4, AdvancedEffect, CauseTyped
<1>6. \A n \in DOMAIN stack : TrailTo(n)' = TrailTo(n)
    BY <1>2, <1>5 DEF TrailTo
<1>7. TrailTo(N + 1)' = Append(TrailTo(N), [pos |-> frame.next, err |-> cause])
    <2> DEFINE s == [pos |-> frame.next, err |-> cause]
               w == [i \in 1 .. N |-> [pos |-> stack'[i].next - 1, err |-> stack'[i + 1].err]]
    <2>1. TrailTo(N + 1)' = w
        <3>1. 1 .. (N + 1) - 1 = 1 .. N
            BY <1>2
        <3>2. TrailTo(N + 1)'
                 = [i \in 1 .. (N + 1) - 1 |-> [pos |-> stack'[i].next - 1, err |-> stack'[i + 1].err]]
            BY DEF TrailTo
        <3> QED
            BY <3>1, <3>2
    <2>2. w[N] = s
        <3>1. stack'[N].next - 1 = frame.next /\ stack'[N + 1].err = cause /\ N \in 1 .. N
            BY <1>2, <1>4, <1>5
        <3> QED
            BY <3>1
    <2>3. \A i \in 1 .. N - 1 : w[i] = TrailTo(N)[i]
        <3>1. \A i \in 1 .. N - 1 : i \in DOMAIN stack /\ i + 1 \in DOMAIN stack /\ i # N /\ i \in 1 .. N
            BY <1>2
        <3> QED
            BY <1>5, <3>1 DEF TrailTo
    <2>4. TrailTo(N) \in Trail /\ Len(TrailTo(N)) = N - 1
        BY <1>2, TrailTyped
    <2>5. s \in [pos : Nat \ {0}, err : Errors]
        BY <1>2
    <2>6. w = Append(TrailTo(N), s)
        <3>1. /\ Append(TrailTo(N), s) \in Trail /\ Len(Append(TrailTo(N), s)) = N
              /\ Append(TrailTo(N), s)[N] = s
              /\ \A i \in 1 .. N - 1 : Append(TrailTo(N), s)[i] = TrailTo(N)[i]
            BY <1>2, <2>4, <2>5, AppendProperties DEF Trail
        <3>2. DOMAIN Append(TrailTo(N), s) = 1 .. N
            BY <3>1, LenProperties DEF Trail
        <3>3. \A i \in 1 .. N : w[i] = Append(TrailTo(N), s)[i]
            <4>1. \A i \in 1 .. N : i = N \/ i \in 1 .. N - 1
                BY <1>2
            <4> HIDE DEF w, s
            <4> QED
                BY <2>2, <2>3, <3>1, <4>1
        <3> QED
            BY <3>1, <3>2, <3>3 DEF Trail
    <2> QED
        BY <2>1, <2>6
<1>8. trail' = TrailTo(N + 1)'
    BY <1>4 DEF trail, TrailTo
<1> QED
    BY <1>1, <1>2, <1>4, <1>5, <1>6, <1>7, <1>8

LEMMA LeaveEffect ==
    ASSUME StackInv, Leave
    PROVE  /\ stack' \in Seq(Frame) /\ Len(stack') = Len(stack) - 1 /\ Len(stack) \in Nat
           /\ \A i \in DOMAIN stack' : i \in DOMAIN stack /\ i # Len(stack) /\ stack'[i] = stack[i]
           /\ \A n \in DOMAIN stack' : TrailTo(n)' = TrailTo(n)
           /\ graph' = graph /\ tree' = tree
<1>1. /\ stack \in Seq(Frame) /\ Len(stack) > 1 /\ stack' = SubSeq(stack, 1, Len(stack) - 1)
      /\ graph' = graph /\ tree' = tree
    BY DEF Leave, StackInv
<1>2. /\ stack' \in Seq(Frame) /\ Len(stack') = Len(stack) - 1
      /\ \A i \in DOMAIN stack' : i \in DOMAIN stack /\ i # Len(stack) /\ stack'[i] = stack[i]
    BY <1>1
<1>3. \A n \in DOMAIN stack' : TrailTo(n)' = TrailTo(n)
    BY <1>1, <1>2 DEF TrailTo
<1> QED
    BY <1>1, <1>2, <1>3

-----------------------------------------------------------------------------
(* Addresses, trails and the graph                                         *)

LEMMA AddressTyped ==
    ASSUME StackInv, Pointers
    PROVE  /\ \A e \in Errors : /\ addr(e) \in Addrs \cup {NoAddr} /\ addr(e) # Slot
                                /\ addr(e) # Absent \/ addr(e) = NoAddr
           /\ \A e, d \in Errors : addr(e) = addr(d) /\ addr(e) # NoAddr => e = d
<1>1. graph \in Graph /\ Faithful(graph)
    BY GraphsAssumption DEF StackInv, Pointers
<1>2. graph.addr \in [Errors -> Addrs \cup {NoAddr}]
    BY <1>1 DEF Graph
<1> QED
    BY <1>1, <1>2 DEF Faithful, addr, Slot

LEMMA PathTyped ==
    ASSUME StackInv, Pointers, MapInv
    PROVE  /\ Path \subseteq Addrs \ {Slot}
           /\ \A a \in Addrs \ {Slot} : visited[a] = IF a \in Path THEN a ELSE Absent
           /\ visited[Slot] \in Path \cup {Absent}
           /\ \A e \in Errors : addr(e) # NoAddr => (visited[addr(e)] # Absent <=> addr(e) \in Path)
           /\ \A a \in Path : \E i \in 2 .. Len(stack) : a = addr(stack[i].err)
           /\ \A i \in 2 .. Len(stack) : addr(stack[i].err) # NoAddr => addr(stack[i].err) \in Path
<1>1. \A i \in 2 .. Len(stack) : i \in DOMAIN stack /\ i # 1
    BY DEF StackInv
<1>2. \A i \in 2 .. Len(stack) : stack[i].err \in Errors
    BY <1>1, FrameTyped
<1>3. Path \subseteq Addrs \ {Slot}
    BY <1>2, AddressTyped DEF Path
<1>4. /\ \A a \in Addrs \ {Slot} : visited[a] = IF a \in Path THEN a ELSE Absent
      /\ visited[Slot] \in Path \cup {Absent}
    BY DEF MapInv, VisitedIsPath, Path
<1>5. \A e \in Errors : addr(e) # NoAddr => (visited[addr(e)] # Absent <=> addr(e) \in Path)
    BY <1>4, AddressTyped
<1> QED
    BY <1>3, <1>4, <1>5 DEF Path

(* An address in the map is that of an error on the path.                  *)
LEMMA VisitedOnPath ==
    ASSUME StackInv, Pointers, MapInv, NEW e \in Errors, addr(e) # NoAddr
    PROVE  visited[addr(e)] # Absent <=> \E i \in 2 .. Len(stack) : stack[i].err = e
<1>1. \A i \in 2 .. Len(stack) : stack[i].err \in Errors
    <2>1. \A i \in 2 .. Len(stack) : i \in DOMAIN stack /\ i # 1
        BY DEF StackInv
    <2> QED
        BY <2>1, FrameTyped
<1> QED
    BY <1>1, PathTyped, AddressTyped

LEMMA GraphKept ==
    ASSUME graph' = graph
    PROVE  /\ \A e : causesOf(e)' = causesOf(e) /\ addr(e)' = addr(e) /\ Causes(e)' = Causes(e)
           /\ \A C : Closed(C)' <=> Closed(C)
           /\ \A D, e : ReachedFrom(D, e)' <=> ReachedFrom(D, e)
           /\ \A t, c : OnTrail(t, c)' <=> OnTrail(t, c)
           /\ \A d, e : ReachedFrom(Causes(d), e)' <=> ReachedFrom(Causes(d), e)
           /\ \A e : OnCycle(e)' <=> OnCycle(e)
<1>1. \A e : causesOf(e)' = causesOf(e) /\ addr(e)' = addr(e)
    BY DEF causesOf, addr
<1>2. \A e : Causes(e)' = Causes(e)
    BY <1>1 DEF Causes
<1>3. \A C : Closed(C)' <=> Closed(C)
    BY <1>2 DEF Closed
<1>4. \A D, e : ReachedFrom(D, e)' <=> ReachedFrom(D, e)
    BY <1>3 DEF ReachedFrom
<1>5. \A d, e : ReachedFrom(Causes(d), e)' <=> ReachedFrom(Causes(d), e)
    BY <1>2, <1>3 DEF ReachedFrom
<1>6. \A t, c : OnTrail(t, c)' <=> OnTrail(t, c)
    BY <1>1 DEF OnTrail
<1>7. \A e : OnCycle(e)' <=> OnCycle(e)
    BY <1>5 DEF OnCycle
<1> QED
    BY <1>1, <1>2, <1>3, <1>4, <1>5, <1>6, <1>7

LEMMA TrailLast ==
    ASSUME StackInv, NEW n \in DOMAIN stack
    PROVE  /\ ErrorAt(TrailTo(n)) = stack[n].err
           /\ TrailTo(n) = <<>> <=> n = 1
           /\ \A e : OnTrail(TrailTo(n), e)
                        <=> addr(e) # NoAddr /\ \E i \in 2 .. n : stack[i].err = e
<1>1. /\ TrailTo(n) \in Trail /\ Len(TrailTo(n)) = n - 1 /\ n \in Nat \ {0}
      /\ \A i \in 1 .. n - 1 : TrailTo(n)[i] = [pos |-> stack[i].next - 1, err |-> stack[i + 1].err]
    BY TrailTyped, FrameTyped
<1>2. DOMAIN TrailTo(n) = 1 .. n - 1
    BY DEF TrailTo
<1>3. TrailTo(n) = <<>> <=> n = 1
    BY <1>1 DEF Trail
<1>4. ErrorAt(TrailTo(n)) = stack[n].err
    <2>1. CASE n = 1
        BY <1>3, <2>1, FrameTyped DEF ErrorAt
    <2>2. CASE n # 1
        <3>1. n - 1 \in 1 .. n - 1 /\ (n - 1) + 1 = n
            BY <1>1, <2>2
        <3>2. TrailTo(n)[n - 1].err = stack[n].err
            BY <1>1, <3>1
        <3> QED
            BY <1>1, <1>3, <2>2, <3>2 DEF ErrorAt
    <2> QED
        BY <2>1, <2>2
<1>5. \A e : (\E i \in 1 .. n - 1 : TrailTo(n)[i].err = e) <=> (\E i \in 2 .. n : stack[i].err = e)
    <2>1. \A i \in 1 .. n - 1 : i + 1 \in 2 .. n /\ TrailTo(n)[i].err = stack[i + 1].err
        BY <1>1
    <2>2. \A i \in 2 .. n : i - 1 \in 1 .. n - 1 /\ (i - 1) + 1 = i
        BY <1>1
    <2> QED
        BY <2>1, <2>2
<1>6. \A e : OnTrail(TrailTo(n), e) <=> addr(e) # NoAddr /\ \E i \in 2 .. n : stack[i].err = e
    BY <1>2, <1>5 DEF OnTrail
<1> QED
    BY <1>3, <1>4, <1>6

-----------------------------------------------------------------------------
(* The invariant holds at first                                            *)

LEMMA InitInv == Init => TreesInv
<1> SUFFICES ASSUME Init PROVE TreesInv
    OBVIOUS
<1> USE DEF Init
<1>1. /\ Len(stack) = 1 /\ DOMAIN stack = {1} /\ stack[1] = [err |-> Root, next |-> 1]
      /\ stack[1].err = Root /\ stack[1].next = 1 /\ 2 .. Len(stack) = {}
    OBVIOUS
<1>2. StackInv
    <2>1. graph \in Graph /\ graph \in Graphs
        BY GraphsAssumption
    <2>2. causesOf(Root) \in CauseLists
        BY <2>1 DEF causesOf, Graph
    <2>3. Len(causesOf(Root)) \in Nat
        BY <2>2 DEF CauseLists
    <2>4. stack \in Seq(Frame)
        BY DEF Frame
    <2> QED
        BY <1>1, <2>1, <2>3, <2>4 DEF StackInv
<1>3. MapInv
    BY <1>1 DEF MapInv, VisitedIsPath, Slot
<1>4. TreeInv
    BY <1>1 DEF TreeInv, NoErrorBelowItself
<1>5. \A i \in Nat : Passed(<<>>, i) => i < 1
    BY <1>1, <1>2, TrailLast DEF Passed
<1>6. DOMAIN causesOf(ErrorAt(<<>>)) \subseteq Nat \ {0}
    BY <1>2, CausesTyped DEF ErrorAt, CauseLists
<1>7. BuiltInv
    BY <1>5, <1>6 DEF BuiltInv
<1>8. ReachInv
    BY <1>1 DEF ReachInv, Above
<1>9. SlotInv
    BY DEF SlotInv, Slot, MarkedOnCycle
<1>10. WaitInv
    BY <1>5, <1>6 DEF WaitInv
<1> QED
    BY <1>2, <1>3, <1>4, <1>7, <1>8, <1>9, <1>10 DEF TreesInv

-----------------------------------------------------------------------------
(* Every step keeps each part of the invariant                             *)

LEMMA StackSkip == StackInv /\ (SkipNil \/ SkipVisited) => StackInv'
<1> SUFFICES ASSUME StackInv, SkipNil \/ SkipVisited PROVE StackInv'
    OBVIOUS
<1>1. HasNext
    BY DEF SkipNil, SkipVisited
<1>2. \A i \in DOMAIN stack : causesOf(stack[i].err)' = causesOf(stack[i].err)
    BY SkipEffect DEF causesOf
<1>3. \A i \in DOMAIN stack : stack'[i].next <= Len(causesOf(stack[i].err)) + 1
    <2>1. frame.next \in DOMAIN causesOf(frame.err) /\ causesOf(frame.err) \in CauseLists
        BY <1>1, CauseTyped, FrameTyped, CausesTyped DEF frame
    <2>2. frame.next <= Len(causesOf(frame.err))
        BY <2>1 DEF CauseLists
    <2>3. frame.next \in Nat /\ Len(causesOf(frame.err)) \in Nat
        BY <1>1, <2>1, CauseTyped, FrameTyped DEF frame, CauseLists
    <2> QED
        BY <2>2, <2>3, SkipEffect DEF StackInv, frame
<1>4. \A i \in DOMAIN stack : i + 1 \in DOMAIN stack => i # Len(stack)
    BY DEF StackInv
<1> QED
    BY <1>2, <1>3, <1>4, SkipEffect DEF StackInv

LEMMA StackEnter == StackInv /\ Enter => StackInv'
<1> SUFFICES ASSUME StackInv, Enter PROVE StackInv'
    OBVIOUS
<1>0. PICK N : N = Len(stack)
    OBVIOUS
<1>1. HasNext /\ N \in DOMAIN stack /\ N \in Nat \ {0} /\ cause \in Errors
    BY <1>0, CauseTyped, EnterEffect DEF Enter
<1>e. /\ stack' \in Seq(Frame) /\ Len(stack') = N + 1
      /\ \A i \in DOMAIN stack : /\ i \in DOMAIN stack' /\ stack'[i].err = stack[i].err
                                 /\ i # N => stack'[i] = stack[i]
      /\ stack'[N].next = frame.next + 1
      /\ \A i \in DOMAIN stack' : i \in DOMAIN stack \/ i = N + 1
      /\ graph' = graph
    BY <1>0, EnterEffect
<1>2. \A i \in DOMAIN stack : causesOf(stack[i].err)' = causesOf(stack[i].err)
    BY <1>0, EnterEffect DEF causesOf
<1>3. stack'[N + 1].err = cause /\ stack'[N + 1].next = 1
    BY <1>0, EnterEffect
<1>4. /\ frame.next <= Len(causesOf(frame.err)) /\ frame.next \in Nat \ {0}
      /\ Len(causesOf(frame.err)) \in Nat
    <2>1. frame.next \in DOMAIN causesOf(frame.err) /\ causesOf(frame.err) \in CauseLists
        BY <1>1, CauseTyped, FrameTyped, CausesTyped DEF frame
    <2> QED
        BY <2>1 DEF CauseLists
<1>5. \A i \in DOMAIN stack' : stack'[i].err = Root <=> i = 1
    <2>1. \A i \in DOMAIN stack : stack'[i].err = Root <=> i = 1
        BY <1>e DEF StackInv
    <2>2. cause # Root /\ N + 1 # 1
        BY <1>1
    <2> QED
        BY <1>e, <1>3, <2>1, <2>2
<1>6. \A i \in DOMAIN stack' : stack'[i].next <= Len(causesOf(stack[i].err)') + 1
    <2>1. Len(causesOf(stack[N + 1].err)') \in Nat
        <3>1. causesOf(stack[N + 1].err)' = causesOf(cause)
            BY <1>0, <1>3, EnterEffect DEF causesOf
        <3> QED
            BY <1>1, <3>1, CausesTyped DEF CauseLists
    <2>2. stack'[N].next <= Len(causesOf(stack[N].err)) + 1
        BY <1>0, <1>4, EnterEffect DEF frame
    <2>3. \A i \in DOMAIN stack : stack'[i].next <= Len(causesOf(stack[i].err)) + 1
        BY <1>e, <2>2 DEF StackInv
    <2> QED
        BY <1>e, <1>2, <1>3, <2>1, <2>3
<1>7. ASSUME NEW i \in DOMAIN stack', i + 1 \in DOMAIN stack'
      PROVE  stack'[i].next >= 2 /\ causesOf(stack[i].err)'[stack'[i].next - 1] = stack'[i + 1].err
    <2>1. i \in DOMAIN stack
        <3>1. Len(stack') = N + 1 /\ stack' \in Seq(Frame) /\ stack \in Seq(Frame)
            BY <1>0, EnterEffect DEF StackInv
        <3> QED
            BY <1>0, <1>1, <1>7, <3>1
    <2>2. CASE i = N
        BY <1>0, <1>2, <1>3, <1>4, <2>1, <2>2, EnterEffect DEF cause, frame
    <2>3. CASE i # N
        <3>1. i + 1 \in DOMAIN stack
            BY <1>0, <1>1, <2>1, <2>3 DEF StackInv
        <3> QED
            BY <1>e, <1>2, <2>1, <2>3, <3>1 DEF StackInv
    <2> QED
        BY <2>2, <2>3
<1> QED
    BY <1>e, <1>5, <1>6, <1>7 DEF StackInv

LEMMA StackLeave == StackInv /\ Leave => StackInv'
<1> SUFFICES ASSUME StackInv, Leave PROVE StackInv'
    OBVIOUS
<1>1. \A i \in DOMAIN stack' : causesOf(stack[i].err)' = causesOf(stack[i].err)
    BY LeaveEffect DEF causesOf
<1> QED
    BY <1>1, LeaveEffect DEF StackInv

LEMMA StackFinish == StackInv /\ Finish => StackInv'
<1> SUFFICES ASSUME StackInv, Finish PROVE StackInv'
    OBVIOUS
<1>1. stack' = <<>> /\ graph' = graph /\ DOMAIN stack' = {}
    BY DEF Finish
<1> QED
    BY <1>1 DEF StackInv

LEMMA MapSkip == Pointers /\ StackInv /\ MapInv /\ (SkipNil \/ SkipVisited) => MapInv'
<1> SUFFICES ASSUME Pointers, StackInv, MapInv, SkipNil \/ SkipVisited PROVE MapInv'
    OBVIOUS
<1>1. \A i \in 2 .. Len(stack) : addr(stack[i].err)' = addr(stack[i].err)
    <2>1. \A i \in 2 .. Len(stack) : i \in DOMAIN stack
        BY DEF StackInv
    <2> QED
        BY <2>1, SkipEffect DEF addr
<1>2. Path' = Path /\ 2 .. Len(stack') = 2 .. Len(stack)
    BY <1>1, SkipEffect DEF Path
<1>3. CASE SkipNil
    BY <1>1, <1>2, <1>3 DEF MapInv, VisitedIsPath, Path, SkipNil
<1>4. CASE SkipVisited
    <2>1. /\ HasNext /\ cause \in Errors /\ addr(cause) # NoAddr /\ visited[addr(cause)] # Absent
          /\ visited' = [visited EXCEPT ![Slot] = addr(cause)]
        BY <1>4, CauseTyped DEF SkipVisited
    <2>2. addr(cause) \in Path /\ Path \subseteq Addrs \ {Slot}
        BY <2>1, PathTyped
    <2>3. visited \in [Addrs -> Addrs \cup {Absent}] /\ Slot \in Addrs
        BY DEF MapInv, Slot
    <2>4. /\ visited' \in [Addrs -> Addrs \cup {Absent}]
          /\ \A a \in Addrs \ {Slot} : visited'[a] = visited[a]
          /\ visited'[Slot] = addr(cause)
        BY <2>1, <2>2, <2>3
    <2>5. /\ \A a \in Addrs \ {Slot} : visited'[a] = IF a \in Path' THEN a ELSE Absent
          /\ visited'[Slot] \in Path' \cup {Absent}
        BY <1>2, <2>2, <2>4, PathTyped
    <2>6. VisitedIsPath'
        BY <2>5 DEF VisitedIsPath, Path, Slot
    <2> QED
        BY <1>1, <1>2, <2>4, <2>6 DEF MapInv
<1> QED
    BY <1>3, <1>4

LEMMA MapEnter == Pointers /\ StackInv /\ MapInv /\ Enter => MapInv'
<1> SUFFICES ASSUME Pointers, StackInv, MapInv, Enter PROVE MapInv'
    OBVIOUS
<1>0. PICK N : N = Len(stack)
    OBVIOUS
<1>1. /\ HasNext /\ N \in Nat \ {0} /\ cause \in Errors /\ Len(stack') = N + 1
      /\ stack \in Seq(Frame)
    BY <1>0, CauseTyped, EnterEffect DEF Enter, StackInv
<1>2. /\ \A i \in 2 .. N : addr(stack[i].err)' = addr(stack[i].err)
      /\ addr(stack[N + 1].err)' = addr(cause)
    <2>1. \A i \in 2 .. N : i \in DOMAIN stack
        BY <1>0, <1>1
    <2>2. stack'[N + 1].err = cause /\ graph' = graph
        BY <1>0, EnterEffect
    <2>3. \A i \in 2 .. N : stack'[i].err = stack[i].err
        BY <1>0, <2>1, EnterEffect
    <2> QED
        BY <2>2, <2>3 DEF addr
<1>3. Path = {addr(stack[i].err) : i \in 2 .. N} \ {NoAddr}
    BY <1>0 DEF Path
<1>4. Path' = (Path \cup {addr(cause)}) \ {NoAddr}
    <2>1. Path' = {addr(stack[i].err)' : i \in 2 .. N + 1} \ {NoAddr}
        BY <1>1 DEF Path
    <2>2. \A i \in 2 .. N + 1 : i \in 2 .. N \/ i = N + 1
        BY <1>1
    <2>3. 2 .. N \subseteq 2 .. N + 1 /\ N + 1 \in 2 .. N + 1
        BY <1>1
    <2> QED
        BY <1>2, <1>3, <2>1, <2>2, <2>3
<1>5. addr(cause) # NoAddr => visited[addr(cause)] = Absent /\ addr(cause) \notin Path
    BY <1>1, PathTyped DEF Enter
<1>6. visited' = IF addr(cause) = NoAddr THEN visited ELSE [visited EXCEPT ![addr(cause)] = addr(cause)]
    BY DEF Enter
<1>7. /\ visited' \in [Addrs -> Addrs \cup {Absent}]
      /\ \A a \in Addrs \ {Slot} : visited'[a] = IF a \in Path' THEN a ELSE Absent
      /\ visited'[Slot] \in Path' \cup {Absent}
    <2>1. visited \in [Addrs -> Addrs \cup {Absent}] /\ Slot \in Addrs
        BY DEF MapInv, Slot
    <2>2. CASE addr(cause) = NoAddr
        <3>1. visited' = visited /\ Path' = Path
            BY <1>4, <1>6, <2>2, <1>3
        <3> QED
            BY <2>1, <3>1, PathTyped
    <2>3. CASE addr(cause) # NoAddr
        <3>1. addr(cause) \in Addrs \ {Slot} /\ Path' = Path \cup {addr(cause)}
            BY <1>1, <1>3, <1>4, <2>3, AddressTyped
        <3>2. /\ visited' = [visited EXCEPT ![addr(cause)] = addr(cause)]
              /\ visited'[addr(cause)] = addr(cause)
              /\ \A a \in Addrs : a # addr(cause) => visited'[a] = visited[a]
            BY <1>6, <2>1, <2>3, <3>1
        <3>3. visited' \in [Addrs -> Addrs \cup {Absent}]
            BY <2>1, <3>1, <3>2
        <3> QED
            BY <2>1, <3>1, <3>2, <3>3, PathTyped
    <2> QED
        BY <2>2, <2>3
<1>8. VisitedIsPath'
    BY <1>7 DEF VisitedIsPath, Path, Slot
<1>9. ASSUME NEW i \in 2 .. N + 1, NEW j \in 2 .. N + 1,
             addr(stack[i].err)' = addr(stack[j].err)', addr(stack[i].err)' # NoAddr
      PROVE  i = j
    <2>1. CASE i \in 2 .. N /\ j \in 2 .. N
        BY <1>0, <1>2, <1>9, <2>1 DEF MapInv
    <2>2. CASE i = N + 1 /\ j \in 2 .. N
        BY <1>2, <1>3, <1>5, <1>9, <2>2
    <2>3. CASE j = N + 1 /\ i \in 2 .. N
        BY <1>2, <1>3, <1>5, <1>9, <2>3
    <2> QED
        BY <1>1, <2>1, <2>2, <2>3
<1> QED
    BY <1>1, <1>7, <1>8, <1>9 DEF MapInv

LEMMA MapLeave == Pointers /\ StackInv /\ MapInv /\ Leave => MapInv'
<1> SUFFICES ASSUME Pointers, StackInv, MapInv, Leave PROVE MapInv'
    OBVIOUS
<1> DEFINE ptr == addr(frame.err)
<1>0. PICK N : N = Len(stack)
    OBVIOUS
<1>1. /\ N \in Nat /\ N > 1 /\ Len(stack') = N - 1 /\ stack \in Seq(Frame) /\ stack' \in Seq(Frame)
      /\ frame = stack[N] /\ frame.err \in Errors
    BY <1>0, LeaveEffect, FrameTyped DEF Leave, StackInv, frame
<1>2. \A i \in 2 .. N - 1 : /\ addr(stack[i].err)' = addr(stack[i].err)
                            /\ addr(stack[i].err) = ptr => ptr = NoAddr
    <2>1. \A i \in 2 .. N - 1 : i \in DOMAIN stack' /\ i \in 2 .. N /\ i # N
        BY <1>1
    <2>2. N \in 2 .. N
        BY <1>1
    <2>3. \A i \in 2 .. N - 1 : addr(stack[i].err) = ptr => ptr = NoAddr
        BY <1>0, <1>1, <2>1, <2>2 DEF MapInv
    <2> QED
        BY <2>1, <2>3, LeaveEffect DEF addr
<1>3. Path' = Path \ {ptr}
    <2>1. \A i \in 2 .. N : i \in 2 .. N - 1 \/ i = N
        BY <1>1
    <2>2. \A i \in 2 .. N - 1 : i \in 2 .. N
        BY <1>1
    <2>3. Path' = {addr(stack[i].err)' : i \in 2 .. N - 1} \ {NoAddr}
        BY <1>1 DEF Path
    <2>4. Path = {addr(stack[i].err) : i \in 2 .. N} \ {NoAddr}
        BY <1>0 DEF Path
    <2> QED
        BY <1>1, <1>2, <2>1, <2>2, <2>3, <2>4
<1>4. visited \in [Addrs -> Addrs \cup {Absent}] /\ Slot \in Addrs
    BY DEF MapInv, Slot
<1>5. /\ visited' \in [Addrs -> Addrs \cup {Absent}]
      /\ \A a \in Addrs \ {Slot} : visited'[a] = IF a \in Path' THEN a ELSE Absent
      /\ visited'[Slot] \in Path' \cup {Absent}
    <2>1. CASE ptr = NoAddr
        <3>1. visited' = visited /\ Path' = Path
            BY <1>3, <2>1 DEF Leave, Path
        <3> QED
            BY <1>4, <3>1, PathTyped
    <2>2. CASE ptr # NoAddr
        <3>1. visited' = forget(ptr, visited)
            BY <2>2 DEF Leave
        <3>2. \A a \in Addrs : visited'[a] = IF a = ptr \/ (a = Slot /\ visited[Slot] = ptr)
                                             THEN Absent ELSE visited[a]
            BY <3>1 DEF forget
        <3>3. visited' \in [Addrs -> Addrs \cup {Absent}]
            BY <1>4, <3>1 DEF forget
        <3>4. ptr \in Addrs \ {Slot}
            BY <1>1, <2>2, AddressTyped
        <3> QED
            BY <1>3, <1>4, <3>2, <3>3, <3>4, PathTyped
    <2> QED
        BY <2>1, <2>2
<1>6. VisitedIsPath'
    BY <1>5 DEF VisitedIsPath, Path, Slot
<1>7. \A i, j \in 2 .. Len(stack') :
          addr(stack[i].err)' = addr(stack[j].err)' /\ addr(stack[i].err)' # NoAddr => i = j
    <2>1. 2 .. Len(stack') = 2 .. N - 1 /\ 2 .. N - 1 \subseteq 2 .. Len(stack)
        BY <1>0, <1>1
    <2> QED
        BY <1>2, <2>1 DEF MapInv
<1> QED
    BY <1>5, <1>6, <1>7 DEF MapInv

LEMMA MapFinish == Pointers /\ StackInv /\ MapInv /\ Finish => MapInv'
<1> SUFFICES ASSUME Pointers, StackInv, MapInv, Finish PROVE MapInv'
    OBVIOUS
<1>1. /\ 2 .. Len(stack) = {} /\ 2 .. Len(stack') = {} /\ visited' = visited
    BY DEF Finish
<1> QED
    BY <1>1 DEF MapInv, VisitedIsPath

-----------------------------------------------------------------------------
(* The trails of the tree                                                  *)

LEMMA NodeAppended ==
    ASSUME NEW t \in Trail, NEW s \in [pos : Nat \ {0}, err : Errors]
    PROVE  /\ Append(t, s) \in Trail /\ Append(t, s) # <<>> /\ ErrorAt(Append(t, s)) = s.err
           /\ Len(t) \in Nat /\ Append(t, s)[Len(t) + 1] = s
           /\ DOMAIN t = 1 .. Len(t) /\ DOMAIN Append(t, s) = 1 .. Len(t) + 1
           /\ \A i \in 1 .. Len(t) : Append(t, s)[i] = t[i]
<1>1. /\ Append(t, s) \in Trail /\ Len(Append(t, s)) = Len(t) + 1
      /\ \A i \in 1 .. Len(t) : Append(t, s)[i] = t[i]
      /\ Append(t, s)[Len(t) + 1] = s /\ Len(t) \in Nat /\ DOMAIN t = 1 .. Len(t)
    BY AppendProperties, LenProperties DEF Trail
<1>2. DOMAIN Append(t, s) = 1 .. Len(t) + 1 /\ Append(t, s) # <<>>
    BY <1>1 DEF Trail
<1> QED
    BY <1>1, <1>2 DEF ErrorAt

LEMMA ErrorTyped ==
    ASSUME TreeInv, NEW t \in tree \cup {<<>>}
    PROVE  /\ t \in Trail /\ ErrorAt(t) \in Errors \cup {Root}
           /\ t # <<>> => ErrorAt(t) \in Errors
<1>1. t \in Trail
    <2>1. <<>> \in Trail
        BY DEF Trail
    <2> QED
        BY <2>1 DEF TreeInv
<1>2. t # <<>> => Len(t) \in DOMAIN t /\ t[Len(t)] \in [pos : Nat \ {0}, err : Errors]
    <2> DEFINE S == [pos : Nat \ {0}, err : Errors]
    <2>1. t \in Seq(S)
        BY <1>1 DEF Trail
    <2> HIDE DEF S
    <2>2. t # <<>> => Len(t) \in 1 .. Len(t) /\ t[Len(t)] \in S
        BY <2>1
    <2>3. DOMAIN t = 1 .. Len(t)
        BY <2>1
    <2> QED
        BY <2>2, <2>3 DEF S
<1>3. t # <<>> => t[Len(t)].err \in Errors
    BY <1>2
<1> QED
    BY <1>1, <1>3 DEF ErrorAt

LEMMA PositionTyped ==
    ASSUME StackInv, TreeInv, NEW t \in tree \cup {<<>>}, NEW i \in DOMAIN causesOf(ErrorAt(t))
    PROVE  i \in Nat \ {0} /\ causesOf(ErrorAt(t))[i] \in Errors \cup {Nil}
BY ErrorTyped, CausesTyped DEF CauseLists

(* What a step passes is the next cause of the frame.                      *)
LEMMA PassedNext ==
    ASSUME StackInv, SkipNil \/ SkipVisited \/ Enter, NEW t, NEW i \in Nat, Passed(t, i)'
    PROVE  \/ Passed(t, i)
           \/ /\ t = TrailTo(Len(stack)) /\ ErrorAt(t) = frame.err
              /\ i = frame.next /\ causesOf(ErrorAt(t))[i] = cause
<1>0. PICK N : N = Len(stack)
    OBVIOUS
<1>1. HasNext /\ N \in DOMAIN stack /\ frame.next \in Nat
    BY <1>0, CauseTyped, FrameTyped DEF SkipNil, SkipVisited, Enter, frame
<1>2. /\ \A n \in DOMAIN stack : n \in DOMAIN stack' /\ (n # N => stack'[n] = stack[n])
      /\ stack'[N].next = frame.next + 1
      /\ \A n \in DOMAIN stack : TrailTo(n)' = TrailTo(n)
    <2>1. CASE SkipNil \/ SkipVisited
        BY <1>0, <2>1, SkipEffect
    <2>2. CASE Enter
        <3>1. \A n \in DOMAIN stack : n \in DOMAIN stack' /\ (n # N => stack'[n] = stack[n])
            BY <1>0, <2>2, EnterEffect
        <3>2. stack'[N].next = frame.next + 1
            BY <1>0, <2>2, EnterEffect
        <3>3. \A n \in DOMAIN stack : TrailTo(n)' = TrailTo(n)
            BY <1>0, <2>2, EnterEffect
        <3> QED
            BY <3>1, <3>2, <3>3
    <2> QED
        BY <2>1, <2>2
<1>3. SUFFICES ASSUME ~Passed(t, i)
               PROVE  t = TrailTo(N) /\ i = frame.next
    BY <1>0, <1>1, TrailLast DEF cause, frame
<1>4. PICK n \in DOMAIN stack : t = TrailTo(n) /\ ~(i < stack[n].next)
    BY <1>3 DEF Passed
<1>5. i < stack'[n].next
    BY <1>2, <1>4 DEF Passed
<1>6. n = N
    BY <1>2, <1>4, <1>5
<1> QED
    BY <1>0, <1>1, <1>2, <1>4, <1>5, <1>6 DEF frame

(* A frame is left when all of its error's causes are passed.              *)
LEMMA PassedLeave ==
    ASSUME StackInv, TreeInv, Leave \/ Finish,
           NEW t \in tree \cup {<<>>}, NEW i \in DOMAIN causesOf(ErrorAt(t)), Passed(t, i)'
    PROVE  Passed(t, i)
<1>1. SUFFICES ASSUME NEW n \in DOMAIN stack, t = TrailTo(n)
               PROVE  i < stack[n].next
    BY DEF Passed
<1>2. CASE n = Len(stack)
    <2>1. ErrorAt(t) = frame.err /\ frame.next \in Nat /\ stack # <<>>
        BY <1>1, <1>2, TrailLast, FrameTyped DEF frame
    <2>2. ~(frame.next <= Len(causesOf(frame.err)))
        BY <2>1 DEF Leave, Finish, HasNext
    <2>3. i \in Nat /\ i <= Len(causesOf(frame.err)) /\ Len(causesOf(frame.err)) \in Nat
        BY <2>1, ErrorTyped, CausesTyped DEF CauseLists
    <2> QED
        BY <1>2, <2>1, <2>2, <2>3 DEF frame
<1>3. CASE n # Len(stack)
    <2>1. stack \in Seq(Frame) /\ n \in 1 .. Len(stack) /\ Len(stack) \in Nat
        BY FrameTyped DEF StackInv
    <2>2. Leave
        <3>1. ASSUME Len(stack) = 1 PROVE FALSE
            <4>1. n \in 1 .. 1
                BY <2>1, <3>1
            <4> QED
                BY <1>3, <3>1, <4>1
        <3> QED
            BY <3>1 DEF Finish
    <2>3. n \in DOMAIN stack'
        BY <1>3, <2>1, <2>2, LeaveEffect
    <2>4. TrailTo(n)' = TrailTo(n) /\ stack'[n] = stack[n]
        BY <2>2, <2>3, LeaveEffect
    <2> QED
        BY <1>1, <2>3, <2>4 DEF Passed
<1> QED
    BY <1>2, <1>3

LEMMA TreeSame ==
    ASSUME TreeInv, UNCHANGED <<graph, tree>>, cyclic' \subseteq tree,
           \A n \in 2 .. Len(stack') : n \in 2 .. Len(stack) /\ TrailTo(n)' = TrailTo(n)
    PROVE  TreeInv'
<1>1. NoErrorBelowItself'
    BY DEF TreeInv, NoErrorBelowItself, addr
<1> QED
    BY <1>1 DEF TreeInv

LEMMA TreeSkip == StackInv /\ TreeInv /\ (SkipNil \/ SkipVisited) => TreeInv'
<1> SUFFICES ASSUME StackInv, TreeInv, SkipNil \/ SkipVisited PROVE TreeInv'
    OBVIOUS
<1>1. \A n \in 2 .. Len(stack') : n \in 2 .. Len(stack) /\ n \in DOMAIN stack
    BY SkipEffect DEF StackInv
<1>2. \A n \in 2 .. Len(stack') : TrailTo(n)' = TrailTo(n)
    BY <1>1, SkipEffect
<1>3. UNCHANGED <<graph, tree>> /\ cyclic' \subseteq tree
    BY SkipEffect DEF TreeInv
<1> QED
    BY <1>1, <1>2, <1>3, TreeSame

LEMMA TreeLeave == StackInv /\ TreeInv /\ Leave => TreeInv'
<1> SUFFICES ASSUME StackInv, TreeInv, Leave PROVE TreeInv'
    OBVIOUS
<1>0. PICK N : N = Len(stack)
    OBVIOUS
<1>1. N \in Nat /\ N > 1 /\ N \in DOMAIN stack /\ Len(stack') = N - 1 /\ stack' \in Seq(Frame)
    BY <1>0, LeaveEffect DEF Leave, StackInv
<1>2. \A n \in 2 .. Len(stack') : n \in 2 .. Len(stack) /\ n \in DOMAIN stack'
    BY <1>0, <1>1
<1>3. trail = TrailTo(N) /\ TrailTo(N) \in tree
    BY <1>0, <1>1 DEF TreeInv, trail, TrailTo
<1>4. cyclic' \subseteq tree
    BY <1>3 DEF Leave, TreeInv
<1>5. \A n \in 2 .. Len(stack') : TrailTo(n)' = TrailTo(n)
    BY <1>2, LeaveEffect
<1>6. UNCHANGED <<graph, tree>>
    BY LeaveEffect
<1> QED
    BY <1>2, <1>4, <1>5, <1>6, TreeSame

LEMMA TreeFinish == StackInv /\ TreeInv /\ Finish => TreeInv'
<1> SUFFICES ASSUME StackInv, TreeInv, Finish PROVE TreeInv'
    OBVIOUS
<1>1. 2 .. Len(stack') = {} /\ UNCHANGED <<graph, tree>> /\ cyclic' \subseteq tree
    BY DEF Finish, TreeInv
<1> QED
    BY <1>1, TreeSame

LEMMA TreeEnter == Pointers /\ StackInv /\ MapInv /\ TreeInv /\ Enter => TreeInv'
<1> SUFFICES ASSUME Pointers, StackInv, MapInv, TreeInv, Enter PROVE TreeInv'
    OBVIOUS
<1>0. PICK N : N = Len(stack)
    OBVIOUS
<1> DEFINE s == [pos |-> frame.next, err |-> cause]
           t == TrailTo(N)
           w == Append(t, s)
<1>1. N \in DOMAIN stack /\ N \in Nat \ {0} /\ frame.next \in Nat \ {0} /\ stack \in Seq(Frame)
    BY <1>0, CauseTyped, FrameTyped DEF Enter, frame, StackInv
<1>2. /\ cause \in Errors /\ graph' = graph /\ cyclic' = cyclic /\ Len(stack') = N + 1
      /\ \A n \in DOMAIN stack : TrailTo(n)' = TrailTo(n)
      /\ TrailTo(N + 1)' = w /\ trail' = w
    BY <1>0, EnterEffect
<1>3. s \in [pos : Nat \ {0}, err : Errors] /\ t \in Trail /\ Len(t) = N - 1
    BY <1>1, <1>2, TrailTyped
<1>4. tree' = tree \cup {w}
    BY <1>2 DEF Enter
<1> HIDE DEF s, t, w
<1>5. /\ w \in Trail /\ w # <<>> /\ DOMAIN w = 1 .. N /\ w[N].err = cause /\ DOMAIN t = 1 .. N - 1
      /\ \A i \in 1 .. N - 1 : w[i] = t[i]
    <2>1. (N - 1) + 1 = N
        BY <1>1
    <2> QED
        BY <1>3, <2>1, NodeAppended DEF w, s
<1>6. \A n \in 2 .. Len(stack') : TrailTo(n)' \in tree'
    <2>1. \A n \in 2 .. Len(stack') : n = N + 1 \/ (n \in DOMAIN stack /\ n \in 2 .. Len(stack))
        BY <1>0, <1>1, <1>2
    <2> QED
        BY <1>2, <1>4, <2>1 DEF TreeInv
<1>7. \A i, j \in DOMAIN w : i < j /\ addr(w[i].err) # NoAddr => w[i].err # w[j].err
    <2>1. SUFFICES ASSUME NEW i \in 1 .. N, NEW j \in 1 .. N, i < j, addr(w[i].err) # NoAddr,
                          w[i].err = w[j].err
                   PROVE  FALSE
        BY <1>5
    <2>2. i \in 1 .. N - 1 /\ w[i] = t[i]
        BY <1>1, <1>5, <2>1
    <2>3. CASE j = N
        <3>1. addr(cause) # NoAddr /\ t[i].err = cause
            BY <1>5, <2>1, <2>2, <2>3
        <3>2. OnTrail(t, cause)
            BY <1>5, <2>2, <3>1 DEF OnTrail
        <3>3. \E k \in 2 .. Len(stack) : stack[k].err = cause
            BY <1>0, <1>1, <3>2, TrailLast DEF t
        <3>4. visited[addr(cause)] # Absent
            BY <1>2, <3>1, <3>3, VisitedOnPath
        <3> QED
            BY <3>1, <3>4 DEF Enter
    <2>4. CASE j # N
        <3>1. j \in 1 .. N - 1 /\ w[j] = t[j]
            BY <1>1, <1>5, <2>4
        <3>2. N \in 2 .. Len(stack)
            BY <1>0, <1>1, <2>2
        <3>3. t \in tree
            BY <3>2 DEF TreeInv, t
        <3>4. addr(t[i].err) # NoAddr /\ t[i].err = t[j].err /\ i \in DOMAIN t /\ j \in DOMAIN t
            BY <1>5, <2>1, <2>2, <3>1
        <3>5. NoErrorBelowItself
            BY DEF TreeInv
        <3> QED
            BY <2>1, <3>3, <3>4, <3>5 DEF NoErrorBelowItself
    <2> QED
        BY <2>3, <2>4
<1>8. \A v \in tree' : \A i, j \in DOMAIN v : i < j /\ addr(v[i].err) # NoAddr => v[i].err # v[j].err
    BY <1>4, <1>7 DEF TreeInv, NoErrorBelowItself
<1>9. NoErrorBelowItself'
    BY <1>2, <1>8 DEF NoErrorBelowItself, addr
<1> QED
    BY <1>2, <1>4, <1>5, <1>6, <1>9 DEF TreeInv

-----------------------------------------------------------------------------
(* What is passed is built, or waits                                       *)

(* The error about to be entered is not on its trail, the one about to be  *)
(* skipped is.                                                             *)
LEMMA NextOnTrail ==
    ASSUME Pointers, StackInv, MapInv
    PROVE  /\ SkipVisited => OnTrail(TrailTo(Len(stack)), cause)
           /\ Enter => ~OnTrail(TrailTo(Len(stack)), cause)
<1>1. ASSUME HasNext, cause # Nil
      PROVE  OnTrail(TrailTo(Len(stack)), cause)
                <=> addr(cause) # NoAddr /\ visited[addr(cause)] # Absent
    <2>1. cause \in Errors /\ Len(stack) \in DOMAIN stack
        BY <1>1, CauseTyped
    <2> QED
        BY <2>1, TrailLast, VisitedOnPath
<1> QED
    BY <1>1 DEF SkipVisited, Enter

LEMMA BuiltSkip ==
    Pointers /\ StackInv /\ MapInv /\ TreeInv /\ BuiltInv /\ (SkipNil \/ SkipVisited) => BuiltInv'
<1> SUFFICES ASSUME Pointers, StackInv, MapInv, TreeInv, BuiltInv, SkipNil \/ SkipVisited,
                    NEW t \in tree \cup {<<>>}, NEW i \in DOMAIN causesOf(ErrorAt(t)),
                    Passed(t, i)', causesOf(ErrorAt(t))[i] # Nil,
                    ~OnTrail(t, causesOf(ErrorAt(t))[i])
             PROVE  Append(t, [pos |-> i, err |-> causesOf(ErrorAt(t))[i]]) \in tree
    BY SkipEffect, GraphKept DEF BuiltInv
<1>1. CASE Passed(t, i)
    BY <1>1 DEF BuiltInv
<1>2. CASE ~Passed(t, i)
    <2>1. t = TrailTo(Len(stack)) /\ causesOf(ErrorAt(t))[i] = cause
        BY <1>2, PassedNext, PositionTyped
    <2> QED
        BY <2>1, NextOnTrail DEF SkipNil
<1> QED
    BY <1>1, <1>2

LEMMA BuiltEnter ==
    Pointers /\ StackInv /\ MapInv /\ TreeInv /\ BuiltInv /\ Enter => BuiltInv'
<1> SUFFICES ASSUME Pointers, StackInv, MapInv, TreeInv, BuiltInv, Enter PROVE BuiltInv'
    OBVIOUS
<1>0. PICK N : N = Len(stack)
    OBVIOUS
<1> DEFINE w == Append(TrailTo(N), [pos |-> frame.next, err |-> cause])
<1>1. /\ TrailTo(N + 1)' = w /\ graph' = graph /\ N + 1 \in DOMAIN stack' /\ stack'[N + 1].next = 1
      /\ tree' = tree \cup {w} /\ cause \in Errors
    <2>1. /\ TrailTo(N + 1)' = w /\ graph' = graph /\ trail' = w /\ cause \in Errors
          /\ stack'[N + 1] = [err |-> cause, next |-> 1]
          /\ stack' \in Seq(Frame) /\ Len(stack') = N + 1
        BY <1>0, EnterEffect
    <2>2. N \in Nat
        BY <1>0, CauseTyped DEF Enter
    <2>3. tree' = tree \cup {trail'}
        BY DEF Enter
    <2> QED
        BY <2>1, <2>2, <2>3
<1> HIDE DEF w
<1>2. SUFFICES ASSUME NEW t \in tree' \cup {<<>>}, NEW i \in DOMAIN causesOf(ErrorAt(t)),
                      Passed(t, i)', causesOf(ErrorAt(t))[i] # Nil,
                      ~OnTrail(t, causesOf(ErrorAt(t))[i])
               PROVE  Append(t, [pos |-> i, err |-> causesOf(ErrorAt(t))[i]]) \in tree'
    BY <1>1, GraphKept DEF BuiltInv
<1>3. CASE t = w
    <2>1. i < 1
        BY <1>1, <1>2, <1>3 DEF Passed
    <2>2. ErrorAt(w) = cause
        <3>1. /\ TrailTo(N) \in Trail
              /\ [pos |-> frame.next, err |-> cause] \in [pos : Nat \ {0}, err : Errors]
            BY <1>0, <1>1, CauseTyped, FrameTyped, TrailTyped DEF Enter, frame
        <3> QED
            BY <3>1, NodeAppended DEF w
    <2>3. i \in Nat \ {0}
        BY <1>1, <1>3, <2>2, CausesTyped DEF CauseLists
    <2> QED
        BY <2>1, <2>3
<1>4. CASE t \in tree \cup {<<>>} /\ Passed(t, i)
    BY <1>1, <1>2, <1>4 DEF BuiltInv
<1>5. CASE t \in tree \cup {<<>>} /\ ~Passed(t, i)
    <2>1. i \in Nat
        BY <1>5, PositionTyped
    <2>2. t = TrailTo(N) /\ i = frame.next /\ causesOf(ErrorAt(t))[i] = cause
        BY <1>0, <1>2, <1>5, <2>1, PassedNext
    <2> QED
        BY <1>1, <2>2 DEF w
<1> QED
    BY <1>1, <1>3, <1>4, <1>5

LEMMA BuiltLeave ==
    StackInv /\ TreeInv /\ BuiltInv /\ (Leave \/ Finish) => BuiltInv'
<1> SUFFICES ASSUME StackInv, TreeInv, BuiltInv, Leave \/ Finish PROVE BuiltInv'
    OBVIOUS
<1>1. graph' = graph /\ tree' = tree
    BY DEF Leave, Finish
<1>2. \A t \in tree \cup {<<>>} : \A i \in DOMAIN causesOf(ErrorAt(t)) : Passed(t, i)' => Passed(t, i)
    BY PassedLeave
<1> QED
    BY <1>1, <1>2, GraphKept DEF BuiltInv

LEMMA WaitSkip ==
    Pointers /\ StackInv /\ MapInv /\ TreeInv /\ WaitInv /\ (SkipNil \/ SkipVisited) => WaitInv'
<1> SUFFICES ASSUME Pointers, StackInv, MapInv, TreeInv, WaitInv, SkipNil \/ SkipVisited
             PROVE  WaitInv'
    OBVIOUS
<1>1. UNCHANGED <<graph, tree, cyclic>>
    BY SkipEffect
<1>2. CASE SkipVisited
    <2>1. cause \in Errors /\ addr(cause) # NoAddr /\ visited' = [visited EXCEPT ![Slot] = addr(cause)]
        BY <1>2, CauseTyped DEF SkipVisited
    <2>2. visited \in [Addrs -> Addrs \cup {Absent}] /\ Slot \in Addrs /\ addr(cause) # Absent
        BY <2>1, AddressTyped DEF MapInv, Slot
    <2>3. visited'[Slot] # Absent
        BY <2>1, <2>2
    <2>4. (visited[Slot])' # Absent
        BY <2>3 DEF Slot
    <2> QED
        BY <2>4 DEF WaitInv
<1>3. CASE SkipNil
    <2>1. SUFFICES ASSUME NEW t \in tree \cup {<<>>}, NEW i \in DOMAIN causesOf(ErrorAt(t)),
                          Passed(t, i)', causesOf(ErrorAt(t))[i] # Nil,
                          OnTrail(t, causesOf(ErrorAt(t))[i])
                   PROVE  visited[Slot] # Absent \/ HasCycle
        BY <1>1, <1>3, GraphKept DEF WaitInv, HasCycle, SkipNil, Slot
    <2>2. i \in Nat
        BY PositionTyped
    <2>3. Passed(t, i)
        BY <1>3, <2>1, <2>2, PassedNext DEF SkipNil
    <2> QED
        BY <2>1, <2>3 DEF WaitInv
<1> QED
    BY <1>2, <1>3

LEMMA WaitEnter ==
    Pointers /\ StackInv /\ MapInv /\ TreeInv /\ WaitInv /\ Enter => WaitInv'
<1> SUFFICES ASSUME Pointers, StackInv, MapInv, TreeInv, WaitInv, Enter PROVE WaitInv'
    OBVIOUS
<1>0. PICK N : N = Len(stack)
    OBVIOUS
<1> DEFINE w == Append(TrailTo(N), [pos |-> frame.next, err |-> cause])
<1>1. /\ TrailTo(N + 1)' = w /\ graph' = graph /\ N + 1 \in DOMAIN stack' /\ stack'[N + 1].next = 1
      /\ tree' = tree \cup {w} /\ cause \in Errors /\ cyclic' = cyclic
    <2>1. /\ TrailTo(N + 1)' = w /\ graph' = graph /\ trail' = w /\ cause \in Errors
          /\ stack'[N + 1] = [err |-> cause, next |-> 1] /\ cyclic' = cyclic
          /\ stack' \in Seq(Frame) /\ Len(stack') = N + 1
        BY <1>0, EnterEffect
    <2>2. N \in Nat
        BY <1>0, CauseTyped DEF Enter
    <2>3. tree' = tree \cup {trail'}
        BY DEF Enter
    <2> QED
        BY <2>1, <2>2, <2>3
<1> HIDE DEF w
<1>2. visited'[Slot] = visited[Slot]
    <2>1. visited \in [Addrs -> Addrs \cup {Absent}] /\ addr(cause) # Slot
        BY <1>1, AddressTyped DEF MapInv
    <2> QED
        BY <2>1 DEF Enter
<1>3. SUFFICES ASSUME NEW t \in tree' \cup {<<>>}, NEW i \in DOMAIN causesOf(ErrorAt(t)),
                      Passed(t, i)', causesOf(ErrorAt(t))[i] # Nil,
                      OnTrail(t, causesOf(ErrorAt(t))[i])
               PROVE  visited[Slot] # Absent \/ HasCycle
    BY <1>1, <1>2, GraphKept DEF WaitInv, HasCycle, Slot
<1>4. CASE t = w
    <2>1. i < 1
        BY <1>1, <1>3, <1>4 DEF Passed
    <2>2. ErrorAt(w) = cause
        <3>1. /\ TrailTo(N) \in Trail
              /\ [pos |-> frame.next, err |-> cause] \in [pos : Nat \ {0}, err : Errors]
            BY <1>0, <1>1, CauseTyped, FrameTyped, TrailTyped DEF Enter, frame
        <3> QED
            BY <3>1, NodeAppended DEF w
    <2>3. i \in Nat \ {0}
        BY <1>1, <1>4, <2>2, CausesTyped DEF CauseLists
    <2> QED
        BY <2>1, <2>3
<1>5. CASE t \in tree \cup {<<>>}
    <2>1. i \in Nat
        BY <1>5, PositionTyped
    <2>2. Passed(t, i)
        BY <1>3, <2>1, PassedNext, NextOnTrail
    <2> QED
        BY <1>3, <1>5, <2>2 DEF WaitInv
<1> QED
    BY <1>1, <1>4, <1>5

LEMMA WaitLeave ==
    Pointers /\ StackInv /\ MapInv /\ TreeInv /\ WaitInv /\ (Leave \/ Finish) => WaitInv'
<1> SUFFICES ASSUME Pointers, StackInv, MapInv, TreeInv, WaitInv, Leave \/ Finish PROVE WaitInv'
    OBVIOUS
<1>1. graph' = graph /\ tree' = tree
    BY DEF Leave, Finish
<1>2. \A t \in tree \cup {<<>>} : \A i \in DOMAIN causesOf(ErrorAt(t)) : Passed(t, i)' => Passed(t, i)
    BY PassedLeave
<1>3. visited[Slot] # Absent \/ HasCycle => visited'[Slot] # Absent \/ HasCycle'
    <2>1. CASE Leave
        <3>1. Len(stack) \in DOMAIN stack /\ Len(stack) # 1
            BY <2>1 DEF Leave, StackInv
        <3>2. frame.err \in Errors
            BY <3>1, FrameTyped DEF frame
        <3>3. addr(frame.err) # Slot
            BY <3>2, AddressTyped
        <3>4. Slot \in Addrs
            BY DEF Slot
        <3> QED
            BY <2>1, <3>3, <3>4 DEF Leave, HasCycle, forget, closesCycle
    <2>2. CASE Finish
        BY <2>2 DEF Finish, HasCycle
    <2> QED
        BY <2>1, <2>2
<1> QED
    BY <1>1, <1>2, <1>3, GraphKept DEF WaitInv, Slot

-----------------------------------------------------------------------------
(* What is reached                                                         *)

(* A cause of what is reached is reached.                                  *)
LEMMA ReachedStep ==
    ASSUME NEW D, NEW e \in Errors, NEW c \in Causes(e), ReachedFrom(D, e)
    PROVE  ReachedFrom(D, c)
BY DEF ReachedFrom, Closed

LEMMA ReachedNow ==
    ASSUME NEW D, NEW c \in D
    PROVE  ReachedFrom(D, c)
BY DEF ReachedFrom

(* The next cause is reached from every error of the path.                 *)
LEMMA CauseReached ==
    ASSUME StackInv, ReachInv, HasNext, cause # Nil, NEW i \in DOMAIN stack
    PROVE  ReachedFrom(Causes(stack[i].err), cause)
<1>1. Len(stack) \in DOMAIN stack /\ cause \in Causes(frame.err)
    BY CauseTyped
<1>2. CASE i = Len(stack)
    BY <1>1, <1>2, ReachedNow DEF frame
<1>3. CASE i # Len(stack)
    <2>1. i < Len(stack) /\ Len(stack) # 1
        BY <1>1, <1>3, FrameTyped
    <2>2. stack[i].err \in Errors \cup {Root} /\ frame.err \in Errors
        BY <1>1, <2>1, FrameTyped DEF frame
    <2>3. Above(stack[i].err, frame.err)
        BY <1>1, <2>1 DEF Above, frame
    <2>4. ReachedFrom(Causes(stack[i].err), frame.err)
        BY <2>2, <2>3 DEF ReachInv
    <2> QED
        BY <1>1, <2>2, <2>4, ReachedStep
<1> QED
    BY <1>2, <1>3

LEMMA ReachKept ==
    ASSUME StackInv, ReachInv, SkipNil \/ SkipVisited \/ Leave \/ Finish
    PROVE  ReachInv'
<1>1. graph' = graph /\ tree' = tree
    BY DEF SkipNil, SkipVisited, Leave, Finish
<1>2. \A i \in DOMAIN stack' : i \in DOMAIN stack /\ stack'[i].err = stack[i].err
    <2>1. CASE SkipNil \/ SkipVisited
        BY <2>1, SkipEffect
    <2>2. CASE Leave
        BY <2>2, LeaveEffect
    <2>3. CASE Finish
        BY <2>3 DEF Finish
    <2> QED
        BY <2>1, <2>2, <2>3
<1>3. \A d, e : Above(d, e)' => Above(d, e)
    BY <1>2 DEF Above
<1> QED
    BY <1>1, <1>3, GraphKept DEF ReachInv

LEMMA ReachEnter == StackInv /\ ReachInv /\ Enter => ReachInv'
<1> SUFFICES ASSUME StackInv, ReachInv, Enter PROVE ReachInv'
    OBVIOUS
<1>0. PICK N : N = Len(stack)
    OBVIOUS
<1> DEFINE s == [pos |-> frame.next, err |-> cause]
           w == Append(TrailTo(N), s)
<1>1. /\ HasNext /\ cause # Nil /\ N \in DOMAIN stack /\ N \in Nat \ {0}
      /\ frame.next \in Nat \ {0} /\ 1 \in DOMAIN stack
    <2>1. HasNext /\ cause # Nil /\ N \in DOMAIN stack /\ frame.next \in Nat \ {0}
        BY <1>0, CauseTyped, FrameTyped DEF Enter, frame
    <2>2. N \in Nat \ {0} /\ stack \in Seq(Frame)
        BY <1>0, <2>1, CauseTyped DEF StackInv
    <2> QED
        BY <1>0, <2>1, <2>2
<1>2. /\ graph' = graph /\ cause \in Errors /\ trail' = w /\ stack'[N + 1].err = cause
      /\ \A i \in DOMAIN stack' : i \in DOMAIN stack \/ i = N + 1
      /\ \A i \in DOMAIN stack : stack'[i].err = stack[i].err
    <2>1. stack'[N + 1] = [err |-> cause, next |-> 1]
        BY <1>0, EnterEffect
    <2>2. graph' = graph /\ cause \in Errors
        BY <1>0, EnterEffect
    <2>3. trail' = w
        BY <1>0, EnterEffect
    <2>4. /\ \A i \in DOMAIN stack' : i \in DOMAIN stack \/ i = N + 1
          /\ \A i \in DOMAIN stack : stack'[i].err = stack[i].err
        BY <1>0, EnterEffect
    <2> QED
        BY <2>1, <2>2, <2>3, <2>4
<1>3. tree' = tree \cup {w} /\ ErrorAt(w) = cause
    <2>1. TrailTo(N) \in Trail /\ s \in [pos : Nat \ {0}, err : Errors]
        BY <1>1, <1>2, TrailTyped
    <2>2. ErrorAt(w) = s.err
        BY <2>1, NodeAppended
    <2>3. tree' = tree \cup {trail'}
        BY DEF Enter
    <2> QED
        BY <1>2, <2>2, <2>3
<1> HIDE DEF w, s
<1>4. ASSUME NEW d \in Errors \cup {Root}, NEW e \in Errors, Above(d, e)'
      PROVE  ReachedFrom(Causes(d), e)
    <2>1. PICK i \in DOMAIN stack', j \in DOMAIN stack' : i < j /\ stack'[i].err = d /\ stack'[j].err = e
        BY <1>4 DEF Above
    <2>2. \A k \in DOMAIN stack : k <= N /\ k \in Nat
        BY <1>0, FrameTyped
    <2>3. i \in DOMAIN stack
        BY <1>1, <1>2, <2>1, <2>2
    <2>4. CASE j \in DOMAIN stack
        <3>1. Above(d, e)
            BY <1>2, <2>1, <2>3, <2>4 DEF Above
        <3> QED
            BY <3>1 DEF ReachInv
    <2>5. CASE j = N + 1
        <3>1. ReachedFrom(Causes(stack[i].err), cause)
            BY <1>1, <2>3, CauseReached
        <3> QED
            BY <1>2, <2>1, <2>3, <2>5, <3>1
    <2> QED
        BY <1>2, <2>4, <2>5
<1>5. ReachedFrom(Causes(Root), cause)
    BY <1>1, CauseReached, FrameTyped
<1>6. \A t \in tree' : ReachedFrom(Causes(Root), ErrorAt(t))
    BY <1>3, <1>5 DEF ReachInv
<1> QED
    BY <1>2, <1>4, <1>6, GraphKept DEF ReachInv

-----------------------------------------------------------------------------
(* What waits and what is marked is on a cycle                             *)

LEMMA SlotSkipVisited ==
    Pointers /\ StackInv /\ MapInv /\ ReachInv /\ SlotInv /\ SkipVisited => SlotInv'
<1> SUFFICES ASSUME Pointers, StackInv, MapInv, ReachInv, SlotInv, SkipVisited PROVE SlotInv'
    OBVIOUS
<1>1. /\ HasNext /\ cause # Nil /\ cause \in Errors /\ addr(cause) # NoAddr
      /\ visited[addr(cause)] # Absent /\ visited' = [visited EXCEPT ![Slot] = addr(cause)]
      /\ graph' = graph /\ cyclic' = cyclic
    BY CauseTyped DEF SkipVisited
<1>2. PICK j \in 2 .. Len(stack) : stack[j].err = cause
    BY <1>1, VisitedOnPath
<1>3. j \in DOMAIN stack
    BY DEF StackInv
<1>4. OnCycle(cause)
    BY <1>1, <1>2, <1>3, CauseReached DEF OnCycle
<1>5. visited'[Slot] = addr(cause)
    BY <1>1 DEF MapInv, Slot
<1>6. \A e \in Errors : addr(e) = visited'[Slot] => e = cause
    BY <1>1, <1>5, AddressTyped
<1>7. \A e \in Errors : addr(e)' = (visited[Slot])' => OnCycle(e)'
    BY <1>1, <1>4, <1>6, GraphKept DEF Slot
<1>8. MarkedOnCycle'
    BY <1>1, GraphKept DEF SlotInv, MarkedOnCycle
<1> QED
    BY <1>7, <1>8 DEF SlotInv

LEMMA SlotKept ==
    ASSUME SlotInv, graph' = graph, cyclic' = cyclic,
           visited'[Slot] \in {visited[Slot], Absent}
    PROVE  SlotInv'
<1>1. \A e \in Errors : (visited[Slot])' # Absent /\ addr(e)' = (visited[Slot])' => OnCycle(e)'
    BY GraphKept DEF SlotInv, Slot
<1>2. MarkedOnCycle'
    BY GraphKept DEF SlotInv, MarkedOnCycle
<1> QED
    BY <1>1, <1>2 DEF SlotInv

LEMMA SlotEnter == Pointers /\ StackInv /\ MapInv /\ SlotInv /\ Enter => SlotInv'
<1> SUFFICES ASSUME Pointers, StackInv, MapInv, SlotInv, Enter PROVE SlotInv'
    OBVIOUS
<1>1. visited \in [Addrs -> Addrs \cup {Absent}] /\ cause \in Errors /\ addr(cause) # Slot
    BY CauseTyped, AddressTyped DEF MapInv, Enter
<1>2. visited'[Slot] = visited[Slot] /\ graph' = graph /\ cyclic' = cyclic
    BY <1>1 DEF Enter
<1> QED
    BY <1>2, SlotKept

LEMMA SlotLeave == Pointers /\ StackInv /\ MapInv /\ TreeInv /\ SlotInv /\ Leave => SlotInv'
<1> SUFFICES ASSUME Pointers, StackInv, MapInv, TreeInv, SlotInv, Leave PROVE SlotInv'
    OBVIOUS
<1> DEFINE ptr == addr(frame.err)
<1>1. Len(stack) \in DOMAIN stack /\ Len(stack) \in Nat /\ Len(stack) # 1
    BY DEF Leave, StackInv
<1>2. frame.err \in Errors /\ ErrorAt(trail) = frame.err
    <2>1. trail = TrailTo(Len(stack))
        BY DEF trail, TrailTo
    <2> QED
        BY <1>1, <2>1, FrameTyped, TrailLast DEF frame
<1>3. graph' = graph /\ Slot \in Addrs
    BY DEF Leave, Slot
<1>4. CASE ptr = NoAddr
    <2>1. UNCHANGED <<visited, cyclic>>
        BY <1>4 DEF Leave
    <2> QED
        BY <1>3, <2>1, SlotKept
<1>5. CASE ptr # NoAddr
    <2>1. visited'[Slot] \in {visited[Slot], Absent}
        BY <1>3, <1>5 DEF Leave, forget
    <2>2. CASE ~closesCycle(ptr)
        <3>1. cyclic' = cyclic
            BY <1>5, <2>2 DEF Leave
        <3> QED
            BY <1>3, <2>1, <3>1, SlotKept
    <2>3. CASE closesCycle(ptr)
        <3>1. cyclic' = cyclic \cup {trail}
            BY <1>5, <2>3 DEF Leave
        <3>2. OnCycle(frame.err)
            <4>1. ptr = visited[Slot] /\ ptr # Absent
                BY <1>2, <1>5, <2>3, AddressTyped DEF closesCycle
            <4> QED
                BY <1>2, <4>1 DEF SlotInv
        <3>3. \A t \in cyclic' : OnCycle(ErrorAt(t))
            BY <1>2, <3>1, <3>2 DEF SlotInv, MarkedOnCycle
        <3>4. MarkedOnCycle'
            BY <1>3, <3>3, GraphKept DEF MarkedOnCycle
        <3>5. \A e \in Errors : (visited[Slot])' # Absent /\ addr(e)' = (visited[Slot])' => OnCycle(e)'
            BY <1>3, <2>1, GraphKept DEF SlotInv, Slot
        <3> QED
            BY <3>4, <3>5 DEF SlotInv
    <2> QED
        BY <2>2, <2>3
<1> QED
    BY <1>4, <1>5

LEMMA SlotRest == SlotInv /\ (SkipNil \/ Finish) => SlotInv'
<1> SUFFICES ASSUME SlotInv, SkipNil \/ Finish PROVE SlotInv'
    OBVIOUS
<1>1. graph' = graph /\ cyclic' = cyclic /\ visited' = visited
    BY DEF SkipNil, Finish
<1> QED
    BY <1>1, SlotKept

-----------------------------------------------------------------------------
(* The invariant                                                           *)

LEMMA StepInv == Pointers /\ TreesInv /\ [Next]_vars => TreesInv'
<1> SUFFICES ASSUME Pointers, TreesInv, [Next]_vars PROVE TreesInv'
    OBVIOUS
<1>1. StackInv /\ MapInv /\ TreeInv /\ BuiltInv /\ ReachInv /\ SlotInv /\ WaitInv
    BY DEF TreesInv
<1>2. CASE SkipNil
    BY <1>1, <1>2, StackSkip, MapSkip, TreeSkip, BuiltSkip, ReachKept, SlotRest, WaitSkip DEF TreesInv
<1>3. CASE SkipVisited
    BY <1>1, <1>3, StackSkip, MapSkip, TreeSkip, BuiltSkip, ReachKept, SlotSkipVisited, WaitSkip
       DEF TreesInv
<1>4. CASE Enter
    BY <1>1, <1>4, StackEnter, MapEnter, TreeEnter, BuiltEnter, ReachEnter, SlotEnter, WaitEnter
       DEF TreesInv
<1>5. CASE Leave
    BY <1>1, <1>5, StackLeave, MapLeave, TreeLeave, BuiltLeave, ReachKept, SlotLeave, WaitLeave
       DEF TreesInv
<1>6. CASE Finish
    BY <1>1, <1>6, StackFinish, MapFinish, TreeFinish, BuiltLeave, ReachKept, SlotRest, WaitLeave
       DEF TreesInv
<1>7. CASE UNCHANGED vars
    <2>1. graph' = graph /\ stack' = stack /\ visited' = visited /\ tree' = tree /\ cyclic' = cyclic
        BY <1>7 DEF vars
    <2> USE <2>1, GraphKept
    <2>2. \A t, i : Passed(t, i)' <=> Passed(t, i)
        BY DEF Passed, TrailTo
    <2>3. StackInv'
        BY <1>1 DEF StackInv, causesOf
    <2>4. MapInv'
        BY <1>1 DEF MapInv, VisitedIsPath, addr, Slot
    <2>5. TreeInv'
        BY <1>1 DEF TreeInv, NoErrorBelowItself, addr, TrailTo
    <2>6. BuiltInv'
        BY <1>1, <2>2 DEF BuiltInv
    <2>7. ReachInv'
        BY <1>1 DEF ReachInv, Above
    <2>8. SlotInv'
        BY <1>1, SlotKept
    <2>9. WaitInv'
        BY <1>1, <2>2 DEF WaitInv, HasCycle, Slot
    <2> QED
        BY <2>3, <2>4, <2>5, <2>6, <2>7, <2>8, <2>9 DEF TreesInv
<1> QED
    BY <1>2, <1>3, <1>4, <1>5, <1>6, <1>7 DEF Next

LEMMA TreesInvHolds ==
    ASSUME Pointers
    PROVE  Spec => []TreesInv
<1>1. Init => TreesInv
    BY InitInv
<1>2. TreesInv /\ [Next]_vars => TreesInv'
    BY StepInv
<1> QED
    BY <1>1, <1>2, PTL DEF Spec

(* At every moment the frames stand at one of their causes, only built     *)
(* nodes are marked, and the map holds exactly the addresses of the path   *)
(* (node.go:154-196), if pointers are neither nil nor shared.              *)
THEOREM TypesHold ==
    ASSUME Pointers
    PROVE  Spec => []TypeOK
<1>1. TreesInv => TypeOK
    BY DEF TreesInv, StackInv, MapInv, TreeInv, TypeOK
<1> QED
    BY <1>1, TreesInvHolds, PTL

-----------------------------------------------------------------------------
(* The finished tree                                                       *)

(* A cause is missing below a node only if it is nil or above it.          *)
LEMMA FinishedTree ==
    ASSUME TreesInv, Done,
           NEW t \in tree \cup {<<>>}, NEW i \in DOMAIN causesOf(ErrorAt(t)),
           NEW c, c = causesOf(ErrorAt(t))[i]
    PROVE  /\ Append(t, [pos |-> i, err |-> c]) \in tree <=> c # Nil /\ ~OnTrail(t, c)
           /\ c # Nil /\ OnTrail(t, c) => HasCycle
<1>1. StackInv /\ MapInv /\ TreeInv /\ BuiltInv /\ WaitInv
    BY DEF TreesInv
<1>2. Passed(t, i)
    BY DEF Passed, Done
<1>3. visited[Slot] = Absent
    <2>1. 2 .. Len(stack) = {}
        BY DEF Done
    <2> QED
        BY <1>1, <2>1 DEF MapInv, VisitedIsPath
<1>4. c # Nil /\ ~OnTrail(t, c) => Append(t, [pos |-> i, err |-> c]) \in tree
    BY <1>1, <1>2 DEF BuiltInv
<1>5. c # Nil /\ OnTrail(t, c) => HasCycle
    BY <1>1, <1>2, <1>3 DEF WaitInv
<1>6. ASSUME Append(t, [pos |-> i, err |-> c]) \in tree
      PROVE  c # Nil /\ ~OnTrail(t, c)
    <2> DEFINE s == [pos |-> i, err |-> c]
               w == Append(t, s)
    <2>1. t \in Trail /\ i \in Nat \ {0} /\ c \in Errors \cup {Nil}
        BY <1>1, ErrorTyped, PositionTyped
    <2>2. c # Nil
        <3>1. w \in Seq([pos : Nat \ {0}, err : Errors])
            BY <1>1, <1>6 DEF TreeInv, Trail
        <3>2. w[Len(t) + 1] = s /\ Len(t) + 1 \in DOMAIN w
            BY <2>1 DEF Trail
        <3>3. s \in [pos : Nat \ {0}, err : Errors]
            <4> DEFINE S == [pos : Nat \ {0}, err : Errors]
            <4>1. w \in Seq(S)
                BY <3>1
            <4> HIDE DEF w, s, S
            <4>2. w[Len(t) + 1] \in S
                BY <3>2, <4>1
            <4> QED
                BY <3>2, <4>2 DEF S
        <3>4. s.err \in Errors
            BY <3>3
        <3> QED
            BY <3>4
    <2>3. s \in [pos : Nat \ {0}, err : Errors]
        BY <2>1, <2>2
    <2>4. /\ Len(t) \in Nat /\ w[Len(t) + 1] = s /\ DOMAIN t = 1 .. Len(t)
          /\ DOMAIN w = 1 .. Len(t) + 1 /\ \A j \in 1 .. Len(t) : w[j] = t[j]
        BY <2>1, <2>3, NodeAppended
    <2>5. ASSUME NEW j \in DOMAIN t, t[j].err = c, addr(c) # NoAddr
          PROVE  FALSE
        <3>1. j \in DOMAIN w /\ Len(t) + 1 \in DOMAIN w /\ j < Len(t) + 1 /\ w[j].err = c
            BY <2>4, <2>5
        <3>2. w[Len(t) + 1].err = c
            BY <2>4
        <3>3. w \in tree /\ NoErrorBelowItself
            BY <1>1, <1>6 DEF TreeInv
        <3> HIDE DEF w
        <3> QED
            BY <2>5, <3>1, <3>2, <3>3 DEF NoErrorBelowItself
    <2> QED
        BY <2>2, <2>5 DEF OnTrail
<1> QED
    BY <1>4, <1>5, <1>6

(* The tree is acyclic, and nothing else is left out: when it is finished  *)
(* a cause of a node is missing exactly if it is nil or would close a      *)
(* cycle (error.go:34-35).                                                 *)
THEOREM TreesComplete ==
    ASSUME Pointers
    PROVE  Spec => []TreeComplete
<1>1. TreesInv => TreeComplete
    <2> SUFFICES ASSUME TreesInv PROVE TreeComplete
        OBVIOUS
    <2>1. NoErrorBelowItself
        BY DEF TreesInv, TreeInv
    <2>2. ASSUME Done, NEW t \in tree \cup {<<>>}, NEW i \in DOMAIN causesOf(ErrorAt(t))
          PROVE  Append(t, [pos |-> i, err |-> causesOf(ErrorAt(t))[i]]) \in tree
                    <=> causesOf(ErrorAt(t))[i] # Nil /\ ~OnTrail(t, causesOf(ErrorAt(t))[i])
        BY <2>2, FinishedTree
    <2> QED
        BY <2>1, <2>2 DEF TreeComplete
<1> QED
    BY <1>1, TreesInvHolds, PTL

-----------------------------------------------------------------------------
(* Cycles                                                                  *)

(* No errors without an address form a cycle among themselves.             *)
Values == \A g \in Graphs : ValuesAcyclic(g)

LEMMA CausesAreErrors ==
    ASSUME StackInv, NEW e \in Errors \cup {Root}
    PROVE  Causes(e) \subseteq Errors
<1>1. causesOf(e) \in Seq(Errors \cup {Nil})
    BY CausesTyped DEF CauseLists
<1>2. \A i \in DOMAIN causesOf(e) : causesOf(e)[i] \in Errors \cup {Nil}
    BY <1>1
<1> QED
    BY <1>2 DEF Causes

LEMMA ReachedThrough ==
    ASSUME NEW D, NEW e \in Errors, NEW d, ReachedFrom(D, e), ReachedFrom(Causes(e), d)
    PROVE  ReachedFrom(D, d)
BY DEF ReachedFrom, Closed

(* What is reached from an error's causes is one of them or reached from   *)
(* the causes of one.                                                      *)
LEMMA ReachedByOne ==
    ASSUME StackInv, NEW x \in Errors, NEW e, ReachedFrom(Causes(x), e)
    PROVE  \E y \in Causes(x) : e = y \/ ReachedFrom(Causes(y), e)
<1> DEFINE Z == {z \in Errors : \E y \in Causes(x) : z = y \/ ReachedFrom(Causes(y), z)}
<1>1. Causes(x) \subseteq Z
    BY CausesAreErrors
<1>2. Closed(Z)
    <2>1. SUFFICES ASSUME NEW z \in Z, NEW c \in Causes(z) PROVE c \in Z
        BY DEF Closed
    <2>2. PICK y \in Causes(x) : z = y \/ ReachedFrom(Causes(y), z)
        OBVIOUS
    <2>3. c \in Errors
        BY CausesAreErrors
    <2>4. ReachedFrom(Causes(y), c)
        <3>1. CASE z = y
            BY <3>1, ReachedNow
        <3>2. CASE ReachedFrom(Causes(y), z)
            BY <3>2, ReachedStep
        <3> QED
            BY <2>2, <3>1, <3>2
    <2> QED
        BY <2>3, <2>4
<1>3. e \in Z
    <2>1. Z \in SUBSET Errors
        OBVIOUS
    <2> HIDE DEF Z
    <2> QED
        BY <1>1, <1>2, <2>1 DEF ReachedFrom
<1> QED
    BY <1>3

(* The errors below a node.                                                *)
Below(t) ==
    {ErrorAt(u) : u \in {v \in tree : Len(v) > Len(t) /\ \A i \in DOMAIN t : v[i] = t[i]}}

(* In a finished tree without marks everything reached from a node is below it. *)
LEMMA BelowReached ==
    ASSUME TreesInv, Done, ~HasCycle, NEW t \in tree \cup {<<>>}, NEW e,
           ReachedFrom(Causes(ErrorAt(t)), e)
    PROVE  e \in Below(t)
<1>1. StackInv /\ TreeInv
    BY DEF TreesInv
<1>2. ASSUME NEW u \in tree \cup {<<>>}, NEW c \in Causes(ErrorAt(u)), Len(u) >= Len(t),
             \A i \in DOMAIN t : u[i] = t[i]
      PROVE  c \in Below(t)
    <2>1. PICK i \in DOMAIN causesOf(ErrorAt(u)) : c = causesOf(ErrorAt(u))[i] /\ c # Nil
        BY DEF Causes
    <2> DEFINE s == [pos |-> i, err |-> c]
               w == Append(u, s)
    <2>2. w \in tree
        BY <2>1, FinishedTree
    <2>3. u \in Trail /\ t \in Trail /\ s \in [pos : Nat \ {0}, err : Errors]
        BY <1>1, <2>1, ErrorTyped, PositionTyped
    <2>4. /\ ErrorAt(w) = c /\ Len(u) \in Nat /\ DOMAIN w = 1 .. Len(u) + 1
          /\ \A j \in 1 .. Len(u) : w[j] = u[j]
        BY <2>3, NodeAppended
    <2>5. Len(w) = Len(u) + 1 /\ Len(t) \in Nat /\ DOMAIN t = 1 .. Len(t)
        BY <2>3 DEF Trail
    <2>6. \A j \in DOMAIN t : w[j] = t[j]
        BY <1>2, <2>4, <2>5
    <2> HIDE DEF w
    <2>7. Len(w) > Len(t)
        BY <1>2, <2>4, <2>5
    <2> QED
        BY <2>2, <2>4, <2>6, <2>7 DEF Below
<1>3. Causes(ErrorAt(t)) \subseteq Below(t)
    <2>1. Len(t) >= Len(t)
        BY <1>1, ErrorTyped DEF Trail
    <2> QED
        BY <1>2, <2>1
<1>4. Below(t) \subseteq Errors
    <2>1. Len(t) \in Nat
        BY <1>1, ErrorTyped DEF Trail
    <2>2. \A v \in tree : v # <<>>
        BY <1>1 DEF TreeInv
    <2> QED
        BY <1>1, <2>2, ErrorTyped DEF Below
<1>5. Closed(Below(t))
    <2>1. SUFFICES ASSUME NEW x \in Below(t), NEW c \in Causes(x) PROVE c \in Below(t)
        BY DEF Closed
    <2>2. PICK u \in tree : x = ErrorAt(u) /\ Len(u) > Len(t) /\ \A i \in DOMAIN t : u[i] = t[i]
        BY DEF Below
    <2>3. Len(u) >= Len(t)
        BY <1>1, <2>2, ErrorTyped DEF Trail
    <2> QED
        BY <1>2, <2>2, <2>3
<1> QED
    BY <1>3, <1>4, <1>5 DEF ReachedFrom

(* A cycle through a tracked error leaves a mark.                          *)
LEMMA TrackedMarks ==
    ASSUME TreesInv, Done, NEW e \in Errors, addr(e) # NoAddr,
           ReachedFrom(Causes(Root), e), OnCycle(e)
    PROVE  HasCycle
<1> SUFFICES ASSUME ~HasCycle PROVE FALSE
    OBVIOUS
<1>1. TreeInv
    BY DEF TreesInv
<1>2. PICK t \in tree : ErrorAt(t) = e
    <2>1. e \in Below(<<>>)
        BY BelowReached DEF ErrorAt
    <2> QED
        BY <2>1 DEF Below
<1>3. e \in Below(t)
    BY <1>2, BelowReached DEF OnCycle
<1>4. PICK u \in tree : e = ErrorAt(u) /\ Len(u) > Len(t) /\ \A i \in DOMAIN t : u[i] = t[i]
    BY <1>3 DEF Below
<1>5. t # <<>> /\ u # <<>> /\ t \in Trail /\ u \in Trail
    BY <1>1, ErrorTyped DEF TreeInv
<1>6. /\ Len(t) \in DOMAIN t /\ Len(u) \in DOMAIN u /\ Len(t) \in DOMAIN u
      /\ Len(t) < Len(u)
    BY <1>4, <1>5 DEF Trail
<1>7. t[Len(t)].err = e /\ u[Len(u)].err = e
    BY <1>2, <1>4, <1>5 DEF ErrorAt
<1>8. u[Len(t)].err = e
    BY <1>4, <1>6, <1>7
<1>9. NoErrorBelowItself
    BY <1>1 DEF TreeInv
<1> QED
    BY <1>6, <1>7, <1>8, <1>9 DEF NoErrorBelowItself

(* On a cycle there is a tracked error.                                    *)
LEMMA TrackedOnCycle ==
    ASSUME Values, StackInv, NEW e \in Errors, OnCycle(e)
    PROVE  \E d \in Errors : /\ addr(d) # NoAddr /\ OnCycle(d)
                             /\ ReachedFrom(Causes(e), d)
<1> DEFINE V == {x \in Errors : ReachedFrom(Causes(e), x) /\ ReachedFrom(Causes(x), e)}
<1>1. e \in V
    BY DEF OnCycle
<1>2. \A x \in V : \E y \in Causes(x) : y \in V
    <2>1. SUFFICES ASSUME NEW x \in V PROVE \E y \in Causes(x) : y \in V
        OBVIOUS
    <2>2. PICK y \in Causes(x) : e = y \/ ReachedFrom(Causes(y), e)
        BY ReachedByOne
    <2>3. y \in Errors
        BY CausesAreErrors
    <2>4. ReachedFrom(Causes(e), y)
        BY ReachedStep
    <2> QED
        BY <1>1, <2>2, <2>3, <2>4
<1>3. \A x \in V : \E i \in DOMAIN graph.unwrap[x] : graph.unwrap[x][i] \in V
    <2>1. SUFFICES ASSUME NEW x \in V PROVE \E i \in DOMAIN graph.unwrap[x] : graph.unwrap[x][i] \in V
        OBVIOUS
    <2>2. causesOf(x) = graph.unwrap[x]
        BY DEF causesOf
    <2> HIDE DEF V
    <2> QED
        BY <1>2, <2>2 DEF Causes
<1>4. \E d \in V : addr(d) # NoAddr
    <2>1. ValuesAcyclic(graph)
        BY DEF Values, StackInv
    <2>2. ASSUME \A d \in V : graph.addr[d] = NoAddr
          PROVE  V \in SUBSET {d \in Errors : graph.addr[d] = NoAddr}
        BY <2>2
    <2> HIDE DEF V
    <2> QED
        BY <1>1, <1>3, <2>1, <2>2 DEF ValuesAcyclic, addr
<1>5. PICK d \in V : addr(d) # NoAddr
    BY <1>4
<1>6. OnCycle(d)
    BY ReachedThrough DEF OnCycle
<1> QED
    BY <1>5, <1>6

(* When the tree is finished some node is marked exactly if there is a     *)
(* cycle, and every marked node is on one (node.go:21, 53, 183-191).       *)
THEOREM CyclesMarked ==
    ASSUME Pointers, Values
    PROVE  Spec => []CycleMarks
<1>1. TreesInv => CycleMarks
    <2> SUFFICES ASSUME TreesInv PROVE CycleMarks
        OBVIOUS
    <2>1. StackInv /\ TreeInv /\ ReachInv /\ MarkedOnCycle
        BY DEF TreesInv, SlotInv
    <2>2. HasCycle => Cyclic
        <3>1. SUFFICES ASSUME NEW t \in cyclic PROVE Cyclic
            BY DEF HasCycle
        <3>2. t \in tree /\ t # <<>>
            BY <2>1 DEF TreeInv
        <3>3. ErrorAt(t) \in Errors /\ ReachedFrom(Causes(Root), ErrorAt(t)) /\ OnCycle(ErrorAt(t))
            BY <2>1, <3>2, ErrorTyped DEF ReachInv, MarkedOnCycle
        <3> QED
            BY <3>3 DEF Cyclic
    <2>3. ASSUME Done, Cyclic PROVE HasCycle
        <3>1. PICK e \in Errors : ReachedFrom(Causes(Root), e) /\ OnCycle(e)
            BY <2>3 DEF Cyclic
        <3>2. PICK d \in Errors : addr(d) # NoAddr /\ OnCycle(d) /\ ReachedFrom(Causes(e), d)
            BY <2>1, <3>1, TrackedOnCycle
        <3>3. ReachedFrom(Causes(Root), d)
            BY <3>1, <3>2, ReachedThrough
        <3> QED
            BY <2>3, <3>2, <3>3, TrackedMarks
    <2> QED
        BY <2>1, <2>2, <2>3 DEF CycleMarks, HasCycleExact
<1> QED
    BY <1>1, TreesInvHolds, PTL
=============================================================================
