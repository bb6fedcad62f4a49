-------------------------- MODULE RenderingProofs --------------------------
(***************************************************************************)
(* Safety of rendering, for any errors, causes and definitions.            *)
(*                                                                         *)
(* The frames are a way down the tree, and every node rendered stands      *)
(* before the position at which the last frame is; so the next one comes   *)
(* after all of them.  Behind the frames everything is rendered that is    *)
(* neither nil nor on its own trail: the path of a frame is what is on its *)
(* trail, but for what JSON forgot at a defined error, and that is not     *)
(* reached again if no cycle goes through a defined error.  All this until *)
(* the source of a frame panics: then the node is the last one.            *)
(***************************************************************************)
EXTENDS Rendering, SequenceTheorems, TLAPS

Step == [pos : Nat \ {0}, err : Errors]

Trail == Seq(Step)

Frames == [err : Errors, path : SUBSET Errors, trail : Trail, next : Nat \ {0}]

(* Whether the nodes below a node are rendered with it.                    *)
Descends(t) == IF t = <<>> THEN DescendsAtTop(request.root) ELSE DescendsBelow(ErrorAt(t))

(* Each frame but the first is for the cause its predecessor has just      *)
(* passed.                                                                 *)
WayInv ==
    /\ request \in Requests
    /\ stack \in Seq(Frames)
    /\ out \in Seq(ToSet(out))
    /\ Trails \subseteq Trail
    /\ stack # <<>> =>
           stack[1].trail = <<>> /\ stack[1].err = request.root /\ stack[1].path = {}
    /\ \A i \in DOMAIN stack : i + 1 \in DOMAIN stack =>
           /\ stack[i].next >= 2
           /\ stack[i + 1].trail =
                  Append(stack[i].trail, [pos |-> stack[i].next - 1, err |-> stack[i + 1].err])
    /\ \A i \in DOMAIN stack :
           LET f == stack[i]
           IN f.trail \in Trails /\ ErrorAt(f.trail) = f.err /\ Descends(f.trail)

(* t stands before the nodes below w at position n and behind.             *)
Behind(t, w, n) ==
    \/ Len(t) <= Len(w) /\ \A j \in DOMAIN t : t[j] = w[j]
    \/ \E i \in DOMAIN t \cap DOMAIN w :
           t[i].pos < w[i].pos /\ \A j \in 1 .. i - 1 : t[j] = w[j]
    \/ /\ Len(t) > Len(w)
       /\ t[Len(w) + 1].pos < n
       /\ \A j \in DOMAIN w : t[j] = w[j]

OrderInv ==
    /\ \A i, j \in DOMAIN out : i < j => Before(out[i].trail, out[j].trail)
    /\ stack # <<>> => \A t \in Trails : Behind(t, frame.trail, frame.next)

(* What is shown of a node is determined by its trail.                     *)
ShownInv ==
    \A i \in DOMAIN out :
        LET t == out[i].trail
        IN out[i].shows = IF t # <<>> THEN ShownBelow(ErrorAt(t))
                          ELSE IF mode \in {"nodes", "walk"} THEN Nothing
                          ELSE ShownAtTop(request.root)

On(t) == {t[j].err : j \in DOMAIN t}

(* A path holds what is on its trail, but for what is above a defined      *)
(* error in JSON.                                                          *)
PathInv ==
    \A i \in DOMAIN stack :
        LET f == stack[i]
        IN /\ f.path \subseteq On(f.trail)
           /\ \A j \in DOMAIN f.trail : f.trail[j].err \notin f.path =>
                  mode = "json" /\ \E k \in DOMAIN f.trail : k >= j /\ f.trail[k].err \in defined

(* e is in every set that holds the causes of d and theirs.                *)
Reached(d, e) ==
    \A C \in SUBSET Errors :
        /\ ToSet(causes(d)) \ {Nil} \subseteq C
        /\ \A c \in C : ToSet(causes(c)) \ {Nil} \subseteq C
        => e \in C

(* What is below is reached from above.                                    *)
ReachInv ==
    \A m \in DOMAIN stack :
        LET t == stack[m].trail
        IN \A i, j \in DOMAIN t : i < j => Reached(t[i].err, t[j].err)

(* The i-th cause of a node's error is behind the node's frame, if it has  *)
(* one.                                                                    *)
Passed(t, i) == \A n \in DOMAIN stack : t = stack[n].trail => i < stack[n].next

AllBuilt ==
    \A t \in Trails : \A i \in DOMAIN causes(ErrorAt(t)) :
        LET c == causes(ErrorAt(t))[i]
        IN Passed(t, i) /\ Descends(t) /\ c # Nil /\ ~ OnTrail(t, c) =>
               Append(t, [pos |-> i, err |-> c]) \in Trails

BuiltInv == BrokenOff \/ AllBuilt

(* Nothing comes after a node at which the rendering broke off.            *)
BreakInv ==
    \A i \in DOMAIN out :
        Breaks(ErrorAt(out[i].trail)) /\ out[i].shows # Own => i = Len(out) /\ stack = <<>>

Above(u) == SubSeq(u, 1, Len(u) - 1)

(* Nothing is rendered below itself, or where nothing is to be.            *)
OnlyInv ==
    \A u \in Trails \ {<<>>} : Descends(Above(u)) /\ ~ OnTrail(Above(u), ErrorAt(u))

RenderInv == WayInv /\ OrderInv /\ ShownInv /\ PathInv /\ ReachInv /\ BuiltInv /\ BreakInv

(* JSON of no tree with a cycle through a defined error.                   *)
Foreign == \A q \in Requests : q.mode = "json" => CyclesForeign(q)

-----------------------------------------------------------------------------
(* Trails                                                                  *)

LEMMA StepAppended ==
    ASSUME NEW t \in Trail, NEW s \in Step
    PROVE  /\ Append(t, s) \in Trail /\ Append(t, s) # <<>> /\ ErrorAt(Append(t, s)) = s.err
           /\ Len(t) \in Nat /\ Len(Append(t, s)) = Len(t) + 1
           /\ Append(t, s)[Len(t) + 1] = s
           /\ DOMAIN t = 1 .. Len(t) /\ DOMAIN Append(t, s) = 1 .. Len(t) + 1
           /\ \A i \in 1 .. Len(t) : Append(t, s)[i] = t[i]
           /\ Above(Append(t, s)) = t
<1> HIDE DEF Step
<1>1. /\ Append(t, s) \in Trail /\ Len(Append(t, s)) = Len(t) + 1
      /\ \A i \in 1 .. Len(t) : Append(t, s)[i] = t[i]
      /\ Append(t, s)[Len(t) + 1] = s /\ Len(t) \in Nat /\ DOMAIN t = 1 .. Len(t)
    BY AppendProperties, LenProperties DEF Trail
<1>2. DOMAIN Append(t, s) = 1 .. Len(t) + 1 /\ Append(t, s) # <<>>
    BY <1>1 DEF Trail
<1>3. Above(Append(t, s)) = t
    BY <1>1, <1>2 DEF Trail, Above
<1> QED
    BY <1>1, <1>2, <1>3 DEF ErrorAt, Last

LEMMA TrailTyped ==
    ASSUME NEW t \in Trail
    PROVE  /\ Len(t) \in Nat /\ DOMAIN t = 1 .. Len(t)
           /\ \A i \in DOMAIN t : t[i] \in Step /\ t[i].pos \in Nat \ {0} /\ t[i].err \in Errors
<1>1. Len(t) \in Nat /\ DOMAIN t = 1 .. Len(t)
    BY LenProperties DEF Trail
<1>2. \A i \in DOMAIN t : t[i] \in Step
    <2> HIDE DEF Step
    <2> QED
        BY <1>1 DEF Trail
<1> QED
    BY <1>1, <1>2 DEF Step

LEMMA SubSeqAgree ==
    ASSUME NEW t \in Trail, NEW u \in Trail, NEW n \in Nat, n <= Len(t), n <= Len(u),
           \A j \in 1 .. n : t[j] = u[j]
    PROVE  SubSeq(t, 1, n) = SubSeq(u, 1, n)
<1> HIDE DEF Step
<1> QED
    BY DEF Trail

(* What stands before a position stands before the node rendered there.    *)
LEMMA BehindIsBefore ==
    ASSUME NEW t \in Trail, NEW w \in Trail, NEW s \in Step, Behind(t, w, s.pos)
    PROVE  Before(t, Append(w, s))
<1> DEFINE v == Append(w, s)
<1>1. /\ v \in Trail /\ Len(w) \in Nat /\ Len(v) = Len(w) + 1 /\ v[Len(w) + 1] = s
      /\ DOMAIN w = 1 .. Len(w) /\ DOMAIN v = 1 .. Len(w) + 1
      /\ \A i \in 1 .. Len(w) : v[i] = w[i]
    BY StepAppended
<1>2. Len(t) \in Nat /\ DOMAIN t = 1 .. Len(t)
    BY TrailTyped
<1> HIDE DEF v
<1>3. CASE Len(t) <= Len(w) /\ \A j \in DOMAIN t : t[j] = w[j]
    <2>1. SubSeq(t, 1, Len(t)) = SubSeq(v, 1, Len(t))
        BY <1>1, <1>2, <1>3, SubSeqAgree
    <2>2. IsStrictPrefix(t, v)
        BY <1>1, <1>2, <1>3, <2>1 DEF IsStrictPrefix, IsPrefix
    <2> QED
        BY <2>2 DEF Before, v
<1>4. ASSUME NEW i \in DOMAIN t \cap DOMAIN w,
             t[i].pos < w[i].pos /\ \A j \in 1 .. i - 1 : t[j] = w[j]
      PROVE  Before(t, v)
    <2>1. i \in DOMAIN t \cap DOMAIN v /\ t[i].pos < v[i].pos
        BY <1>1, <1>2, <1>4
    <2>2. SubSeq(t, 1, i - 1) = SubSeq(v, 1, i - 1)
        <3>1. i - 1 \in Nat /\ i - 1 <= Len(t) /\ i - 1 <= Len(v) /\ i - 1 <= Len(w)
            BY <1>1, <1>2
        <3>2. \A j \in 1 .. i - 1 : t[j] = v[j]
            BY <1>1, <1>2, <1>4, <3>1
        <3> QED
            BY <1>1, <3>1, <3>2, SubSeqAgree
    <2> QED
        BY <2>1, <2>2 DEF Before
<1>5. CASE Len(t) > Len(w) /\ t[Len(w) + 1].pos < s.pos /\ \A j \in DOMAIN w : t[j] = w[j]
    <2> DEFINE i == Len(w) + 1
    <2>1. i \in DOMAIN t \cap DOMAIN v /\ t[i].pos < v[i].pos
        BY <1>1, <1>2, <1>5
    <2>2. SubSeq(t, 1, i - 1) = SubSeq(v, 1, i - 1)
        <3>1. i - 1 = Len(w) /\ Len(w) <= Len(t) /\ Len(w) <= Len(v)
            BY <1>1, <1>2, <1>5
        <3>2. \A j \in 1 .. Len(w) : t[j] = v[j]
            BY <1>1, <1>5
        <3>3. SubSeq(t, 1, Len(w)) = SubSeq(v, 1, Len(w))
            BY <1>1, <3>1, <3>2, SubSeqAgree
        <3> QED
            BY <3>1, <3>3
    <2> HIDE DEF i
    <2> QED
        BY <2>1, <2>2 DEF Before, v
<1> QED
    BY <1>3, <1>4, <1>5 DEF Behind, v

(* It also stands before the next position, and before what is below.      *)
LEMMA BehindDown ==
    ASSUME NEW t \in Trail, NEW w \in Trail, NEW s \in Step, Behind(t, w, s.pos)
    PROVE  Behind(t, w, s.pos + 1) /\ Behind(t, Append(w, s), 1)
<1> DEFINE v == Append(w, s)
<1>1. /\ v \in Trail /\ Len(w) \in Nat /\ Len(v) = Len(w) + 1 /\ v[Len(w) + 1] = s
      /\ DOMAIN w = 1 .. Len(w) /\ DOMAIN v = 1 .. Len(w) + 1
      /\ \A i \in 1 .. Len(w) : v[i] = w[i] /\ s.pos \in Nat
    BY StepAppended DEF Step
<1>2. Len(t) \in Nat /\ DOMAIN t = 1 .. Len(t) /\ \A i \in DOMAIN t : t[i].pos \in Nat
    BY TrailTyped
<1>3. s.pos \in Nat
    BY DEF Step
<1> HIDE DEF v
<1>4. CASE Len(t) <= Len(w) /\ \A j \in DOMAIN t : t[j] = w[j]
    BY <1>1, <1>2, <1>4 DEF Behind, v
<1>5. ASSUME NEW i \in DOMAIN t \cap DOMAIN w,
             t[i].pos < w[i].pos /\ \A j \in 1 .. i - 1 : t[j] = w[j]
      PROVE  Behind(t, w, s.pos + 1) /\ Behind(t, v, 1)
    <2>1. i \in DOMAIN t \cap DOMAIN v /\ t[i].pos < v[i].pos /\ \A j \in 1 .. i - 1 : t[j] = v[j]
        BY <1>1, <1>2, <1>5
    <2> QED
        BY <1>5, <2>1 DEF Behind
<1>6. CASE Len(t) > Len(w) /\ t[Len(w) + 1].pos < s.pos /\ \A j \in DOMAIN w : t[j] = w[j]
    <2>1. Len(w) + 1 \in DOMAIN t \cap DOMAIN v /\ t[Len(w) + 1].pos < v[Len(w) + 1].pos
        BY <1>1, <1>2, <1>6
    <2>2. \A j \in 1 .. (Len(w) + 1) - 1 : t[j] = v[j]
        BY <1>1, <1>6
    <2>3. Behind(t, v, 1)
        BY <2>1, <2>2 DEF Behind
    <2>4. t[Len(w) + 1].pos < s.pos + 1
        BY <1>2, <1>3, <1>6, <2>1
    <2> QED
        BY <1>6, <2>3, <2>4 DEF Behind, v
<1> QED
    BY <1>4, <1>5, <1>6 DEF Behind, v

LEMMA BehindItself ==
    ASSUME NEW w \in Trail, NEW s \in Step
    PROVE  Behind(Append(w, s), Append(w, s), 1) /\ Behind(Append(w, s), w, s.pos + 1)
<1> DEFINE v == Append(w, s)
<1>1. /\ v \in Trail /\ Len(w) \in Nat /\ Len(v) = Len(w) + 1 /\ v[Len(w) + 1] = s
      /\ DOMAIN w = 1 .. Len(w) /\ DOMAIN v = 1 .. Len(w) + 1
      /\ \A i \in 1 .. Len(w) : v[i] = w[i]
    BY StepAppended
<1>2. s.pos \in Nat
    BY DEF Step
<1> HIDE DEF v
<1> QED
    BY <1>1, <1>2 DEF Behind, v

(* What stood before the end of a node stands before the position behind it. *)
LEMMA BehindUp ==
    ASSUME NEW t \in Trail, NEW w \in Trail, NEW s \in Step, NEW n \in Nat,
           Behind(t, Append(w, s), n)
    PROVE  Behind(t, w, s.pos + 1)
<1> DEFINE v == Append(w, s)
<1>1. /\ v \in Trail /\ Len(w) \in Nat /\ Len(v) = Len(w) + 1 /\ v[Len(w) + 1] = s
      /\ DOMAIN w = 1 .. Len(w) /\ DOMAIN v = 1 .. Len(w) + 1
      /\ \A i \in 1 .. Len(w) : v[i] = w[i]
    BY StepAppended
<1>2. Len(t) \in Nat /\ DOMAIN t = 1 .. Len(t) /\ \A i \in DOMAIN t : t[i].pos \in Nat
    BY TrailTyped
<1>3. s.pos \in Nat /\ s.pos < s.pos + 1
    BY DEF Step
<1> HIDE DEF v
<1>4. ASSUME Len(t) > Len(w), \A j \in DOMAIN w : t[j] = w[j], t[Len(w) + 1].pos <= s.pos
      PROVE  Behind(t, w, s.pos + 1)
    <2>1. Len(w) + 1 \in DOMAIN t
        BY <1>1, <1>2, <1>4
    <2>2. t[Len(w) + 1].pos < s.pos + 1
        BY <1>2, <1>3, <1>4, <2>1
    <2> QED
        BY <1>4, <2>2 DEF Behind
<1>5. CASE Len(t) <= Len(v) /\ \A j \in DOMAIN t : t[j] = v[j]
    <2>1. CASE Len(t) <= Len(w)
        BY <1>1, <1>2, <1>5, <2>1 DEF Behind
    <2>2. CASE Len(t) > Len(w)
        <3>1. Len(w) + 1 \in DOMAIN t /\ t[Len(w) + 1].pos = s.pos
            BY <1>1, <1>2, <1>5, <2>2
        <3>2. \A j \in DOMAIN w : t[j] = w[j]
            BY <1>1, <1>2, <1>5, <2>2
        <3> QED
            BY <1>3, <1>4, <2>2, <3>1, <3>2
    <2> QED
        BY <1>1, <1>2, <2>1, <2>2
<1>6. ASSUME NEW i \in DOMAIN t \cap DOMAIN v,
             t[i].pos < v[i].pos /\ \A j \in 1 .. i - 1 : t[j] = v[j]
      PROVE  Behind(t, w, s.pos + 1)
    <2>1. CASE i \in DOMAIN w
        <3>1. t[i].pos < w[i].pos /\ \A j \in 1 .. i - 1 : t[j] = w[j]
            BY <1>1, <1>6, <2>1
        <3> QED
            BY <2>1, <3>1 DEF Behind
    <2>2. CASE i \notin DOMAIN w
        <3>1. i = Len(w) + 1
            BY <1>1, <2>2
        <3>2. t[Len(w) + 1].pos < s.pos /\ Len(t) > Len(w) /\ \A j \in DOMAIN w : t[j] = w[j]
            BY <1>1, <1>2, <1>6, <3>1
        <3>3. t[Len(w) + 1].pos <= s.pos
            BY <1>2, <1>3, <3>1, <3>2
        <3> QED
            BY <1>4, <3>2, <3>3
    <2> QED
        BY <2>1, <2>2
<1>7. CASE Len(t) > Len(v) /\ t[Len(v) + 1].pos < n /\ \A j \in DOMAIN v : t[j] = v[j]
    <2>1. t[Len(w) + 1] = s /\ Len(t) > Len(w) /\ \A j \in DOMAIN w : t[j] = w[j]
        BY <1>1, <1>2, <1>7
    <2> QED
        BY <1>3, <1>4, <2>1
<1> QED
    BY <1>5, <1>6, <1>7 DEF Behind, v

-----------------------------------------------------------------------------
(* What a step does                                                        *)

LEMMA RequestTyped ==
    ASSUME WayInv
    PROVE  /\ Nil \notin Errors /\ mode \in Modes /\ request.root \in Errors /\ defined \subseteq Errors
           /\ \A e \in Errors : causes(e) \in Seq(Errors \cup {Nil})
           /\ \A e \in Errors : DOMAIN causes(e) \subseteq Nat \ {0}
           /\ \A e \in Errors : \A i \in DOMAIN causes(e) : causes(e)[i] \in Errors \cup {Nil}
<1>1. /\ Nil \notin Errors /\ mode \in Modes /\ request.root \in Errors /\ defined \subseteq Errors
      /\ \A e \in Errors : causes(e) \in Seq(Errors \cup {Nil})
    BY RequestsAssumption DEF WayInv, mode, defined, causes
<1>2. \A e \in Errors : /\ DOMAIN causes(e) \subseteq Nat \ {0}
                        /\ \A i \in DOMAIN causes(e) : causes(e)[i] \in Errors \cup {Nil}
    BY <1>1
<1> QED
    BY <1>1, <1>2

LEMMA FrameTyped ==
    ASSUME WayInv, NEW i \in DOMAIN stack
    PROVE  /\ stack[i] \in Frames /\ stack[i].err \in Errors /\ stack[i].path \subseteq Errors
           /\ stack[i].trail \in Trail /\ stack[i].next \in Nat \ {0}
           /\ i \in 1 .. Len(stack) /\ Len(stack) \in Nat
<1>1. stack \in Seq(Frames)
    BY DEF WayInv
<1> HIDE DEF Frames
<1>2. stack[i] \in Frames /\ i \in 1 .. Len(stack) /\ Len(stack) \in Nat
    BY <1>1
<1> QED
    BY <1>2 DEF Frames

LEMMA TopFrame ==
    ASSUME WayInv, stack # <<>>
    PROVE  /\ Len(stack) \in DOMAIN stack /\ Len(stack) \in Nat \ {0} /\ frame = stack[Len(stack)]
           /\ frame \in Frames /\ frame.err \in Errors /\ frame.path \subseteq Errors
           /\ frame.trail \in Trail /\ frame.next \in Nat \ {0}
           /\ frame.trail \in Trails /\ ErrorAt(frame.trail) = frame.err /\ Descends(frame.trail)
<1>1. Len(stack) \in DOMAIN stack /\ Len(stack) \in Nat \ {0}
    BY DEF WayInv
<1>2. frame = stack[Len(stack)]
    BY DEF frame
<1>3. frame.trail \in Trails /\ ErrorAt(frame.trail) = frame.err /\ Descends(frame.trail)
    BY <1>1, <1>2 DEF WayInv
<1> QED
    BY <1>1, <1>2, <1>3, FrameTyped

LEMMA CauseTyped ==
    ASSUME WayInv, HasNext
    PROVE  /\ stack # <<>> /\ position = frame.next /\ position \in DOMAIN causes(frame.err)
           /\ cause = causes(frame.err)[position] /\ cause \in Errors \cup {Nil}
           /\ cause # Nil => cause \in ToSet(causes(frame.err)) \ {Nil}
<1>1. stack # <<>> /\ position = frame.next /\ cause = causes(frame.err)[position]
    BY DEF HasNext, position, cause
<1>2. causes(frame.err) \in Seq(Errors \cup {Nil}) /\ frame.next \in Nat \ {0}
    BY <1>1, TopFrame, RequestTyped
<1>3. position \in DOMAIN causes(frame.err)
    BY <1>1, <1>2 DEF HasNext
<1> QED
    BY <1>1, <1>2, <1>3 DEF ToSet

LEMMA AdvancedEffect ==
    ASSUME WayInv, stack # <<>>
    PROVE  /\ Advanced \in Seq(Frames) /\ Len(Advanced) = Len(stack)
           /\ DOMAIN Advanced = DOMAIN stack
           /\ \A i \in DOMAIN stack : /\ Advanced[i].err = stack[i].err
                                      /\ Advanced[i].path = stack[i].path
                                      /\ Advanced[i].trail = stack[i].trail
                                      /\ i # Len(stack) => Advanced[i] = stack[i]
           /\ Advanced[Len(stack)].next = frame.next + 1
<1> DEFINE top == [stack[Len(stack)] EXCEPT !.next = @ + 1]
<1>1. stack \in Seq(Frames) /\ Len(stack) \in DOMAIN stack /\ frame \in Frames
    BY TopFrame DEF WayInv
<1>2. top \in Frames
    <2>1. \A f \in Frames : [f EXCEPT !.next = @ + 1] \in Frames
        BY DEF Frames
    <2> QED
        BY <1>1, <2>1 DEF frame
<1>3. /\ top.err = frame.err /\ top.path = frame.path /\ top.trail = frame.trail
      /\ top.next = frame.next + 1
    BY <1>1 DEF frame, Frames
<1>4. Advanced = [stack EXCEPT ![Len(stack)] = top]
    BY DEF Advanced
<1> HIDE DEF top, Frames
<1>5. Advanced \in Seq(Frames) /\ Len(Advanced) = Len(stack) /\ DOMAIN Advanced = DOMAIN stack
    BY <1>1, <1>2, <1>4
<1> QED
    BY <1>1, <1>3, <1>4, <1>5 DEF frame

LEMMA OutAppended ==
    ASSUME NEW s, s \in Seq(ToSet(s)), NEW r
    PROVE  /\ Append(s, r) \in Seq(ToSet(Append(s, r)))
           /\ Len(s) \in Nat /\ DOMAIN s = 1 .. Len(s) /\ DOMAIN Append(s, r) = 1 .. Len(s) + 1
           /\ \A i \in DOMAIN s : Append(s, r)[i] = s[i]
           /\ Append(s, r)[Len(s) + 1] = r
<1> DEFINE R == ToSet(s) \cup {r}
           v == Append(s, r)
<1>1. s \in Seq(R) /\ r \in R
    BY SeqMonotonic
<1> HIDE DEF R
<1>2. /\ v \in Seq(R) /\ Len(v) = Len(s) + 1 /\ Len(s) \in Nat /\ DOMAIN s = 1 .. Len(s)
      /\ \A i \in 1 .. Len(s) : v[i] = s[i]
      /\ v[Len(s) + 1] = r
    BY <1>1, AppendProperties, LenProperties
<1> HIDE DEF v
<1>3. DOMAIN v = 1 .. Len(s) + 1
    BY <1>2
<1>4. v \in Seq(ToSet(v))
    BY <1>2 DEF ToSet
<1> QED
    BY <1>2, <1>3, <1>4 DEF v

(* The rest of the shown, when the request is the same.                    *)
LEMMA RequestKept ==
    ASSUME request' = request
    PROVE  /\ mode' = mode /\ defined' = defined
           /\ \A e : causes(e)' = causes(e)
           /\ \A e : DescendsAtTop(e)' <=> DescendsAtTop(e)
           /\ \A e : DescendsBelow(e)' <=> DescendsBelow(e)
           /\ \A t : ErrorAt(t)' = ErrorAt(t)
           /\ \A t : Descends(t)' <=> Descends(t)
           /\ \A e : ShownAtTop(e)' = ShownAtTop(e)
           /\ \A e : ShownBelow(e)' = ShownBelow(e)
           /\ \A e : Breaks(e)' <=> Breaks(e)
           /\ \A d, e : Reached(d, e)' <=> Reached(d, e)
<1>1. mode' = mode /\ defined' = defined /\ \A e : causes(e)' = causes(e)
    BY DEF mode, defined, causes
<1>2. \A e : TakesOver(e)' <=> TakesOver(e)
    BY <1>1 DEF TakesOver, ownOption
<1>3. \A e : DescendsAtTop(e)' <=> DescendsAtTop(e)
    BY <1>1, <1>2 DEF DescendsAtTop
<1>4. \A e : DescendsBelow(e)' <=> DescendsBelow(e)
    BY <1>1, <1>2 DEF DescendsBelow
<1>5. \A t : ErrorAt(t)' = ErrorAt(t)
    BY DEF ErrorAt
<1>6. \A t : Descends(t)' <=> Descends(t)
    BY <1>1, <1>2, <1>5 DEF Descends, DescendsAtTop, DescendsBelow
<1>7. \A e : /\ formatErrorDetails(e)' = formatErrorDetails(e) /\ jsonErrorData(e)' = jsonErrorData(e)
             /\ jsonCauseData(e)' = jsonCauseData(e) /\ nodeLogValue(e)' = nodeLogValue(e)
             /\ MakeErrorLogValue(e)' = MakeErrorLogValue(e)
    BY DEF formatErrorDetails, jsonErrorData, jsonCauseData, nodeLogValue, MakeErrorLogValue
<1>8. \A e : ShownAtTop(e)' = ShownAtTop(e)
    BY <1>1, <1>2, <1>7 DEF ShownAtTop
<1>9. \A e : ShownBelow(e)' = ShownBelow(e)
    BY <1>1, <1>7, <1>8 DEF ShownBelow
<1>10. \A d, e : Reached(d, e)' <=> Reached(d, e)
    BY <1>1 DEF Reached
<1>11. \A e : Breaks(e)' <=> Breaks(e)
    BY <1>1 DEF Breaks
<1> QED
    BY <1>1, <1>3, <1>4, <1>5, <1>6, <1>8, <1>9, <1>10, <1>11

LEMMA StartEffect ==
    ASSUME WayInv, Start
    PROVE  /\ stack = <<>> /\ out = <<>> /\ request' = request /\ Trails = {} /\ Trails' = {<<>>}
           /\ out' = <<[trail |-> <<>>, shows |-> IF mode \in {"nodes", "walk"} THEN Nothing
                                                  ELSE ShownAtTop(request.root)]>>
           /\ \/ stack' = <<>> /\ (DescendsAtTop(request.root) => Breaks(request.root))
              \/ /\ stack' = <<Frame(request.root, {}, <<>>)>>
                 /\ DescendsAtTop(request.root) /\ ~ Breaks(request.root)
<1>1. /\ stack = <<>> /\ out = <<>> /\ request' = request
      /\ out' = <<[trail |-> <<>>, shows |-> IF mode \in {"nodes", "walk"} THEN Nothing
                                             ELSE ShownAtTop(request.root)]>>
      /\ stack' = IF DescendsAtTop(request.root) /\ ~ Breaks(request.root)
                  THEN <<Frame(request.root, {}, <<>>)>> ELSE <<>>
    BY DEF Start
<1>2. DOMAIN out' = {1} /\ out'[1].trail = <<>> /\ DOMAIN out = {}
    BY <1>1
<1>3. Trails = {} /\ Trails' = {<<>>}
    BY <1>2 DEF Trails
<1> QED
    BY <1>1, <1>3

LEMMA SkipEffect ==
    ASSUME WayInv, Skip
    PROVE  /\ stack # <<>> /\ stack' \in Seq(Frames)
           /\ Len(stack') = Len(stack) /\ DOMAIN stack' = DOMAIN stack
           /\ \A i \in DOMAIN stack : /\ stack'[i].err = stack[i].err
                                      /\ stack'[i].path = stack[i].path
                                      /\ stack'[i].trail = stack[i].trail
                                      /\ i # Len(stack) => stack'[i] = stack[i]
           /\ stack'[Len(stack)].next = frame.next + 1
           /\ request' = request /\ out' = out /\ Trails' = Trails
<1>1. stack # <<>> /\ stack' = Advanced /\ request' = request /\ out' = out
    BY DEF Skip, HasNext
<1> QED
    BY <1>1, AdvancedEffect DEF Trails

(* The step to a cause that is rendered, and the trail of the cause.       *)
NodeStep(s, w) ==
    /\ stack # <<>> /\ HasNext /\ cause \in Errors /\ cause # Nil /\ ~ OnPath
    /\ frame.trail \in Trail /\ w = Append(frame.trail, s)
    /\ s \in Step /\ s.err = cause /\ s.pos = frame.next
    /\ w \in Trail /\ w # <<>> /\ ErrorAt(w) = cause
    /\ request' = request /\ out' = Append(out, [trail |-> w, shows |-> ShownBelow(cause)])
    /\ Trails' = Trails \cup {w}

LEMMA NodeEffect ==
    ASSUME WayInv, HasNext, cause # Nil, ~ OnPath, request' = request, NEW s, NEW w,
           s = [pos |-> frame.next, err |-> cause], w = Append(frame.trail, s),
           out' = Append(out, [trail |-> w, shows |-> ShownBelow(cause)])
    PROVE  NodeStep(s, w)
<1>1. stack # <<>>
    BY DEF HasNext
<1>2. cause \in Errors /\ frame.next \in Nat \ {0} /\ frame.trail \in Trail
    BY <1>1, TopFrame, CauseTyped
<1>3. s \in Step /\ s.err = cause /\ s.pos = frame.next
    BY <1>2 DEF Step
<1>4. w \in Trail /\ w # <<>> /\ ErrorAt(w) = cause
    BY <1>2, <1>3, StepAppended
<1>5. Trails' = Trails \cup {w}
    <2> DEFINE r == [trail |-> w, shows |-> ShownBelow(cause)]
    <2>1. out \in Seq(ToSet(out))
        BY DEF WayInv
    <2>2. r.trail = w /\ out' = Append(out, r)
        OBVIOUS
    <2> HIDE DEF r
    <2>3. /\ DOMAIN out = 1 .. Len(out) /\ DOMAIN out' = 1 .. Len(out) + 1 /\ Len(out) \in Nat
          /\ \A i \in DOMAIN out : out'[i] = out[i]
          /\ out'[Len(out) + 1] = r
        BY <2>1, <2>2, OutAppended
    <2>4. \A i \in DOMAIN out' : i \in DOMAIN out \/ i = Len(out) + 1
        BY <2>3
    <2>5. DOMAIN out \subseteq DOMAIN out' /\ Len(out) + 1 \in DOMAIN out'
        BY <2>3
    <2> QED
        BY <2>2, <2>3, <2>4, <2>5 DEF Trails
<1> QED
    BY <1>1, <1>2, <1>3, <1>4, <1>5 DEF NodeStep

LEMMA BreakEffect ==
    ASSUME WayInv, Break
    PROVE  stack' = <<>> /\ Breaks(cause) /\ \E s, w : NodeStep(s, w)
<1>1. PICK s : s = [pos |-> frame.next, err |-> cause]
    OBVIOUS
<1>2. PICK w : w = Append(frame.trail, s)
    OBVIOUS
<1>3. /\ HasNext /\ cause # Nil /\ ~ OnPath /\ request' = request
      /\ stack' = <<>> /\ Breaks(cause)
      /\ out' = Append(out, [trail |-> w, shows |-> ShownBelow(cause)])
    BY <1>1, <1>2 DEF Break, trailBelow, position
<1>4. NodeStep(s, w)
    BY <1>1, <1>2, <1>3, NodeEffect
<1> QED
    BY <1>3, <1>4

(* The node w is rendered, which s leads to from the last of N frames.     *)
ShowStep(N, s, w) ==
    /\ NodeStep(s, w)
    /\ N = Len(stack) /\ N \in DOMAIN stack /\ N \in Nat \ {0}
    /\ stack' \in Seq(Frames)
    /\ \A i \in DOMAIN stack : /\ i \in DOMAIN stack' /\ stack'[i].err = stack[i].err
                               /\ stack'[i].path = stack[i].path
                               /\ stack'[i].trail = stack[i].trail
                               /\ i # N => stack'[i] = stack[i]
    /\ stack'[N].next = frame.next + 1
    /\ \/ ~ DescendsBelow(cause) /\ Len(stack') = N
       \/ DescendsBelow(cause) /\ Len(stack') = N + 1
    /\ Len(stack') = N + 1 => stack'[N + 1] = Frame(cause, pathBelow(cause), w)
    /\ \A i \in DOMAIN stack' : i \in DOMAIN stack \/ (i = N + 1 /\ i = Len(stack'))

LEMMA ShowEffect ==
    ASSUME WayInv, Show
    PROVE  \E N, s, w : ShowStep(N, s, w)
<1>a. PICK N : N = Len(stack)
    OBVIOUS
<1>b. PICK s : s = [pos |-> frame.next, err |-> cause]
    OBVIOUS
<1>c. PICK w : w = Append(frame.trail, s)
    OBVIOUS
<1> SUFFICES ShowStep(N, s, w)
    OBVIOUS
<1>1. /\ stack # <<>> /\ HasNext /\ cause # Nil /\ ~ OnPath /\ request' = request
      /\ position = frame.next
      /\ out' = Append(out, [trail |-> w, shows |-> ShownBelow(cause)])
      /\ stack' = IF DescendsBelow(cause) THEN Append(Advanced, Frame(cause, pathBelow(cause), w))
                  ELSE Advanced
    BY <1>b, <1>c DEF Show, HasNext, trailBelow, position
<1>2. /\ N \in DOMAIN stack /\ N \in Nat \ {0} /\ cause \in Errors /\ frame.next \in Nat \ {0}
      /\ frame.trail \in Trail /\ frame.path \subseteq Errors /\ stack \in Seq(Frames)
    BY <1>1, <1>a, TopFrame, CauseTyped DEF WayInv
<1>4. NodeStep(s, w)
    BY <1>1, <1>b, <1>c, NodeEffect
<1>5. /\ w \in Trail /\ w # <<>> /\ ErrorAt(w) = cause /\ Trails' = Trails \cup {w}
      /\ frame.trail \in Trail
    BY <1>4 DEF NodeStep
<1>6. Frame(cause, pathBelow(cause), w) \in Frames
    <2>1. pathBelow(cause) \subseteq Errors
        BY <1>2 DEF pathBelow
    <2> QED
        BY <1>2, <1>5, <2>1 DEF Frame, Frames
<1>7. /\ Advanced \in Seq(Frames) /\ Len(Advanced) = N /\ DOMAIN Advanced = DOMAIN stack
      /\ \A i \in DOMAIN stack : /\ Advanced[i].err = stack[i].err
                                 /\ Advanced[i].path = stack[i].path
                                 /\ Advanced[i].trail = stack[i].trail
                                 /\ i # N => Advanced[i] = stack[i]
      /\ Advanced[N].next = frame.next + 1
    BY <1>1, <1>a, AdvancedEffect
<1>8. DOMAIN stack = 1 .. N
    BY <1>2, <1>a
<1> HIDE DEF Frames
<1>9. CASE DescendsBelow(cause)
    <2> DEFINE f == Frame(cause, pathBelow(cause), w)
    <2>1. stack' = Append(Advanced, f)
        BY <1>1, <1>9
    <2> HIDE DEF f
    <2>2. /\ stack' \in Seq(Frames) /\ Len(stack') = N + 1 /\ stack'[N + 1] = f
          /\ \A i \in 1 .. N : stack'[i] = Advanced[i]
          /\ DOMAIN stack' = 1 .. N + 1
        BY <1>2, <1>6, <1>7, <2>1, AppendProperties, LenProperties DEF f
    <2>3. \A i \in DOMAIN stack' : i \in DOMAIN stack \/ (i = N + 1 /\ i = Len(stack'))
        BY <1>2, <1>8, <2>2
    <2>4. \A i \in DOMAIN stack : i \in DOMAIN stack' /\ stack'[i] = Advanced[i]
        BY <1>2, <1>8, <2>2
    <2> QED
        BY <1>1, <1>2, <1>4, <1>7, <1>9, <1>a, <2>2, <2>3, <2>4 DEF f, ShowStep
<1>10. CASE ~ DescendsBelow(cause)
    <2>1. stack' = Advanced
        BY <1>1, <1>10
    <2>2. Len(stack') = N /\ Len(stack') # N + 1 /\ stack' \in Seq(Frames)
        BY <1>2, <1>7, <2>1
    <2>3. \A i \in DOMAIN stack' : i \in DOMAIN stack \/ (i = N + 1 /\ i = Len(stack'))
        BY <1>7, <2>1
    <2>4. \A i \in DOMAIN stack : i \in DOMAIN stack' /\ stack'[i] = Advanced[i]
        BY <1>7, <2>1
    <2>5. stack'[N].next = frame.next + 1
        BY <1>7, <2>1
    <2> QED
        BY <1>1, <1>2, <1>4, <1>7, <1>10, <1>a, <2>2, <2>3, <2>4, <2>5 DEF ShowStep
<1> QED
    BY <1>9, <1>10

LEMMA LeaveEffect ==
    ASSUME WayInv, Leave
    PROVE  /\ stack # <<>> /\ stack' \in Seq(Frames) /\ Len(stack') = Len(stack) - 1
           /\ \A i \in DOMAIN stack' : i \in DOMAIN stack /\ i # Len(stack) /\ stack'[i] = stack[i]
           /\ \A i \in DOMAIN stack : i # Len(stack) => i \in DOMAIN stack'
           /\ request' = request /\ out' = out /\ Trails' = Trails
<1>1. /\ stack # <<>> /\ stack' = SubSeq(stack, 1, Len(stack) - 1) /\ stack \in Seq(Frames)
      /\ request' = request /\ out' = out
    BY DEF Leave, WayInv
<1> HIDE DEF Frames
<1>2. Len(stack) \in Nat \ {0} /\ DOMAIN stack = 1 .. Len(stack)
    BY <1>1
<1>3. /\ stack' \in Seq(Frames) /\ Len(stack') = Len(stack) - 1
      /\ \A i \in 1 .. Len(stack) - 1 : stack'[i] = stack[i]
      /\ DOMAIN stack' = 1 .. Len(stack) - 1
    BY <1>1, <1>2, SubSeqProperties
<1> QED
    BY <1>1, <1>2, <1>3 DEF Trails

-----------------------------------------------------------------------------
(* The way down                                                            *)

LEMMA InitWay == Init => WayInv /\ OrderInv /\ ShownInv
<1> SUFFICES ASSUME Init PROVE WayInv /\ OrderInv /\ ShownInv
    OBVIOUS
<1>1. request \in Requests /\ stack = <<>> /\ out = <<>> /\ DOMAIN stack = {} /\ DOMAIN out = {}
    BY DEF Init
<1>2. Trails = {}
    BY <1>1 DEF Trails
<1>3. stack \in Seq(Frames) /\ out \in Seq(ToSet(out))
    BY <1>1
<1> QED
    BY <1>1, <1>2, <1>3 DEF WayInv, OrderInv, ShownInv

LEMMA WayStart == WayInv /\ Start => WayInv'
<1> SUFFICES ASSUME WayInv, Start PROVE WayInv'
    OBVIOUS
<1>1. /\ request' = request /\ Trails' = {<<>>}
      /\ \/ stack' = <<>>
         \/ stack' = <<Frame(request.root, {}, <<>>)>> /\ DescendsAtTop(request.root)
    BY StartEffect
<1>2. out' \in Seq(ToSet(out'))
    <2> DEFINE r == [trail |-> <<>>, shows |-> IF mode \in {"nodes", "walk"} THEN Nothing
                                               ELSE ShownAtTop(request.root)]
    <2>1. out' = <<r>>
        BY StartEffect
    <2> HIDE DEF r
    <2>2. r \in ToSet(out')
        BY <2>1 DEF ToSet
    <2> QED
        BY <2>1, <2>2
<1>3. <<>> \in Trail /\ request.root \in Errors
    BY RequestTyped DEF Trail
<1>4. CASE stack' = <<>>
    BY <1>1, <1>2, <1>3, <1>4 DEF WayInv
<1>5. CASE stack' = <<Frame(request.root, {}, <<>>)>> /\ DescendsAtTop(request.root)
    <2> DEFINE f == Frame(request.root, {}, <<>>)
    <2>1. /\ f \in Frames /\ f.trail = <<>> /\ f.err = request.root /\ f.path = {} /\ f.next = 1
        BY <1>3 DEF Frame, Frames
    <2> HIDE DEF f
    <2>2. stack' = <<f>> /\ stack' \in Seq(Frames) /\ DOMAIN stack' = {1} /\ stack'[1] = f
        BY <1>5, <2>1 DEF f
    <2>3. ErrorAt(<<>>) = request.root /\ Descends(<<>>)
        BY <1>5 DEF ErrorAt, Descends
    <2>4. \A i \in DOMAIN stack' : LET g == stack[i]
              IN (g.trail \in Trails /\ ErrorAt(g.trail) = g.err /\ Descends(g.trail))'
        BY <1>1, <1>5, <2>1, <2>2
        DEF Descends, ErrorAt, DescendsAtTop, TakesOver, ownOption, mode, defined
    <2>5. request' \in Requests /\ Trails' \subseteq Trail
        BY <1>1, <1>3 DEF WayInv
    <2>6. \A i \in DOMAIN stack' : i + 1 \notin DOMAIN stack'
        BY <2>2
    <2>7. stack'[1].trail = <<>> /\ stack'[1].err = request'.root /\ stack'[1].path = {}
        BY <1>1, <2>1, <2>2
    <2> QED
        BY <1>2, <2>2, <2>4, <2>5, <2>6, <2>7 DEF WayInv
<1> QED
    BY <1>1, <1>4, <1>5

(* The frames kept lead to the nodes they led to.                          *)
LEMMA FramesKept ==
    ASSUME WayInv, request' = request, Trails \subseteq Trails',
           NEW i \in DOMAIN stack, stack'[i].trail = stack[i].trail, stack'[i].err = stack[i].err
    PROVE  LET f == stack[i]
           IN (f.trail \in Trails /\ ErrorAt(f.trail) = f.err /\ Descends(f.trail))'
<1>1. LET f == stack[i] IN f.trail \in Trails /\ ErrorAt(f.trail) = f.err /\ Descends(f.trail)
    BY DEF WayInv
<1> QED
    BY <1>1 DEF Descends, ErrorAt, DescendsAtTop, DescendsBelow, TakesOver, ownOption, mode, defined

LEMMA WaySkip == WayInv /\ Skip => WayInv'
<1> SUFFICES ASSUME WayInv, Skip PROVE WayInv'
    OBVIOUS
<1>0. PICK N : N = Len(stack)
    OBVIOUS
<1>1. /\ stack # <<>> /\ stack' \in Seq(Frames)
      /\ Len(stack') = N /\ DOMAIN stack' = DOMAIN stack
      /\ \A i \in DOMAIN stack : /\ stack'[i].err = stack[i].err
                                 /\ stack'[i].path = stack[i].path
                                 /\ stack'[i].trail = stack[i].trail
                                 /\ i # N => stack'[i] = stack[i]
      /\ request' = request /\ out' = out /\ Trails' = Trails
    BY <1>0, SkipEffect
<1>2. \A i \in DOMAIN stack' : LET f == stack[i]
          IN (f.trail \in Trails /\ ErrorAt(f.trail) = f.err /\ Descends(f.trail))'
    BY <1>1, FramesKept
<1>3. 1 \in DOMAIN stack /\ \A i \in DOMAIN stack : i + 1 \in DOMAIN stack => i # N
    BY <1>0, <1>1 DEF WayInv
<1>4. request' \in Requests /\ out' \in Seq(ToSet(out')) /\ Trails' \subseteq Trail
    BY <1>1 DEF WayInv
<1>5. stack'[1].trail = <<>> /\ stack'[1].err = request'.root /\ stack'[1].path = {}
    BY <1>1, <1>3 DEF WayInv
<1>6. ASSUME NEW i \in DOMAIN stack', i + 1 \in DOMAIN stack'
      PROVE  /\ stack'[i].next >= 2
             /\ stack'[i + 1].trail =
                    Append(stack'[i].trail, [pos |-> stack'[i].next - 1, err |-> stack'[i + 1].err])
    <2>1. i \in DOMAIN stack /\ i + 1 \in DOMAIN stack /\ i # N
        BY <1>1, <1>3, <1>6
    <2>2. /\ stack[i].next >= 2
          /\ stack[i + 1].trail =
                 Append(stack[i].trail, [pos |-> stack[i].next - 1, err |-> stack[i + 1].err])
        BY <2>1 DEF WayInv
    <2>3. /\ stack'[i] = stack[i] /\ stack'[i + 1].trail = stack[i + 1].trail
          /\ stack'[i + 1].err = stack[i + 1].err
        BY <1>1, <2>1
    <2> QED
        BY <2>2, <2>3
<1> QED
    BY <1>1, <1>2, <1>4, <1>5, <1>6 DEF WayInv

LEMMA WayLeave == WayInv /\ Leave => WayInv'
<1> SUFFICES ASSUME WayInv, Leave PROVE WayInv'
    OBVIOUS
<1>1. /\ stack' \in Seq(Frames) /\ Len(stack') = Len(stack) - 1
      /\ \A i \in DOMAIN stack' : i \in DOMAIN stack /\ i # Len(stack) /\ stack'[i] = stack[i]
      /\ request' = request /\ out' = out /\ Trails' = Trails
    BY LeaveEffect
<1>2. \A i \in DOMAIN stack' : LET f == stack[i]
          IN (f.trail \in Trails /\ ErrorAt(f.trail) = f.err /\ Descends(f.trail))'
    BY <1>1, FramesKept
<1>3. request' \in Requests /\ out' \in Seq(ToSet(out')) /\ Trails' \subseteq Trail
    BY <1>1 DEF WayInv
<1>4. stack' # <<>> =>
          stack'[1].trail = <<>> /\ stack'[1].err = request'.root /\ stack'[1].path = {}
    <2>1. stack' # <<>> => 1 \in DOMAIN stack' /\ stack # <<>>
        BY <1>1, LeaveEffect
    <2> QED
        BY <1>1, <2>1 DEF WayInv
<1>5. \A i \in DOMAIN stack' : i + 1 \in DOMAIN stack' =>
          /\ stack'[i].next >= 2
          /\ stack'[i + 1].trail =
                 Append(stack'[i].trail, [pos |-> stack'[i].next - 1, err |-> stack'[i + 1].err])
    BY <1>1 DEF WayInv
<1> QED
    BY <1>1, <1>2, <1>3, <1>4, <1>5 DEF WayInv

LEMMA WayShow == WayInv /\ Show => WayInv'
<1> SUFFICES ASSUME WayInv, Show PROVE WayInv'
    OBVIOUS
<1>a. PICK N, s, w : ShowStep(N, s, w)
    BY ShowEffect
<1>d. PICK c : c = cause
    OBVIOUS
<1>1. /\ stack # <<>> /\ N \in DOMAIN stack /\ N \in Nat \ {0} /\ c \in Errors /\ N = Len(stack)
      /\ s \in Step /\ w \in Trail /\ w # <<>> /\ ErrorAt(w) = c
      /\ stack' \in Seq(Frames)
      /\ \A i \in DOMAIN stack : /\ i \in DOMAIN stack' /\ stack'[i].err = stack[i].err
                                 /\ stack'[i].path = stack[i].path
                                 /\ stack'[i].trail = stack[i].trail
                                 /\ i # N => stack'[i] = stack[i]
      /\ stack'[N].next = frame.next + 1 /\ w = Append(frame.trail, s)
      /\ s.pos = frame.next /\ s.err = c
      /\ \A i \in DOMAIN stack' : i \in DOMAIN stack \/ (i = N + 1 /\ i = Len(stack'))
      /\ request' = request /\ out' = Append(out, [trail |-> w, shows |-> ShownBelow(cause)])
      /\ Trails' = Trails \cup {w}
    BY <1>a, <1>d DEF ShowStep, NodeStep
<1>2. /\ Len(stack') = N + 1 => /\ DescendsBelow(c) /\ stack'[N + 1].err = c
                                /\ stack'[N + 1].trail = w
      /\ Len(stack') = N \/ Len(stack') = N + 1
    <2>1. /\ \/ ~ DescendsBelow(cause) /\ Len(stack') = N
             \/ DescendsBelow(cause) /\ Len(stack') = N + 1
          /\ Len(stack') = N + 1 => stack'[N + 1] = Frame(cause, pathBelow(cause), w)
        BY <1>a DEF ShowStep
    <2> QED
        BY <1>1, <1>d, <2>1 DEF Frame
<1>3. request' \in Requests /\ out' \in Seq(ToSet(out')) /\ Trails' \subseteq Trail
    BY <1>1, OutAppended DEF WayInv
<1>4. stack'[1].trail = <<>> /\ stack'[1].err = request'.root /\ stack'[1].path = {}
    <2>1. 1 \in DOMAIN stack
        BY <1>1 DEF WayInv
    <2> QED
        BY <1>1, <2>1 DEF WayInv
<1>5. ASSUME NEW i \in DOMAIN stack', i + 1 \in DOMAIN stack'
      PROVE  /\ stack'[i].next >= 2
             /\ stack'[i + 1].trail =
                    Append(stack'[i].trail, [pos |-> stack'[i].next - 1, err |-> stack'[i + 1].err])
    <2>1. DOMAIN stack = 1 .. N /\ DOMAIN stack' = 1 .. Len(stack')
        BY <1>1 DEF WayInv
    <2>a. /\ i \in 1 .. Len(stack') /\ i + 1 \in 1 .. Len(stack') /\ N \in Nat
          /\ Len(stack') = N \/ Len(stack') = N + 1
        BY <1>1, <1>2, <1>5, <2>1
    <2>2. i \in 1 .. N
        BY <2>a
    <2>3. CASE i = N
        <3>1. Len(stack') = N + 1
            BY <2>a, <2>3
        <3>2. frame.next \in Nat \ {0} /\ frame = stack[N]
            BY <1>1, TopFrame
        <3>3. s.pos = stack'[i].next - 1 /\ s.err = stack'[i + 1].err
            <4>1. stack'[i].next = frame.next + 1 /\ stack'[i + 1].err = c
                BY <1>1, <1>2, <2>3, <3>1
            <4>2. s.pos = frame.next /\ s.err = c
                BY <1>1
            <4> QED
                BY <3>2, <4>1, <4>2
        <3>4. stack'[i].trail = frame.trail
            BY <1>1, <2>3, <3>2
        <3>5. s = [pos |-> stack'[i].next - 1, err |-> stack'[i + 1].err]
            BY <1>1, <3>3 DEF Step
        <3>6. stack'[i].next >= 2
            BY <1>1, <2>3, <3>2
        <3> QED
            BY <1>1, <1>2, <2>3, <3>1, <3>4, <3>5, <3>6
    <2>4. CASE i # N
        <3>1. i + 1 \in DOMAIN stack /\ i \in DOMAIN stack
            BY <1>1, <2>1, <2>2, <2>4
        <3>2. /\ stack[i].next >= 2
              /\ stack[i + 1].trail =
                     Append(stack[i].trail, [pos |-> stack[i].next - 1, err |-> stack[i + 1].err])
            BY <3>1 DEF WayInv
        <3>3. /\ stack'[i] = stack[i] /\ stack'[i + 1].trail = stack[i + 1].trail
              /\ stack'[i + 1].err = stack[i + 1].err
            BY <1>1, <2>4, <3>1
        <3> QED
            BY <3>2, <3>3
    <2> QED
        BY <2>3, <2>4
<1>6. ASSUME NEW i \in DOMAIN stack'
      PROVE  LET f == stack[i]
             IN (f.trail \in Trails /\ ErrorAt(f.trail) = f.err /\ Descends(f.trail))'
    <2>1. CASE i \in DOMAIN stack
        <3>1. Trails \subseteq Trails'
            BY <1>1
        <3> QED
            BY <1>1, <2>1, <3>1, FramesKept
    <2>2. CASE i = N + 1 /\ i = Len(stack')
        <3>1. stack'[i].err = c /\ stack'[i].trail = w /\ DescendsBelow(c) /\ w \in Trails'
            BY <1>1, <1>2, <2>2
        <3> QED
            BY <1>1, <3>1
            DEF ErrorAt, Descends, DescendsBelow, TakesOver, ownOption, mode, defined
    <2> QED
        BY <1>1, <2>1, <2>2
<1> QED
    BY <1>1, <1>3, <1>4, <1>5, <1>6 DEF WayInv

LEMMA WayBreak == WayInv /\ Break => WayInv'
<1> SUFFICES ASSUME WayInv, Break PROVE WayInv'
    OBVIOUS
<1>1. PICK s, w : NodeStep(s, w)
    BY BreakEffect
<1>2. stack' = <<>> /\ request' = request /\ w \in Trail /\ Trails' = Trails \cup {w}
    BY <1>1, BreakEffect DEF NodeStep
<1>3. out' \in Seq(ToSet(out'))
    BY <1>1, OutAppended DEF NodeStep, WayInv
<1>4. stack' \in Seq(Frames) /\ DOMAIN stack' = {}
    BY <1>2
<1> QED
    BY <1>2, <1>3, <1>4 DEF WayInv

-----------------------------------------------------------------------------
(* Depth first                                                             *)

LEMMA OrderStart == WayInv /\ Start => OrderInv'
<1> SUFFICES ASSUME WayInv, Start PROVE OrderInv'
    OBVIOUS
<1>1. /\ Trails' = {<<>>} /\ DOMAIN out' = {1}
      /\ stack' = <<>> \/ stack' = <<Frame(request.root, {}, <<>>)>>
    <2>1. out' = <<out'[1]>>
        BY StartEffect
    <2> QED
        BY <2>1, StartEffect
<1>2. stack' # <<>> => \A t \in Trails' : Behind(t, frame'.trail, frame'.next)
    <2> SUFFICES ASSUME stack' # <<>> PROVE Behind(<<>>, frame'.trail, frame'.next)
        BY <1>1
    <2>1. frame' = Frame(request.root, {}, <<>>)
        BY <1>1 DEF frame
    <2> QED
        BY <2>1 DEF Frame, Behind
<1> QED
    BY <1>1, <1>2 DEF OrderInv

(* Past a cause all stands before the next.                                *)
LEMMA BehindPast ==
    ASSUME WayInv, OrderInv, stack # <<>>, NEW t \in Trails
    PROVE  Behind(t, frame.trail, frame.next + 1)
<1> DEFINE s == [pos |-> frame.next, err |-> frame.err]
<1>1. s \in Step /\ s.pos = frame.next /\ frame.trail \in Trail
    BY TopFrame DEF Step
<1>2. t \in Trail /\ Behind(t, frame.trail, frame.next)
    BY DEF WayInv, OrderInv
<1> HIDE DEF s
<1>3. Behind(t, frame.trail, s.pos + 1)
    BY <1>1, <1>2, BehindDown
<1> QED
    BY <1>1, <1>3

LEMMA OrderSkip == WayInv /\ OrderInv /\ Skip => OrderInv'
<1> SUFFICES ASSUME WayInv, OrderInv, Skip PROVE OrderInv'
    OBVIOUS
<1>1. /\ stack # <<>> /\ Len(stack') = Len(stack) /\ out' = out /\ Trails' = Trails
      /\ stack'[Len(stack)].trail = frame.trail
      /\ stack'[Len(stack)].next = frame.next + 1
    BY SkipEffect, TopFrame
<1>2. frame'.trail = frame.trail /\ frame'.next = frame.next + 1
    BY <1>1 DEF frame
<1>3. \A t \in Trails' : Behind(t, frame'.trail, frame'.next)
    BY <1>1, <1>2, BehindPast
<1> QED
    BY <1>1, <1>3 DEF OrderInv

(* The node rendered comes after all others.                               *)
LEMMA OrderNode ==
    ASSUME WayInv, OrderInv, NEW s, NEW w, NodeStep(s, w)
    PROVE  \A i, j \in DOMAIN out' : i < j => Before(out'[i].trail, out'[j].trail)
<1>1. /\ stack # <<>> /\ w = Append(frame.trail, s)
      /\ s \in Step /\ s.pos = frame.next /\ frame.trail \in Trail
      /\ out \in Seq(ToSet(out)) /\ Trails \subseteq Trail
      /\ out' = Append(out, [trail |-> w, shows |-> ShownBelow(cause)])
    BY DEF NodeStep, WayInv
<1>2. \A t \in Trails : Behind(t, frame.trail, s.pos)
    BY <1>1 DEF OrderInv
<1>3. ASSUME NEW i \in DOMAIN out', NEW j \in DOMAIN out', i < j
      PROVE  Before(out'[i].trail, out'[j].trail)
    <2> DEFINE r == [trail |-> w, shows |-> ShownBelow(cause)]
    <2>1. r.trail = w /\ out' = Append(out, r)
        BY <1>1
    <2> HIDE DEF r
    <2>2. /\ Len(out) \in Nat /\ DOMAIN out = 1 .. Len(out) /\ DOMAIN out' = 1 .. Len(out) + 1
          /\ \A k \in DOMAIN out : out'[k] = out[k]
          /\ out'[Len(out) + 1] = r
        BY <1>1, <2>1, OutAppended
    <2>3. i \in DOMAIN out
        BY <1>3, <2>2
    <2>4. CASE j \in DOMAIN out
        BY <1>3, <2>2, <2>3, <2>4 DEF OrderInv
    <2>5. CASE j = Len(out) + 1
        <3>1. out[i].trail \in Trails /\ out'[i].trail = out[i].trail /\ out'[j].trail = w
            BY <2>1, <2>2, <2>3, <2>5 DEF Trails
        <3>2. out[i].trail \in Trail /\ Behind(out[i].trail, frame.trail, s.pos)
            BY <1>1, <1>2, <3>1
        <3>3. Before(out[i].trail, w)
            BY <1>1, <3>2, BehindIsBefore
        <3> QED
            BY <3>1, <3>3
    <2> QED
        BY <2>2, <2>4, <2>5
<1> QED
    BY <1>3

LEMMA OrderShow == WayInv /\ OrderInv /\ Show => OrderInv'
<1> SUFFICES ASSUME WayInv, OrderInv, Show PROVE OrderInv'
    OBVIOUS
<1>a. PICK N, s, w : ShowStep(N, s, w)
    BY ShowEffect
<1>1. /\ stack # <<>> /\ N = Len(stack) /\ N \in DOMAIN stack /\ w = Append(frame.trail, s)
      /\ s \in Step /\ s.pos = frame.next /\ frame.trail \in Trail /\ w \in Trail
      /\ out \in Seq(ToSet(out)) /\ Trails \subseteq Trail
      /\ out' = Append(out, [trail |-> w, shows |-> ShownBelow(cause)])
      /\ Trails' = Trails \cup {w}
    BY <1>a, TopFrame DEF ShowStep, NodeStep, WayInv
<1>2. \A t \in Trails : Behind(t, frame.trail, s.pos)
    BY <1>1 DEF OrderInv
<1>3. \A i, j \in DOMAIN out' : i < j => Before(out'[i].trail, out'[j].trail)
    <2>1. NodeStep(s, w)
        BY <1>a DEF ShowStep
    <2> QED
        BY <2>1, OrderNode
<1>4. ASSUME NEW t \in Trails'
      PROVE  Behind(t, frame'.trail, frame'.next)
    <2>1. t \in Trail /\ (t \in Trails \/ t = w)
        BY <1>1
    <2>2. CASE Len(stack') = N
        <3>1. frame'.trail = frame.trail /\ frame'.next = s.pos + 1
            BY <1>a, <1>1, <2>2 DEF ShowStep, frame
        <3>2. Behind(t, frame.trail, s.pos + 1)
            BY <1>1, <1>2, <2>1, BehindDown, BehindItself
        <3> QED
            BY <3>1, <3>2
    <2>3. CASE Len(stack') = N + 1
        <3>1. stack'[N + 1] = Frame(cause, pathBelow(cause), w)
            BY <1>a, <2>3 DEF ShowStep
        <3>2. frame'.trail = w /\ frame'.next = 1
            BY <2>3, <3>1 DEF frame, Frame
        <3>3. Behind(t, w, 1)
            BY <1>1, <1>2, <2>1, BehindDown, BehindItself
        <3> QED
            BY <3>2, <3>3
    <2> QED
        BY <1>a, <2>2, <2>3 DEF ShowStep
<1> QED
    BY <1>3, <1>4 DEF OrderInv

LEMMA OrderBreak == WayInv /\ OrderInv /\ Break => OrderInv'
<1> SUFFICES ASSUME WayInv, OrderInv, Break PROVE OrderInv'
    OBVIOUS
<1>1. PICK s, w : NodeStep(s, w)
    BY BreakEffect
<1>2. stack' = <<>>
    BY BreakEffect
<1> QED
    BY <1>1, <1>2, OrderNode DEF OrderInv

LEMMA OrderLeave == WayInv /\ OrderInv /\ Leave => OrderInv'
<1> SUFFICES ASSUME WayInv, OrderInv, Leave PROVE OrderInv'
    OBVIOUS
<1>1. /\ stack # <<>> /\ Len(stack') = Len(stack) - 1 /\ out' = out /\ Trails' = Trails
      /\ \A i \in DOMAIN stack' : i \in DOMAIN stack /\ stack'[i] = stack[i]
      /\ stack' \in Seq(Frames)
    BY LeaveEffect
<1>2. ASSUME stack' # <<>>, NEW t \in Trails
      PROVE  Behind(t, frame'.trail, frame'.next)
    <2> DEFINE i == Len(stack) - 1
               p == stack[Len(stack) - 1]
               s == [pos |-> p.next - 1, err |-> frame.err]
    <2>1. Len(stack') \in DOMAIN stack'
        BY <1>1, <1>2
    <2>2. i \in DOMAIN stack /\ frame' = p
        BY <1>1, <2>1 DEF frame
    <2>3. /\ p.next \in Nat \ {0} /\ p.trail \in Trail /\ i \in Nat
          /\ frame.err \in Errors /\ frame = stack[i + 1] /\ i + 1 \in DOMAIN stack
        BY <1>1, <2>2, FrameTyped, TopFrame
    <2>4. p.next >= 2 /\ frame.trail = Append(p.trail, s)
        BY <2>2, <2>3 DEF WayInv
    <2>5. s \in Step /\ s.pos + 1 = p.next
        BY <2>3, <2>4 DEF Step
    <2>6. t \in Trail /\ Behind(t, frame.trail, frame.next) /\ frame.next \in Nat
        BY <1>1, TopFrame DEF WayInv, OrderInv
    <2> HIDE DEF p, s
    <2>7. Behind(t, p.trail, s.pos + 1)
        BY <2>3, <2>4, <2>5, <2>6, BehindUp
    <2> QED
        BY <2>2, <2>5, <2>7
<1> QED
    BY <1>1, <1>2 DEF OrderInv

-----------------------------------------------------------------------------
(* What is shown                                                           *)

LEMMA ShownStart == WayInv /\ Start => ShownInv'
<1> SUFFICES ASSUME WayInv, Start PROVE ShownInv'
    OBVIOUS
<1>1. PICK r : r = [trail |-> <<>>, shows |-> IF mode \in {"nodes", "walk"} THEN Nothing
                                              ELSE ShownAtTop(request.root)]
    OBVIOUS
<1>2. request' = request /\ out' = <<r>>
    BY <1>1, StartEffect
<1>3. DOMAIN out' = {1} /\ out'[1].trail = <<>>
    BY <1>1, <1>2
<1>4. PICK o : o = request.root
    OBVIOUS
<1>5. /\ mode' = mode /\ request.root' = o
      /\ ShownAtTop(o)' = ShownAtTop(o)
    BY <1>2, <1>4, RequestKept
<1>6. out'[1].shows = IF mode \in {"nodes", "walk"} THEN Nothing ELSE ShownAtTop(o)
    BY <1>1, <1>2, <1>4
<1> QED
    BY <1>3, <1>5, <1>6 DEF ShownInv

LEMMA ShownNode ==
    ASSUME WayInv, ShownInv, NEW s, NEW w, NodeStep(s, w)
    PROVE  ShownInv'
<1>1. PICK c : c = cause
    OBVIOUS
<1>2. PICK r : r = [trail |-> w, shows |-> ShownBelow(c)]
    OBVIOUS
<1>3. /\ out \in Seq(ToSet(out)) /\ out' = Append(out, r) /\ request' = request
      /\ w # <<>> /\ ErrorAt(w) = c
    BY <1>1, <1>2 DEF NodeStep, WayInv
<1>4. /\ Len(out) \in Nat /\ DOMAIN out = 1 .. Len(out) /\ DOMAIN out' = 1 .. Len(out) + 1
      /\ \A k \in DOMAIN out : out'[k] = out[k]
      /\ out'[Len(out) + 1] = r
    BY <1>3, OutAppended
<1>5. r.trail = w /\ r.shows = ShownBelow(c)
    BY <1>2
<1> QED
    BY <1>3, <1>4, <1>5, RequestKept DEF ShownInv

LEMMA ShownShow == WayInv /\ ShownInv /\ (Show \/ Break) => ShownInv'
<1> SUFFICES ASSUME WayInv, ShownInv, Show \/ Break PROVE ShownInv'
    OBVIOUS
<1>1. \E s, w : NodeStep(s, w)
    BY ShowEffect, BreakEffect DEF ShowStep
<1> QED
    BY <1>1, ShownNode

-----------------------------------------------------------------------------
(* Paths, and what is reached                                              *)

LEMMA PathKept ==
    ASSUME PathInv, ReachInv, request' = request,
           \A i \in DOMAIN stack' : /\ i \in DOMAIN stack
                                    /\ stack'[i].path = stack[i].path
                                    /\ stack'[i].trail = stack[i].trail
    PROVE  PathInv' /\ ReachInv'
<1>1. mode' = mode /\ defined' = defined
    BY RequestKept
<1>2. PathInv'
    BY <1>1 DEF PathInv, On
<1>3. ReachInv'
    BY RequestKept DEF ReachInv
<1> QED
    BY <1>2, <1>3

LEMMA PathStart == WayInv /\ Start => PathInv' /\ ReachInv'
<1> SUFFICES ASSUME WayInv, Start PROVE PathInv' /\ ReachInv'
    OBVIOUS
<1>1. stack' = <<>> \/ stack' = <<Frame(request.root, {}, <<>>)>>
    BY StartEffect
<1>2. \A i \in DOMAIN stack' : stack'[i].path = {} /\ DOMAIN stack'[i].trail = {}
    BY <1>1 DEF Frame
<1> QED
    BY <1>2 DEF PathInv, ReachInv

(* The node below a frame is reached from all above it.                    *)
LEMMA CauseReached ==
    ASSUME WayInv, ReachInv, HasNext, cause # Nil, NEW k \in DOMAIN frame.trail
    PROVE  Reached(frame.trail[k].err, cause)
<1> DEFINE t == frame.trail
           Causes(e) == ToSet(causes(e)) \ {Nil}
<1>1. /\ stack # <<>> /\ cause \in Causes(frame.err) /\ t \in Trail /\ ErrorAt(t) = frame.err
      /\ Len(stack) \in DOMAIN stack /\ frame = stack[Len(stack)]
    BY CauseTyped, TopFrame
<1>2. Len(t) \in Nat /\ DOMAIN t = 1 .. Len(t)
    BY <1>1, TrailTyped
<1>3. Len(t) \in DOMAIN t /\ t # <<>> /\ t[Len(t)].err = frame.err
    BY <1>1, <1>2 DEF ErrorAt, Last
<1>4. SUFFICES ASSUME NEW C \in SUBSET Errors, Causes(t[k].err) \subseteq C,
                      \A c \in C : Causes(c) \subseteq C
               PROVE  cause \in C
    BY DEF Reached
<1>5. CASE k = Len(t)
    BY <1>1, <1>3, <1>4, <1>5
<1>6. CASE k # Len(t)
    <2>1. Reached(t[k].err, t[Len(t)].err)
        BY <1>1, <1>2, <1>3, <1>6 DEF ReachInv
    <2>2. frame.err \in C
        BY <1>3, <1>4, <2>1 DEF Reached
    <2> QED
        BY <1>1, <1>4, <2>2
<1> QED
    BY <1>5, <1>6

LEMMA PathShow == WayInv /\ PathInv /\ ReachInv /\ Show => PathInv' /\ ReachInv'
<1> SUFFICES ASSUME WayInv, PathInv, ReachInv, Show PROVE PathInv' /\ ReachInv'
    OBVIOUS
<1>a. PICK N, s, w : ShowStep(N, s, w)
    BY ShowEffect
<1>b. PICK c, v, P : c = cause /\ v = frame.trail /\ P = pathBelow(cause)
    OBVIOUS
<1>1. /\ N = Len(stack) /\ N \in DOMAIN stack /\ w = Append(v, s) /\ s.err = c /\ s \in Step
      /\ \A i \in DOMAIN stack : /\ stack'[i].path = stack[i].path
                                 /\ stack'[i].trail = stack[i].trail
      /\ \A i \in DOMAIN stack' : i \in DOMAIN stack \/ (i = N + 1 /\ i = Len(stack'))
      /\ Len(stack') = N + 1 => stack'[N + 1] = Frame(c, P, w)
      /\ request' = request
    BY <1>a, <1>b DEF ShowStep, NodeStep
<1>2. /\ frame = stack[N] /\ v \in Trail /\ HasNext /\ c # Nil
    BY <1>a, <1>b, <1>1, TopFrame DEF ShowStep, NodeStep
<1>3. /\ Len(v) \in Nat /\ DOMAIN v = 1 .. Len(v) /\ DOMAIN w = 1 .. Len(v) + 1
      /\ \A i \in DOMAIN v : w[i] = v[i]
      /\ w[Len(v) + 1] = s
    BY <1>1, <1>2, StepAppended
<1>4. mode' = mode /\ defined' = defined
    BY <1>1, RequestKept
<1>5. /\ P \subseteq On(w)
      /\ \A j \in DOMAIN w : w[j].err \notin P =>
             mode = "json" /\ \E k \in DOMAIN w : k >= j /\ w[k].err \in defined
    <2>1. CASE mode = "json" /\ c \in defined
        <3>1. P = {}
            BY <1>b, <2>1 DEF pathBelow
        <3>2. Len(v) + 1 \in DOMAIN w /\ w[Len(v) + 1].err \in defined
            BY <1>1, <1>3, <2>1
        <3>3. \A j \in DOMAIN w : Len(v) + 1 >= j
            BY <1>3
        <3> QED
            BY <2>1, <3>1, <3>2, <3>3
    <2>2. CASE ~ (mode = "json" /\ c \in defined)
        <3>1. P = frame.path \cup {c}
            BY <1>b, <2>2 DEF pathBelow
        <3>2. /\ frame.path \subseteq On(v)
              /\ \A j \in DOMAIN v : v[j].err \notin frame.path =>
                     mode = "json" /\ \E k \in DOMAIN v : k >= j /\ v[k].err \in defined
            BY <1>b, <1>1, <1>2 DEF PathInv
        <3>3. On(v) \subseteq On(w) /\ c \in On(w)
            BY <1>1, <1>3 DEF On
        <3>4. ASSUME NEW j \in DOMAIN w, w[j].err \notin P
              PROVE  mode = "json" /\ \E k \in DOMAIN w : k >= j /\ w[k].err \in defined
            <4>1. j \in DOMAIN v /\ w[j] = v[j]
                BY <1>1, <1>3, <3>1, <3>4
            <4>2. mode = "json" /\ \E k \in DOMAIN v : k >= j /\ v[k].err \in defined
                BY <3>1, <3>2, <3>4, <4>1
            <4> QED
                BY <1>3, <4>2
        <3> QED
            BY <3>1, <3>2, <3>3, <3>4
    <2> QED
        BY <2>1, <2>2
<1>6. \A i, j \in DOMAIN w : i < j => Reached(w[i].err, w[j].err)
    <2> SUFFICES ASSUME NEW i \in DOMAIN w, NEW j \in DOMAIN w, i < j
                 PROVE  Reached(w[i].err, w[j].err)
        OBVIOUS
    <2>1. i \in DOMAIN v /\ w[i] = v[i]
        BY <1>3
    <2>2. CASE j = Len(v) + 1
        <3>1. Reached(v[i].err, c)
            BY <1>b, <1>2, <2>1, CauseReached
        <3> QED
            BY <1>1, <1>3, <2>1, <2>2, <3>1
    <2>3. CASE j \in DOMAIN v
        <3>1. Reached(v[i].err, v[j].err)
            BY <1>b, <1>1, <1>2, <2>1, <2>3 DEF ReachInv
        <3> QED
            BY <1>3, <2>1, <2>3, <3>1
    <2> QED
        BY <1>3, <2>2, <2>3
<1>7. \A i \in DOMAIN stack' : \/ /\ i \in DOMAIN stack /\ stack'[i].path = stack[i].path
                                  /\ stack'[i].trail = stack[i].trail
                               \/ stack'[i].path = P /\ stack'[i].trail = w
    BY <1>1 DEF Frame
<1>8. PathInv'
    BY <1>4, <1>5, <1>7 DEF PathInv, On
<1>9. ReachInv'
    BY <1>1, <1>6, <1>7, RequestKept DEF ReachInv
<1> QED
    BY <1>8, <1>9

-----------------------------------------------------------------------------
(* Everything behind is rendered                                           *)

(* What shows something of its own is not shown by a marshaler.            *)
LEMMA OwnDiffers ==
    /\ Message # Own /\ Nothing # Own
    /\ \A e : /\ formatErrorDetails(e) # Own /\ jsonErrorData(e) # Own /\ jsonCauseData(e) # Own
              /\ MakeErrorLogValue(e) # Own /\ nodeLogValue(e) # Own
<1>1. Message # Own /\ Nothing # Own
    BY DEF Message, Nothing, Own
<1>2. ASSUME NEW e
      PROVE  /\ formatErrorDetails(e) # Own /\ jsonErrorData(e) # Own /\ jsonCauseData(e) # Own
             /\ MakeErrorLogValue(e) # Own /\ nodeLogValue(e) # Own
    <2>1. "shows" \in DOMAIN Own
        BY DEF Own
    <2>2. /\ "shows" \notin DOMAIN formatErrorDetails(e) /\ "shows" \notin DOMAIN jsonErrorData(e)
          /\ "shows" \notin DOMAIN jsonCauseData(e) /\ "shows" \notin DOMAIN MakeErrorLogValue(e)
          /\ "shows" \notin DOMAIN nodeLogValue(e)
        BY DEF formatErrorDetails, jsonErrorData, jsonCauseData, MakeErrorLogValue, nodeLogValue
    <2> QED
        BY <2>1, <2>2
<1> QED
    BY <1>1, <1>2

LEMMA InitBuilt == Init => PathInv /\ ReachInv /\ BuiltInv /\ OnlyInv /\ BreakInv
<1> SUFFICES ASSUME Init PROVE PathInv /\ ReachInv /\ BuiltInv /\ OnlyInv /\ BreakInv
    OBVIOUS
<1>1. DOMAIN stack = {} /\ DOMAIN out = {}
    BY DEF Init
<1>2. Trails = {}
    BY <1>1 DEF Trails
<1> QED
    BY <1>1, <1>2 DEF PathInv, ReachInv, BuiltInv, AllBuilt, OnlyInv, BreakInv

LEMMA BuiltStart == WayInv /\ Start => BuiltInv' /\ OnlyInv' /\ BreakInv'
<1> SUFFICES ASSUME WayInv, Start PROVE BuiltInv' /\ OnlyInv' /\ BreakInv'
    OBVIOUS
<1>1. /\ request' = request /\ Trails' = {<<>>}
      /\ \/ stack' = <<>> /\ (DescendsAtTop(request.root) => Breaks(request.root))
         \/ /\ stack' = <<Frame(request.root, {}, <<>>)>>
            /\ DescendsAtTop(request.root) /\ ~ Breaks(request.root)
    BY StartEffect
<1>2. PICK o : o = request.root
    OBVIOUS
<1>3. o \in Errors /\ ErrorAt(<<>>) = o /\ ErrorAt(<<>>)' = o
    BY <1>1, <1>2, RequestTyped, RequestKept DEF ErrorAt
<1>a. /\ out' = <<[trail |-> <<>>, shows |-> IF mode \in {"nodes", "walk"} THEN Nothing
                                              ELSE ShownAtTop(o)]>>
      /\ Breaks(o)' <=> Breaks(o)
    BY <1>1, <1>2, StartEffect, RequestKept
<1>b. /\ DOMAIN out' = {1} /\ Len(out') = 1 /\ out'[1].trail = <<>>
      /\ mode = "text" => out'[1].shows = ShownAtTop(o)
    BY <1>a
<1>c. DescendsAtTop(o) /\ Breaks(o) => BrokenOff'
    <2> SUFFICES ASSUME DescendsAtTop(o), Breaks(o) PROVE BrokenOff'
        OBVIOUS
    <2>1. mode = "text" /\ ~ TakesOver(o)
        BY DEF Breaks, DescendsAtTop
    <2>2. out'[1].shows = formatErrorDetails(o)
        BY <1>b, <2>1 DEF ShownAtTop
    <2>3. out'[1].shows # Own
        BY <2>2, OwnDiffers
    <2> QED
        BY <1>3, <1>a, <1>b, <2>3 DEF BrokenOff
<1>d. BreakInv'
    BY <1>1, <1>2, <1>3, <1>a, <1>b DEF BreakInv
<1>4. ASSUME NEW i \in DOMAIN causes(o), Passed(<<>>, i)', Descends(<<>>)', ~ BrokenOff'
      PROVE  FALSE
    <2>1. i \in Nat \ {0}
        BY <1>3, RequestTyped
    <2>2. CASE stack' = <<Frame(request.root, {}, <<>>)>>
        <3>1. 1 \in DOMAIN stack' /\ stack'[1].trail = <<>> /\ stack'[1].next = 1
            BY <2>2 DEF Frame
        <3> QED
            BY <1>4, <2>1, <3>1 DEF Passed
    <2>3. CASE ~ DescendsAtTop(request.root)
        BY <1>1, <1>4, <2>3, RequestKept DEF Descends
    <2> QED
        BY <1>1, <1>2, <1>4, <1>c, <2>2, <2>3
<1>5. causes(o)' = causes(o)
    BY <1>1, RequestKept
<1>6. BuiltInv'
    BY <1>1, <1>3, <1>4, <1>5 DEF BuiltInv, AllBuilt
<1>7. OnlyInv'
    BY <1>1 DEF OnlyInv
<1> QED
    BY <1>6, <1>7, <1>d

(* What is behind a frame after a step and was not before it is the cause  *)
(* the step passed.                                                        *)
LEMMA PassedNext ==
    ASSUME WayInv, HasNext, NEW N, N = Len(stack), NEW t, NEW i \in Nat,
           \A n \in DOMAIN stack : /\ n \in DOMAIN stack' /\ stack'[n].trail = stack[n].trail
                                   /\ n # N => stack'[n] = stack[n],
           stack'[N].next = frame.next + 1,
           Passed(t, i)'
    PROVE  Passed(t, i) \/ (t = frame.trail /\ i = position /\ ErrorAt(t) = frame.err)
<1>1. SUFFICES ASSUME NEW n \in DOMAIN stack, t = stack[n].trail, ~ (i < stack[n].next)
               PROVE  t = frame.trail /\ i = position /\ ErrorAt(t) = frame.err
    BY DEF Passed
<1>2. i < stack'[n].next
    BY <1>1 DEF Passed
<1>3. n = N
    BY <1>1, <1>2
<1>4. /\ stack[n] = frame /\ frame.next \in Nat /\ position = frame.next
      /\ ErrorAt(frame.trail) = frame.err
    BY <1>1, <1>3, TopFrame, CauseTyped
<1>5. i = frame.next
    BY <1>1, <1>2, <1>3, <1>4
<1> QED
    BY <1>1, <1>4, <1>5

LEMMA ErrorAtTyped ==
    ASSUME WayInv, NEW t \in Trails
    PROVE  t \in Trail /\ ErrorAt(t) \in Errors
<1>1. t \in Trail
    BY DEF WayInv
<1>2. t # <<>> => Len(t) \in DOMAIN t
    BY <1>1, TrailTyped DEF Trail
<1> QED
    BY <1>1, <1>2, TrailTyped, RequestTyped DEF ErrorAt, Last

LEMMA BuiltSkip == WayInv /\ PathInv /\ AllBuilt /\ Skip => AllBuilt'
<1> SUFFICES ASSUME WayInv, PathInv, AllBuilt, Skip PROVE AllBuilt'
    OBVIOUS
<1>1. PICK N : N = Len(stack)
    OBVIOUS
<1>2. /\ HasNext /\ (cause = Nil \/ OnPath) /\ stack # <<>>
      /\ \A n \in DOMAIN stack : /\ n \in DOMAIN stack' /\ stack'[n].trail = stack[n].trail
                                 /\ n # N => stack'[n] = stack[n]
      /\ stack'[N].next = frame.next + 1
      /\ request' = request /\ Trails' = Trails
    BY <1>1, SkipEffect DEF Skip
<1>3. ASSUME NEW t \in Trails, NEW i \in DOMAIN causes(ErrorAt(t)), Passed(t, i)', Descends(t),
             causes(ErrorAt(t))[i] # Nil, ~ OnTrail(t, causes(ErrorAt(t))[i])
      PROVE  Append(t, [pos |-> i, err |-> causes(ErrorAt(t))[i]]) \in Trails
    <2>1. CASE Passed(t, i)
        BY <1>3, <2>1 DEF AllBuilt
    <2>2. CASE t = frame.trail /\ i = position /\ ErrorAt(t) = frame.err
        <3>1. cause = causes(ErrorAt(t))[i]
            BY <1>2, <2>2, CauseTyped
        <3>2. frame.path \subseteq On(frame.trail)
            BY <1>2, TopFrame DEF PathInv
        <3>3. OnPath => OnTrail(t, cause)
            BY <2>2, <3>2 DEF OnPath, On, OnTrail
        <3> QED
            BY <1>2, <1>3, <3>1, <3>3
    <2>3. ErrorAt(t) \in Errors /\ i \in Nat
        BY <1>3, ErrorAtTyped, RequestTyped
    <2> QED
        BY <1>1, <1>2, <1>3, <2>1, <2>2, <2>3, PassedNext
<1>4. /\ \A t : ErrorAt(t)' = ErrorAt(t)
      /\ \A e : causes(e)' = causes(e)
      /\ \A t : Descends(t)' <=> Descends(t)
    BY <1>2, RequestKept
<1> QED
    BY <1>2, <1>3, <1>4 DEF AllBuilt, OnTrail

LEMMA BuiltLeave == WayInv /\ AllBuilt /\ Leave => AllBuilt'
<1> SUFFICES ASSUME WayInv, AllBuilt, Leave PROVE AllBuilt'
    OBVIOUS
<1>1. /\ stack # <<>> /\ ~ HasNext /\ request' = request /\ Trails' = Trails
      /\ \A n \in DOMAIN stack' : n \in DOMAIN stack /\ stack'[n] = stack[n]
      /\ \A n \in DOMAIN stack : n # Len(stack) => n \in DOMAIN stack'
    BY LeaveEffect DEF Leave
<1>2. ASSUME NEW t \in Trails, NEW i \in DOMAIN causes(ErrorAt(t)), Passed(t, i)'
      PROVE  Passed(t, i)
    <2>1. SUFFICES ASSUME NEW n \in DOMAIN stack, t = stack[n].trail PROVE i < stack[n].next
        BY DEF Passed
    <2>2. CASE n \in DOMAIN stack'
        BY <1>1, <1>2, <2>1, <2>2 DEF Passed
    <2>3. CASE n = Len(stack)
        <3>1. /\ frame = stack[n] /\ ErrorAt(t) = frame.err /\ frame.err \in Errors
              /\ frame.next \in Nat /\ causes(frame.err) \in Seq(Errors \cup {Nil})
            BY <1>1, <2>1, <2>3, TopFrame, RequestTyped
        <3>2. frame.next > Len(causes(frame.err))
            BY <1>1, <3>1 DEF HasNext
        <3> QED
            BY <1>2, <3>1, <3>2
    <2> QED
        BY <1>1, <2>2, <2>3
<1>3. /\ \A t : ErrorAt(t)' = ErrorAt(t)
      /\ \A e : causes(e)' = causes(e)
      /\ \A t : Descends(t)' <=> Descends(t)
    BY <1>1, RequestKept
<1> QED
    BY <1>1, <1>2, <1>3 DEF AllBuilt, OnTrail

LEMMA BuiltShow == WayInv /\ AllBuilt /\ Show => AllBuilt'
<1> SUFFICES ASSUME WayInv, AllBuilt, Show PROVE AllBuilt'
    OBVIOUS
<1>a. PICK N, s, w : ShowStep(N, s, w)
    BY ShowEffect
<1>b. PICK c, P : c = cause /\ P = pathBelow(cause)
    OBVIOUS
<1>1. /\ HasNext /\ N = Len(stack) /\ w = Append(frame.trail, s) /\ c \in Errors
      /\ w \in Trail /\ w # <<>> /\ ErrorAt(w) = c /\ s.err = c /\ s.pos = frame.next /\ s \in Step
      /\ \A n \in DOMAIN stack : /\ n \in DOMAIN stack' /\ stack'[n].trail = stack[n].trail
                                 /\ n # N => stack'[n] = stack[n]
      /\ stack'[N].next = frame.next + 1
      /\ request' = request /\ Trails' = Trails \cup {w}
    BY <1>a, <1>b DEF ShowStep, NodeStep
<1>2. DescendsBelow(c) => /\ N + 1 \in DOMAIN stack' /\ stack'[N + 1].trail = w
                          /\ stack'[N + 1].next = 1
    <2> SUFFICES ASSUME DescendsBelow(c)
                 PROVE  N + 1 \in DOMAIN stack' /\ stack'[N + 1].trail = w /\ stack'[N + 1].next = 1
        OBVIOUS
    <2>1. Len(stack') = N + 1 /\ stack'[N + 1] = Frame(c, P, w) /\ stack' \in Seq(Frames) /\ N \in Nat
        BY <1>a, <1>b DEF ShowStep
    <2>2. N + 1 \in DOMAIN stack'
        <3> HIDE DEF Frames
        <3> QED
            BY <2>1
    <2> QED
        BY <2>1, <2>2 DEF Frame
<1>3. ASSUME NEW t \in Trails \cup {w}, NEW i \in DOMAIN causes(ErrorAt(t)), Passed(t, i)',
             Descends(t), causes(ErrorAt(t))[i] # Nil, ~ OnTrail(t, causes(ErrorAt(t))[i])
      PROVE  Append(t, [pos |-> i, err |-> causes(ErrorAt(t))[i]]) \in Trails \cup {w}
    <2>1. CASE t = w
        <3>1. DescendsBelow(c) /\ i \in Nat \ {0}
            BY <1>1, <1>3, <2>1, RequestTyped DEF Descends
        <3> QED
            BY <1>2, <1>3, <2>1, <3>1 DEF Passed
    <2>2. CASE t \in Trails
        <3>1. i \in Nat
            BY <1>3, <2>2, ErrorAtTyped, RequestTyped
        <3>2. CASE Passed(t, i)
            BY <1>3, <2>2, <3>2 DEF AllBuilt
        <3>3. CASE t = frame.trail /\ i = position /\ ErrorAt(t) = frame.err
            <4>1. c = causes(ErrorAt(t))[i] /\ i = frame.next
                BY <1>b, <1>1, <3>3, CauseTyped
            <4>2. s = [pos |-> i, err |-> c]
                BY <1>1, <4>1 DEF Step
            <4> QED
                BY <1>1, <3>3, <4>1, <4>2
        <3> QED
            BY <1>1, <1>3, <3>1, <3>2, <3>3, PassedNext
    <2> QED
        BY <2>1, <2>2
<1>4. /\ \A t : ErrorAt(t)' = ErrorAt(t)
      /\ \A e : causes(e)' = causes(e)
      /\ \A t : Descends(t)' <=> Descends(t)
    BY <1>1, RequestKept
<1>5. Trails' = Trails \cup {w}
    BY <1>1
<1> QED
    BY <1>3, <1>4, <1>5 DEF AllBuilt, OnTrail

-----------------------------------------------------------------------------
(* Where the rendering breaks off                                          *)

LEMMA NotBroken ==
    ASSUME BreakInv, stack # <<>>
    PROVE  ~ BrokenOff
BY DEF BreakInv, BrokenOff

LEMMA BrokenKept ==
    ASSUME request' = request, out' = out
    PROVE  (BrokenOff' <=> BrokenOff) /\ (~ BrokenOff => BreakInv')
<1>1. BrokenOff' <=> BrokenOff
    BY RequestKept DEF BrokenOff
<1> QED
    BY <1>1 DEF BrokenOff, BreakInv

LEMMA BrokenNode ==
    ASSUME WayInv, BreakInv, NEW s, NEW w, NodeStep(s, w)
    PROVE  /\ Breaks(cause) => BrokenOff' /\ (stack' = <<>> => BreakInv')
           /\ ~ Breaks(cause) => BreakInv'
<1>1. PICK c : c = cause
    OBVIOUS
<1>2. PICK r : r = [trail |-> w, shows |-> ShownBelow(c)]
    OBVIOUS
<1>3. /\ out \in Seq(ToSet(out)) /\ out' = Append(out, r) /\ request' = request
      /\ ErrorAt(w) = c /\ stack # <<>>
    BY <1>1, <1>2 DEF NodeStep, WayInv
<1>4. /\ Len(out) \in Nat /\ DOMAIN out = 1 .. Len(out) /\ DOMAIN out' = 1 .. Len(out) + 1
      /\ \A k \in DOMAIN out : out'[k] = out[k]
      /\ out'[Len(out) + 1] = r
    BY <1>3, OutAppended
<1>5. Len(out') = Len(out) + 1
    <2>1. out' \in Seq(ToSet(out'))
        BY <1>3, OutAppended
    <2> QED
        BY <1>4, <2>1
<1>6. /\ ErrorAt(w)' = c
      /\ Breaks(c)' <=> Breaks(c)
      /\ \A t : ErrorAt(t)' = ErrorAt(t)
      /\ \A e : Breaks(e)' <=> Breaks(e)
    BY <1>3, RequestKept
<1>7. r.trail = w /\ r.shows = ShownBelow(c)
    BY <1>2
<1>8. \A i \in DOMAIN out : ~ (Breaks(ErrorAt(out[i].trail)) /\ out[i].shows # Own)
    BY <1>3 DEF BreakInv
<1>9. \A i \in DOMAIN out' :
          (Breaks(ErrorAt(out[i].trail)) /\ out[i].shows # Own)' => i = Len(out') /\ Breaks(c)
    <2> SUFFICES ASSUME NEW i \in DOMAIN out', (Breaks(ErrorAt(out[i].trail)) /\ out[i].shows # Own)'
                 PROVE  i = Len(out') /\ Breaks(c)
        OBVIOUS
    <2>1. CASE i \in DOMAIN out
        BY <1>4, <1>6, <1>8, <2>1
    <2>2. CASE i = Len(out) + 1
        BY <1>3, <1>4, <1>5, <1>6, <1>7, <2>2
    <2> QED
        BY <1>4, <2>1, <2>2
<1>10. ASSUME Breaks(c) PROVE BrokenOff'
    <2>1. ShownBelow(c) = formatErrorDetails(c)
        BY <1>10 DEF Breaks, ShownBelow
    <2>2. out'[Len(out) + 1].shows # Own /\ out'[Len(out) + 1].trail = w
        BY <1>4, <1>7, <2>1, OwnDiffers
    <2> QED
        BY <1>4, <1>6, <1>10, <2>2 DEF BrokenOff
<1> QED
    BY <1>1, <1>9, <1>10 DEF BreakInv

LEMMA BreakStep ==
    ASSUME WayInv, PathInv, BuiltInv, BreakInv, Skip \/ Show \/ Break \/ Leave
    PROVE  BuiltInv' /\ BreakInv'
<1>1. CASE Skip \/ Leave
    <2>1. stack # <<>> /\ request' = request /\ out' = out
        BY <1>1, SkipEffect, LeaveEffect
    <2>2. AllBuilt /\ ~ BrokenOff
        BY <2>1, NotBroken DEF BuiltInv
    <2>3. AllBuilt'
        BY <1>1, <2>2, BuiltSkip, BuiltLeave
    <2> QED
        BY <2>1, <2>2, <2>3, BrokenKept DEF BuiltInv
<1>2. CASE Show
    <2>1. PICK s, w : NodeStep(s, w)
        BY <1>2, ShowEffect DEF ShowStep
    <2>2. AllBuilt /\ ~ Breaks(cause)
        BY <1>2, <2>1, NotBroken DEF BuiltInv, NodeStep, Show
    <2> QED
        BY <1>2, <2>1, <2>2, BuiltShow, BrokenNode DEF BuiltInv
<1>3. CASE Break
    <2>1. PICK s, w : NodeStep(s, w)
        BY <1>3, BreakEffect
    <2>2. stack' = <<>> /\ Breaks(cause)
        BY <1>3, BreakEffect
    <2> QED
        BY <2>1, <2>2, BrokenNode DEF BuiltInv
<1> QED
    BY <1>1, <1>2, <1>3

-----------------------------------------------------------------------------
(* Nothing else is                                                         *)

(* What JSON forgets is above a defined error, and not below it again.     *)
LEMMA NotOnTrail ==
    ASSUME Foreign, WayInv, PathInv, ReachInv, HasNext, cause # Nil, ~ OnPath
    PROVE  ~ OnTrail(frame.trail, cause)
<1> DEFINE t == frame.trail
           Causes(e) == ToSet(causes(e)) \ {Nil}
<1>1. SUFFICES ASSUME NEW j \in DOMAIN t, t[j].err = cause PROVE FALSE
    BY DEF OnTrail
<1>2. /\ t \in Trail /\ frame = stack[Len(stack)] /\ Len(stack) \in DOMAIN stack
      /\ cause \in Errors
    BY CauseTyped, TopFrame
<1>3. mode = "json" /\ \E k \in DOMAIN t : k >= j /\ t[k].err \in defined
    BY <1>1, <1>2 DEF PathInv, OnPath
<1>4. PICK k \in DOMAIN t : k >= j /\ t[k].err \in defined
    BY <1>3
<1>5. request.mode = "json" /\ request \in Requests
    BY <1>3 DEF mode, WayInv
<1>6. PICK C \in SUBSET (Errors \ {t[k].err}) :
          Causes(t[k].err) \subseteq C /\ \A c \in C : Causes(c) \subseteq C
    <2>1. CyclesForeign(request)
        BY <1>5 DEF Foreign
    <2> QED
        BY <1>4, <2>1 DEF CyclesForeign, causes, defined
<1>7. cause \in C
    <2>1. Reached(t[k].err, cause)
        BY CauseReached
    <2> QED
        BY <1>6, <2>1 DEF Reached
<1>8. k # j => t[k].err \in C
    <2>1. ASSUME k # j PROVE Reached(cause, t[k].err)
        <3>1. j < k
            BY <1>1, <1>2, <1>4, <2>1, TrailTyped
        <3> QED
            BY <1>1, <1>2, <3>1 DEF ReachInv
    <2> QED
        BY <1>6, <1>7, <2>1 DEF Reached
<1> QED
    BY <1>1, <1>6, <1>7, <1>8

LEMMA OnlyShow == Foreign /\ WayInv /\ PathInv /\ ReachInv /\ OnlyInv /\ (Show \/ Break) => OnlyInv'
<1> SUFFICES ASSUME Foreign, WayInv, PathInv, ReachInv, OnlyInv, Show \/ Break PROVE OnlyInv'
    OBVIOUS
<1>a. PICK s, w : NodeStep(s, w)
    BY ShowEffect, BreakEffect DEF ShowStep
<1>b. PICK c : c = cause
    OBVIOUS
<1>1. /\ HasNext /\ c # Nil /\ ~ OnPath /\ stack # <<>> /\ s \in Step
      /\ w = Append(frame.trail, s) /\ ErrorAt(w) = c
      /\ request' = request /\ Trails' = Trails \cup {w}
    BY <1>a, <1>b DEF NodeStep
<1>2. Above(w) = frame.trail /\ Descends(frame.trail)
    BY <1>1, TopFrame, StepAppended
<1>3. Descends(Above(w)) /\ ~ OnTrail(Above(w), ErrorAt(w))
    BY <1>b, <1>1, <1>2, NotOnTrail
<1>4. \A u \in Trails' \ {<<>>} : Descends(Above(u)) /\ ~ OnTrail(Above(u), ErrorAt(u))
    BY <1>1, <1>3 DEF OnlyInv
<1>5. /\ \A t : ErrorAt(t)' = ErrorAt(t)
      /\ \A t : Descends(t)' <=> Descends(t)
    BY <1>1, RequestKept
<1> QED
    BY <1>4, <1>5 DEF OnlyInv, OnTrail, Above

-----------------------------------------------------------------------------
(* The invariant                                                           *)

LEMMA ShownKept ==
    ASSUME ShownInv, request' = request, out' = out
    PROVE  ShownInv'
<1>1. PICK o : o = request.root
    OBVIOUS
<1>2. request.root' = o /\ mode' = mode /\ ShownAtTop(o)' = ShownAtTop(o)
    BY <1>1, RequestKept
<1>3. \A i \in DOMAIN out : LET t == out[i].trail
          IN out[i].shows = IF t # <<>> THEN ShownBelow(ErrorAt(t))
                            ELSE IF mode \in {"nodes", "walk"} THEN Nothing
                            ELSE ShownAtTop(o)
    BY <1>1 DEF ShownInv
<1> QED
    BY <1>2, <1>3, RequestKept DEF ShownInv

LEMMA RenderUnchanged ==
    ASSUME RenderInv, UNCHANGED vars
    PROVE  RenderInv' /\ (OnlyInv => OnlyInv')
<1>1. request' = request /\ stack' = stack /\ out' = out
    BY DEF vars
<1>2. Trails' = Trails /\ frame' = frame
    BY <1>1 DEF Trails, frame
<1>3. WayInv' /\ OrderInv'
    BY <1>1, <1>2, RequestKept DEF RenderInv, WayInv, OrderInv
<1>4. ShownInv'
    BY <1>1, ShownKept DEF RenderInv
<1>5. PathInv' /\ ReachInv'
    BY <1>1, PathKept DEF RenderInv
<1>6. BuiltInv'
    <2>1. \A t, i : Passed(t, i)' <=> Passed(t, i)
        BY <1>1 DEF Passed
    <2> QED
        BY <1>1, <1>2, <2>1, BrokenKept, RequestKept DEF RenderInv, BuiltInv, AllBuilt, OnTrail
<1>8. BreakInv'
    BY <1>1, RequestKept DEF RenderInv, BreakInv
<1>7. OnlyInv => OnlyInv'
    BY <1>1, <1>2, RequestKept DEF OnlyInv, OnTrail, Above
<1> QED
    BY <1>3, <1>4, <1>5, <1>6, <1>7, <1>8 DEF RenderInv

LEMMA RenderStep == RenderInv /\ [Next]_vars => RenderInv'
<1> SUFFICES ASSUME RenderInv, [Next]_vars PROVE RenderInv'
    OBVIOUS
<1>1. WayInv /\ OrderInv /\ ShownInv /\ PathInv /\ ReachInv /\ BuiltInv /\ BreakInv
    BY DEF RenderInv
<1>2. CASE Start
    BY <1>1, <1>2, WayStart, OrderStart, ShownStart, PathStart, BuiltStart DEF RenderInv
<1>3. CASE Skip \/ Leave
    <2>1. PathInv' /\ ReachInv'
        BY <1>1, <1>3, SkipEffect, LeaveEffect, PathKept
    <2>2. out' = out /\ request' = request
        BY <1>1, <1>3, SkipEffect, LeaveEffect
    <2>3. ShownInv'
        BY <1>1, <2>2, ShownKept
    <2>4. WayInv' /\ OrderInv'
        BY <1>1, <1>3, WaySkip, WayLeave, OrderSkip, OrderLeave
    <2> QED
        BY <1>1, <1>3, <2>1, <2>3, <2>4, BreakStep DEF RenderInv
<1>4. CASE Show
    BY <1>1, <1>4, WayShow, OrderShow, ShownShow, PathShow, BreakStep DEF RenderInv
<1>5. CASE Break
    <2>1. stack' = <<>> /\ \E s, w : NodeStep(s, w)
        BY <1>1, <1>5, BreakEffect
    <2>2. request' = request /\ DOMAIN stack' = {}
        BY <2>1 DEF NodeStep
    <2>3. PathInv' /\ ReachInv'
        BY <1>1, <2>2, PathKept
    <2> QED
        BY <1>1, <1>5, <2>3, WayBreak, OrderBreak, ShownShow, BreakStep DEF RenderInv
<1>6. CASE UNCHANGED vars
    BY <1>6, RenderUnchanged
<1> QED
    BY <1>2, <1>3, <1>4, <1>5, <1>6 DEF Next

(* The invariant holds of every rendering.                                 *)
THEOREM RenderSafe == Spec => []RenderInv
<1>1. Init => RenderInv
    BY InitWay, InitBuilt DEF RenderInv
<1> QED
    BY <1>1, RenderStep, PTL DEF Spec

-----------------------------------------------------------------------------
(* Nodes are rendered depth first, in the order of the causes, and each    *)
(* once (node.go:41), for any errors and definitions.                      *)
THEOREM NodesDepthFirst == Spec => []DepthFirst
<1>1. RenderInv => DepthFirst
    <2> SUFFICES ASSUME WayInv, OrderInv, PathInv PROVE DepthFirst
        BY DEF RenderInv
    <2>1. stack # <<>> =>
              stack[1] = [Frame(request.root, {}, <<>>) EXCEPT !.next = stack[1].next]
        <3> SUFFICES ASSUME stack # <<>>
                     PROVE  stack[1] = [Frame(request.root, {}, <<>>) EXCEPT !.next = stack[1].next]
            OBVIOUS
        <3>1. 1 \in DOMAIN stack
            BY TopFrame, FrameTyped DEF WayInv
        <3>2. stack[1] \in Frames
            BY <3>1, FrameTyped
        <3>3. stack[1].trail = <<>> /\ stack[1].err = request.root /\ stack[1].path = {}
            BY DEF WayInv
        <3>4. \A f \in Frames :
                  f = [err |-> f.err, path |-> f.path, trail |-> f.trail, next |-> f.next]
            BY DEF Frames
        <3>5. \A e, P, t, n : [Frame(e, P, t) EXCEPT !.next = n]
                               = [err |-> e, path |-> P, trail |-> t, next |-> n]
            BY DEF Frame
        <3>6. stack[1] = [err |-> request.root, path |-> {}, trail |-> <<>>, next |-> stack[1].next]
            BY <3>2, <3>3, <3>4
        <3>7. [Frame(request.root, {}, <<>>) EXCEPT !.next = stack[1].next]
                  = [err |-> request.root, path |-> {}, trail |-> <<>>, next |-> stack[1].next]
            BY <3>5, Zenon
        <3> QED
            BY <3>6, <3>7
    <2>2. ASSUME NEW i \in 2 .. Len(stack)
          PROVE  /\ stack[i].trail = Append(stack[i - 1].trail,
                                            [pos |-> stack[i - 1].next - 1, err |-> stack[i].err])
                 /\ stack[i].trail \in Trails
                 /\ stack[i].path \subseteq {stack[i].trail[j].err : j \in DOMAIN stack[i].trail}
        <3>1. i \in DOMAIN stack /\ i - 1 \in DOMAIN stack /\ (i - 1) + 1 = i
            BY DEF WayInv
        <3>2. stack[i].trail = Append(stack[i - 1].trail,
                                      [pos |-> stack[i - 1].next - 1, err |-> stack[i].err])
            BY <3>1 DEF WayInv
        <3>3. stack[i].trail \in Trails
            BY <3>1 DEF WayInv
        <3>4. stack[i].path \subseteq On(stack[i].trail)
            BY <3>1 DEF PathInv
        <3> QED
            BY <3>2, <3>3, <3>4 DEF On
    <2>3. RenderingTypeOK
        BY <2>1, <2>2 DEF RenderingTypeOK
    <2> QED
        BY <2>3 DEF DepthFirst, OrderInv
<1> QED
    BY <1>1, RenderSafe, PTL

-----------------------------------------------------------------------------
LEMMA LastIsLeft ==
    ASSUME NEW fields, fields \in Seq(ToSet(fields)), NEW n \in DOMAIN fields,
           \A k \in n + 1 .. Len(fields) : fields[k].name # fields[n].name
    PROVE  lastByName(fields)[fields[n].name] = fields[n].value
<1> DEFINE S == {i \in DOMAIN fields : fields[i].name = fields[n].name}
<1>1. DOMAIN fields = 1 .. Len(fields) /\ Len(fields) \in Nat
    OBVIOUS
<1>2. n \in S /\ \A i \in S : i \in Nat /\ n >= i
    BY <1>1
<1> HIDE DEF S
<1>3. Max(S) = n
    BY <1>1, <1>2 DEF Max
<1> QED
    BY <1>3 DEF lastByName, S

(* Each node is shown by what its definition asks for: its own marshaler   *)
(* at every level, its formatter and log valuer only at the top            *)
(* (node.go:69-70, definition.go:417-418); of fields of one name JSON      *)
(* shows the last (field.go:130-131).                                      *)
THEOREM NodesShownAsAsked == Spec => []ShownAsAsked
<1>1. RenderInv => ShownAsAsked
    <2> SUFFICES ASSUME WayInv, ShownInv PROVE OwnOptionsDecide /\ FieldsAgree
        BY DEF RenderInv, ShownAsAsked
    <2>1. ASSUME NEW i \in DOMAIN out
          PROVE  (out[i].shows = Own) <=>
                     /\ mode \notin {"nodes", "walk"}
                     /\ TakesOver(ErrorAt(out[i].trail)) /\ (out[i].trail = <<>> \/ mode = "json")
        <3>1. CASE out[i].trail = <<>>
            <4>1. ErrorAt(out[i].trail) = request.root
                BY <3>1 DEF ErrorAt
            <4>2. out[i].shows = IF mode \in {"nodes", "walk"} THEN Nothing
                                 ELSE ShownAtTop(request.root)
                BY <3>1 DEF ShownInv
            <4> QED
                BY <3>1, <4>1, <4>2, OwnDiffers DEF ShownAtTop
        <3>2. CASE out[i].trail # <<>>
            <4>1. out[i].shows = ShownBelow(ErrorAt(out[i].trail))
                BY <3>2 DEF ShownInv
            <4> QED
                BY <3>2, <4>1, OwnDiffers DEF ShownBelow, ShownAtTop, TakesOver
        <3> QED
            BY <3>1, <3>2
    <2>2. ASSUME NEW i \in DOMAIN out, mode = "json", ErrorAt(out[i].trail) \in defined,
                 out[i].shows # Own,
                 NEW n \in DOMAIN request.fields[ErrorAt(out[i].trail)],
                 \A k \in n + 1 .. Len(request.fields[ErrorAt(out[i].trail)]) :
                     request.fields[ErrorAt(out[i].trail)][k].name
                         # request.fields[ErrorAt(out[i].trail)][n].name
          PROVE  out[i].shows.fields[request.fields[ErrorAt(out[i].trail)][n].name]
                     = request.fields[ErrorAt(out[i].trail)][n].value
        <3> DEFINE e == ErrorAt(out[i].trail)
        <3>1. out[i].shows = jsonErrorData(e)
            <4>1. CASE out[i].trail = <<>>
                <5>1. out[i].shows = ShownAtTop(e)
                    BY <2>2, <4>1 DEF ShownInv, ErrorAt
                <5> QED
                    BY <2>2, <5>1 DEF ShownAtTop
            <4>2. CASE out[i].trail # <<>>
                <5>1. out[i].shows = ShownAtTop(e)
                    BY <2>2, <4>2 DEF ShownInv, ShownBelow
                <5> QED
                    BY <2>2, <5>1 DEF ShownAtTop
            <4> QED
                BY <4>1, <4>2
        <3>2. out[i].shows.fields = lastByName(request.fields[e])
            BY <3>1 DEF jsonErrorData
        <3>3. request.fields[e] \in Seq(ToSet(request.fields[e]))
            BY <2>2, RequestTyped, RequestsAssumption DEF WayInv
        <3> QED
            BY <2>2, <3>2, <3>3, LastIsLeft
    <2> QED
        BY <2>1, <2>2 DEF OwnOptionsDecide, FieldsAgree
<1> QED
    BY <1>1, RenderSafe, PTL

-----------------------------------------------------------------------------
(* The slice of a file's lines is where its numbers say, unless its bounds *)
(* are crossed because the end has wrapped.                                *)
LEMMA WindowExact ==
    ASSUME NEW line \in Int, NEW around \in Int, NEW length \in 0 .. MaxInt,
           around > 0, around <= MaxInt
    PROVE  frameSource(line, around, length) =
               IF ~ (1 <= line /\ line <= length) THEN NoSource
               ELSE IF line + around > MaxInt THEN Panic
               ELSE Window(Around(line, around, length))
<1> USE MaxIntAssumption
<1>1. CASE ~ (1 <= line /\ line <= length)
    <2>1. getSourceLines(line, around, length) = NoLines
        BY <1>1 DEF getSourceLines
    <2>2. 1 .. NoLines.end - NoLines.start = {} /\ ~ (NoLines.end < NoLines.start)
        BY DEF NoLines
    <2> DEFINE F == [i \in {} |-> [number |-> Larger(1, line - around) + i - 1, text |-> NoLines.start + i,
                                  marked |-> Larger(1, line - around) + i - 1 = line]]
    <2>3. frameSource(line, around, length) = Window(F)
        BY <2>1, <2>2 DEF frameSource
    <2>4. F = <<>>
        OBVIOUS
    <2> QED
        BY <1>1, <2>3, <2>4 DEF NoSource
<1>2. CASE 1 <= line /\ line <= length /\ line + around > MaxInt
    <2> DEFINE slice == getSourceLines(line, around, length)
    <2>1. wrapped(line + around) < 0
        BY <1>2 DEF wrapped
    <2>2. slice.start >= 0 /\ slice.end < 0 /\ slice.start \in Int /\ slice.end \in Int
        BY <1>2, <2>1 DEF getSourceLines, Larger, Smaller, wrapped
    <2> HIDE DEF slice
    <2>3. slice.end < slice.start
        BY <2>2
    <2> QED
        BY <1>2, <2>3 DEF frameSource, slice
<1>3. CASE 1 <= line /\ line <= length /\ line + around <= MaxInt
    <2> DEFINE slice == getSourceLines(line, around, length)
               start == Larger(1, line - around)
               last == Smaller(length, line + around)
    <2>1. wrapped(line + around) = line + around
        BY <1>3 DEF wrapped
    <2>2. slice.start = start - 1 /\ slice.end = last
        BY <1>3, <2>1 DEF getSourceLines, Larger, Smaller
    <2>3. start \in Int /\ last \in Int /\ start <= last
        BY <1>3 DEF Larger, Smaller
    <2> HIDE DEF slice, start, last
    <2>4. ~ (slice.end < slice.start) /\ slice.end - slice.start = last - start + 1
        BY <2>2, <2>3
    <2>5. frameSource(line, around, length) =
              Window([i \in 1 .. last - start + 1 |->
                         [number |-> start + i - 1, text |-> slice.start + i,
                          marked |-> start + i - 1 = line]])
        BY <2>4 DEF frameSource, slice, start
    <2>6. \A i \in 1 .. last - start + 1 : slice.start + i = start + i - 1
        BY <2>2, <2>3
    <2>7. Around(line, around, length) =
              [i \in 1 .. last - start + 1 |->
                  [number |-> start + i - 1, text |-> start + i - 1,
                   marked |-> start + i - 1 = line]]
        BY DEF Around, start, last
    <2>8. ~ (line + around > MaxInt)
        BY <1>3
    <2> QED
        BY <1>3, <2>5, <2>6, <2>7, <2>8
<1> QED
    BY <1>1, <1>2, <1>3

LEMMA SourceAtExact ==
    ASSUME NEW st, StackTyped(st), NEW i \in DOMAIN st.frames
    PROVE  sourceAt(st, i) =
               IF i \in Overflowing(st) THEN Panic
               ELSE IF HasSource(st, i)
                    THEN Window(Around(st.frames[i].line, st.sourceLines, st.frames[i].length))
                    ELSE NoSource
<1>1. /\ st.frames[i].line \in Int /\ st.frames[i].length \in 0 .. MaxInt
      /\ st.sourceLines \in Int /\ st.sourceLines <= MaxInt
    BY DEF StackTyped
<1>2. CASE ~ Eligible(st, i - 1)
    BY <1>2 DEF sourceAt, Overflowing, HasSource
<1>3. CASE Eligible(st, i - 1)
    <2> DEFINE line == st.frames[i].line
               F == frameSource(line, st.sourceLines, st.frames[i].length)
    <2>1. st.sourceLines > 0
        BY <1>3 DEF Eligible
    <2>2. F = IF ~ (1 <= line /\ line <= st.frames[i].length) THEN NoSource
              ELSE IF line + st.sourceLines > MaxInt THEN Panic
              ELSE Window(Around(line, st.sourceLines, st.frames[i].length))
        BY <1>1, <2>1, WindowExact
    <2>3. sourceAt(st, i) = F
        BY <1>3 DEF sourceAt
    <2>4. HasSource(st, i) <=> 1 <= line /\ line <= st.frames[i].length
        BY <1>3 DEF HasSource
    <2>5. i \in Overflowing(st) <=> HasSource(st, i) /\ line + st.sourceLines > MaxInt
        BY DEF Overflowing
    <2> HIDE DEF line, F
    <2> QED
        BY <2>2, <2>3, <2>4, <2>5 DEF line
<1> QED
    BY <1>2, <1>3

(* A stack panics at the frames that overflow, and at no other.            *)
LEMMA WindowsAreExact ==
    ASSUME NEW st, StackTyped(st)
    PROVE  Panicking(st) = Overflowing(st) /\ WindowsExact(st, FramesAndSource(st))
<1>1. Panicking(st) = Overflowing(st)
    <2>1. \A i \in DOMAIN st.frames : sourceAt(st, i).panics <=> i \in Overflowing(st)
        BY SourceAtExact DEF Panic, Window, NoSource
    <2> QED
        BY <2>1 DEF Panicking, Overflowing
<1>2. /\ DOMAIN FramesAndSource(st) = {i \in DOMAIN st.frames : \A k \in Overflowing(st) : i <= k}
      /\ \A i \in DOMAIN FramesAndSource(st) :
             i \in DOMAIN st.frames /\ FramesAndSource(st)[i] = sourceAt(st, i)
    BY <1>1 DEF FramesAndSource
<1> QED
    BY <1>1, <1>2, SourceAtExact DEF WindowsExact

(* The source lines shown with a frame are those around its line, each     *)
(* under its own number, for files and settings of any size; where the     *)
(* line and the setting add up to more than the largest int the slice      *)
(* panics, and the rendering shows nothing more (stack.go:121-142, 170-193, *)
(* 203-217).                                                               *)
THEOREM SourcesAreExact == Spec => []SourcesExact
<1>1. RenderInv => SourcesExact
    <2> SUFFICES ASSUME WayInv, ShownInv, BreakInv, mode = "text", NEW i \in DOMAIN out,
                        ErrorAt(out[i].trail) \in defined, out[i].shows # Own
                 PROVE  /\ WindowsExact(request.stackOf[ErrorAt(out[i].trail)], out[i].shows.sources)
                        /\ Overflowing(request.stackOf[ErrorAt(out[i].trail)]) # {} =>
                               i = Len(out) /\ stack = <<>>
        BY DEF RenderInv, SourcesExact
    <2>1. PICK e, t : e = ErrorAt(t) /\ t = out[i].trail
        OBVIOUS
    <2>2. StackTyped(request.stackOf[e])
        <3>1. e \in Errors
            BY <2>1, RequestTyped
        <3> QED
            BY <3>1, RequestsAssumption DEF WayInv
    <2>3. out[i].shows = formatErrorDetails(e)
        <3>1. CASE t = <<>>
            <4>1. out[i].shows = ShownAtTop(e)
                BY <2>1, <3>1 DEF ShownInv, ErrorAt
            <4> QED
                BY <4>1 DEF ShownAtTop
        <3>2. CASE t # <<>>
            BY <2>1, <3>2 DEF ShownInv, ShownBelow
        <3> QED
            BY <3>1, <3>2
    <2>4. out[i].shows.sources = FramesAndSource(request.stackOf[e])
        BY <2>3 DEF formatErrorDetails
    <2>5. Overflowing(request.stackOf[e]) # {} => Breaks(e)
        BY <2>1, <2>2, WindowsAreExact DEF Breaks
    <2> QED
        BY <2>1, <2>2, <2>4, <2>5, WindowsAreExact DEF BreakInv
<1> QED
    BY <1>1, RenderSafe, PTL

-----------------------------------------------------------------------------
(* Every rendering shows the same tree: each cause of a node that is       *)
(* neither nil nor on the way to it, and no other (error.go:34-35), below  *)
(* every node that does not marshal itself, until a source panics; in JSON *)
(* as long as no cycle goes through a defined error, where a tree is built *)
(* anew.                                                                   *)
THEOREM CausesAreShown ==
    ASSUME Foreign
    PROVE  Spec => []EveryCauseShown
<1>1. Init => OnlyInv
    BY InitBuilt
<1>2. RenderInv /\ OnlyInv /\ [Next]_vars => OnlyInv'
    <2> SUFFICES ASSUME RenderInv, OnlyInv, [Next]_vars PROVE OnlyInv'
        OBVIOUS
    <2>1. WayInv /\ PathInv /\ ReachInv
        BY DEF RenderInv
    <2>2. CASE Start
        BY <2>1, <2>2, BuiltStart
    <2>3. CASE Show \/ Break
        BY <2>1, <2>3, OnlyShow
    <2>4. CASE Skip \/ Leave
        <3>1. request' = request /\ Trails' = Trails
            BY <2>1, <2>4, SkipEffect, LeaveEffect
        <3> QED
            BY <3>1, RequestKept DEF OnlyInv, OnTrail, Above
    <2>5. CASE UNCHANGED vars
        BY <2>5, RenderUnchanged
    <2> QED
        BY <2>2, <2>3, <2>4, <2>5 DEF Next
<1>3. RenderInv /\ OnlyInv => EveryCauseShown
    <2> SUFFICES ASSUME WayInv, BuiltInv, OnlyInv, Done, NEW t \in Trails,
                        NEW i \in DOMAIN causes(ErrorAt(t)),
                        NEW c, c = causes(ErrorAt(t))[i]
                 PROVE  LET shown == Append(t, [pos |-> i, err |-> c]) \in Trails
                            due   == c # Nil /\ ~ OnTrail(t, c) /\ Descends(t)
                        IN (shown => due) /\ (due => shown \/ BrokenOff)
        BY DEF RenderInv, EveryCauseShown, Descends
    <2> DEFINE u == Append(t, [pos |-> i, err |-> c])
    <2>1. \A n : Passed(t, n)
        BY DEF Passed, Done
    <2>2. c # Nil /\ ~ OnTrail(t, c) /\ Descends(t) => u \in Trails \/ BrokenOff
        BY <2>1 DEF BuiltInv, AllBuilt
    <2>3. t \in Trail /\ ErrorAt(t) \in Errors /\ i \in Nat \ {0} /\ c \in Errors \cup {Nil}
        BY ErrorAtTyped, RequestTyped
    <2>4. CASE c = Nil
        <3>1. ASSUME u \in Trail PROVE FALSE
            <4> DEFINE T == Step \cup {[pos |-> i, err |-> c]}
            <4>1. t \in Seq(T) /\ [pos |-> i, err |-> c] \in T
                BY <2>3, SeqMonotonic DEF Trail
            <4> HIDE DEF T, Step
            <4>2. Len(t) \in Nat /\ Len(u) = Len(t) + 1 /\ u[Len(t) + 1] = [pos |-> i, err |-> c]
                BY <4>1, AppendProperties, LenProperties
            <4>3. u[Len(t) + 1].err \in Errors
                <5>1. Len(t) + 1 \in DOMAIN u
                    BY <3>1, <4>2, TrailTyped
                <5> HIDE DEF u
                <5> QED
                    BY <3>1, <5>1, TrailTyped
            <4> QED
                BY <2>4, <4>2, <4>3, RequestTyped
        <3> QED
            BY <2>4, <3>1, ErrorAtTyped
    <2>5. CASE c # Nil
        <3>1. [pos |-> i, err |-> c] \in Step
            BY <2>3, <2>5 DEF Step
        <3>2. u # <<>> /\ Above(u) = t /\ ErrorAt(u) = c
            BY <2>3, <3>1, StepAppended
        <3>3. u \in Trails => Descends(t) /\ ~ OnTrail(t, c)
            BY <3>2 DEF OnlyInv
        <3> QED
            BY <2>2, <2>5, <3>3
    <2> QED
        BY <2>4, <2>5
<1> QED
    BY <1>1, <1>2, <1>3, RenderSafe, PTL DEF Spec
=============================================================================
