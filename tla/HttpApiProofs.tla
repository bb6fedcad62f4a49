--------------------------- MODULE HttpApiProofs ---------------------------
(***************************************************************************)
(* Safety of the HTTP example, and that it implements UserService, for any *)
(* requests, inputs, seed users and number of panics.                      *)
(*                                                                         *)
(* The argument: a request that is writing holds the lock alone, so what   *)
(* it checked is still so; the user it allocated is its own until it is    *)
(* stored; and what a client reads is what the repository decided, since   *)
(* users that are stored or handed out are not written to.                 *)
(***************************************************************************)
EXTENDS HttpApi, FiniteSetTheorems, TLAPS

Local ==
    [in : AllInputs \cup {None}, trace : Traces, out : Out \cup {None},
     status : Nat \cup {None}, body : User \cup ErrorBody \cup {None},
     log : LogLine \cup {None}]

TypeInv ==
    /\ nextID \in Nat \ {0}
    /\ DOMAIN heap \subseteq Address
    /\ heap \in [DOMAIN heap -> User]
    /\ DOMAIN users \subseteq 1..(nextID - 1)
    /\ users \in [DOMAIN users -> DOMAIN heap]
    /\ mutex \in [readers : SUBSET Requests, writer : SUBSET Requests]
    /\ req \in [Requests -> Local]
    /\ pc \in [Requests -> PCs]
    /\ server \in {"running", "draining", "stopped", "forced"}
    /\ panics \in 0..MaxPanics

Inside(p) == pc[p] \in {"check", "store"}

(* Those inside hold the lock, each as its call demands.                   *)
LockInv ==
    /\ mutex.writer = {p \in Requests : Inside(p) /\ Exclusive(p)}
    /\ mutex.readers = {p \in Requests : Inside(p) /\ ~ Exclusive(p)}
    /\ \A p, q \in mutex.writer : p = q
    /\ mutex.writer = {} \/ mutex.readers = {}

(* Before the repository is done with it, a request has no result, and     *)
(* from the handler's checks on it has passed them.                        *)
Undecided(p) == pc[p] \in {"idle", "arrived", "lock", "check", "store"}

AskedInv ==
    \A p \in Requests :
        /\ pc[p] = "idle" => req[p] = Fresh
        /\ pc[p] # "idle" => In(p) \in Inputs[p]
        /\ Undecided(p) => /\ req[p].out = None /\ req[p].status = None
                           /\ req[p].body = None /\ req[p].log = None
        /\ pc[p] \in {"lock", "check", "store"} => Refusal(In(p)) = "ok"
        /\ pc[p] = "store" => Exclusive(p)

(* The user that a creation or an update has allocated.                    *)
Draft(p) ==
    [id |-> IF In(p).call = "create" THEN NoId ELSE In(p).id, email |-> In(p).email]

DraftInv ==
    \A p \in Requests :
        pc[p] \in {"lock", "check", "store"} /\ In(p).call \in {"create", "update"} =>
            p \in DOMAIN heap /\ heap[p] = Draft(p)

(* It is stored nowhere and was handed out to nobody.                      *)
PrivateInv ==
    \A p \in Requests : Undecided(p) =>
        /\ \A i \in DOMAIN users : users[i] # p
        /\ \A q \in Requests : req[q].out # None => req[q].out.user # p

IdInv == \A i \in DOMAIN users : heap[users[i]].id = i

(* What a write has checked still holds.                                   *)
CheckInv ==
    \A p \in Requests : pc[p] = "store" =>
        /\ In(p).call \in {"create", "update"} => ~ Taken(p)
        /\ In(p).call \in {"update", "delete"} => ~ Missing(p)

(* Results are those of a handler or service.                              *)
OutInv ==
    \A p \in Requests : req[p].out # None =>
        LET out == req[p].out IN
        /\ out.verdict # "ok" => out = Error(p, out.verdict)
        /\ out.verdict = "ok" => /\ In(p).call \in DOMAIN PassedOn
                                 /\ out.user = None <=> In(p).call = "delete"
                                 /\ out.user # None => out.user \in DOMAIN heap

Decides(p) == req[p].out # None /\ req[p].status = Status(p)

Told(p) == req[p].body = IF req[p].status = 204 THEN None ELSE Body(req[p].out)

(* How far the answer is.                                                  *)
ReplyInv ==
    \A p \in Requests :
        /\ pc[p] = "respond" =>
              /\ req[p].out # None /\ req[p].status = None
              /\ req[p].body = None /\ req[p].log = None
        /\ pc[p] = "encode" =>
              Decides(p) /\ req[p].status # 204 /\ req[p].body = None /\ req[p].log = None
        /\ pc[p] = "log" => Decides(p) /\ Told(p) /\ req[p].log = None
        /\ pc[p] = "done" =>
              \/ /\ Decides(p) /\ Told(p)
                 /\ req[p].log = [status |-> req[p].status, requestID |-> None]
              \/ /\ req[p].body = Broken /\ req[p].status \in Nat \ {204}
                 /\ req[p].status = 500 \/ Decides(p)
                 /\ req[p].log = None

Created == {p \in Requests : /\ req[p].out # None
                             /\ req[p].out.verdict = "ok" /\ In(p).call = "create"}

(* What was written lasts until it is written over, under an id given; and *)
(* a user whose request wrote nothing is not in the map.                   *)
WroteInv ==
    \A p \in Requests :
        /\ Wrote(p) => Lasts(p)
        /\ Wrote(p) /\ In(p).call = "delete" => In(p).id \in 1..(nextID - 1)
        /\ Wrote(p) /\ In(p).call # "delete" => p \in DOMAIN heap /\ heap[p].id \in 1..(nextID - 1)
        /\ ~ Wrote(p) => \A i \in DOMAIN users : users[i] # p

(* An id is given to each user created.                                    *)
CountInv == nextID = Cardinality(DOMAIN Seed) + 1 + Cardinality(Created)

ApiInv ==
    /\ TypeInv /\ LockInv /\ AskedInv /\ DraftInv /\ PrivateInv
    /\ IdInv /\ EmailsUnique /\ CheckInv /\ OutInv /\ ReplyInv /\ WroteInv /\ CountInv

----------------------------------------------------------------------------
(* Types                                                                   *)

(* What a request asks, once it has arrived.                               *)
LEMMA InputTyped ==
    ASSUME NEW p \in Requests, In(p) \in Inputs[p]
    PROVE  /\ In(p) \in AllInputs /\ In(p) # None
           /\ In(p).call \in Calls
           /\ In(p).email \in Emails
           /\ In(p).call = "create" => In(p).id = None
           /\ In(p).call \in {"get", "update", "delete"} => In(p).id \in Nat
<1>1. In(p) \in AllInputs /\ In(p) # None
    BY NoneAssumption DEF AllInputs
<1>2. In(p).email \in Emails
    BY <1>1 DEF Emails
<1> QED
    BY <1>1, <1>2, InputsAssumption

(* The verdicts of handler and service before the repository.              *)
LEMMA RefusalVerdict ==
    ASSUME NEW in
    PROVE  Refusal(in) \in {"method_not_allowed", "unauthorized", "validation", "forbidden", "ok"}
BY DEF Refusal, Routed, Authenticated

(* What an accepted request has passed.                                    *)
LEMMA RefusalOk ==
    ASSUME NEW in, Refusal(in) = "ok"
    PROVE  Routed(in) /\ Owner(in)
BY DEF Refusal, Routed, Authenticated, Owner

(* A status is below 400 for a success alone, and 204 for a deletion.      *)
LEMMA StatusMeans ==
    ASSUME NEW p \in Requests, req[p].out.verdict \in Verdicts,
           req[p].out.verdict = "ok" => In(p).call \in DOMAIN PassedOn
    PROVE  /\ Status(p) \in Nat
           /\ Status(p) >= 400 <=> req[p].out.verdict # "ok"
           /\ Status(p) = 204 <=> req[p].out.verdict = "ok" /\ In(p).call = "delete"
           /\ Status(p) \in Range(StatusOf) <=>
                 req[p].out.verdict \notin {"ok", "method_not_allowed"}
<1> DEFINE v == req[p].out.verdict
<1>1. CASE v = "ok"
    <2>1. In(p).call \in {"get", "create", "update", "delete"}
        BY <1>1 DEF PassedOn
    <2> QED
        BY <1>1, <2>1 DEF Status, StatusOf, Range
<1>2. CASE v = "method_not_allowed"
    BY <1>2 DEF Status, StatusOf, Range
<1>3. CASE v \in DOMAIN StatusOf
    BY <1>3 DEF Status, StatusOf, Range
<1> QED
    BY <1>1, <1>2, <1>3 DEF Verdicts

(* What a status tells of the result it was made from.                     *)
LEMMA StatusTells ==
    ASSUME TypeInv, OutInv, NEW p \in Requests, req[p].out # None
    PROVE  /\ Status(p) \in Nat /\ req[p].out \in Out
           /\ Status(p) >= 400 <=> req[p].out.verdict # "ok"
           /\ Status(p) = 204 <=> req[p].out.verdict = "ok" /\ In(p).call = "delete"
           /\ Status(p) \in Range(StatusOf) <=>
                 req[p].out.verdict \notin {"ok", "method_not_allowed"}
           /\ Status(p) # 204 /\ req[p].out.verdict = "ok" =>
                 req[p].out.user # None /\ req[p].out.user \in DOMAIN heap
<1>1. req[p].out \in Out /\ req[p].out.verdict \in Verdicts
    BY DEF TypeInv, Local, Out
<1>2. req[p].out.verdict = "ok" => In(p).call \in DOMAIN PassedOn
    BY DEF OutInv
<1>3. /\ Status(p) \in Nat
      /\ Status(p) >= 400 <=> req[p].out.verdict # "ok"
      /\ Status(p) = 204 <=> req[p].out.verdict = "ok" /\ In(p).call = "delete"
      /\ Status(p) \in Range(StatusOf) <=>
             req[p].out.verdict \notin {"ok", "method_not_allowed"}
    BY <1>1, <1>2, StatusMeans
<1> QED
    BY <1>1, <1>3 DEF OutInv


LEMMA TypeInit == Init => TypeInv
<1> SUFFICES ASSUME Init PROVE TypeInv
    OBVIOUS
<1>1. DOMAIN Seed \subseteq Nat /\ DOMAIN Seed = 1..(nextID - 1) /\ nextID \in Nat \ {0}
    <2>1. Cardinality(DOMAIN Seed) \in Nat /\ DOMAIN Seed = 1..Cardinality(DOMAIN Seed)
        BY SeedAssumption, FS_CardinalityType
    <2> QED
        BY <2>1 DEF Init
<1>2. Fresh \in Local
    BY DEF Fresh, Local, Traces
<1>3. \A i \in DOMAIN Seed : Seed[i] \in Emails
    BY DEF Emails, Range
<1>4. req \in [Requests -> Local] /\ pc \in [Requests -> PCs]
    BY <1>2 DEF Init, PCs
<1>5. heap \in [DOMAIN heap -> User] /\ DOMAIN heap = DOMAIN Seed
    BY <1>1, <1>3 DEF Init, User
<1>6. users \in [DOMAIN users -> DOMAIN heap] /\ DOMAIN users = DOMAIN Seed
    BY DEF Init
<1>7. mutex \in [readers : SUBSET Requests, writer : SUBSET Requests]
    BY DEF Init
<1>8. server = "running" /\ panics \in 0..MaxPanics
    BY MaxPanicsAssumption DEF Init
<1> QED
    BY <1>1, <1>4, <1>5, <1>6, <1>7, <1>8 DEF TypeInv, Address

(* What an answer takes from a user is well typed.                         *)
LEMMA BodyTyped ==
    ASSUME TypeInv, NEW out \in Out, out.verdict = "ok" => out.user \in DOMAIN heap
    PROVE  Body(out) \in User \cup ErrorBody
BY DEF TypeInv, Body, Out, ErrorBody, Traces

(* An update finds the user that it replaces.                              *)
LEMMA UpdatePuts ==
    ASSUME CheckInv, NEW p \in Requests, Update(p)
    PROVE  In(p).id \in DOMAIN users /\ users' = [users EXCEPT ![In(p).id] = p]
<1>1. In(p).id \in DOMAIN users
    BY DEF Update, Storing, CheckInv, Missing
<1>2. users' = Put(users, In(p).id, p)
    BY DEF Update
<1> QED
    BY <1>1, <1>2 DEF Put

LEMMA TypeStep ==
    ASSUME TypeInv, AskedInv, OutInv, ReplyInv, CheckInv, DraftInv, [Next]_vars
    PROVE  TypeInv'
<1> USE DEF TypeInv
<1>1. CASE UNCHANGED vars
    BY <1>1 DEF vars
<1>2. ASSUME NEW p \in Requests, Arrive(p)
      PROVE  TypeInv'
    <2>1. PICK in \in Inputs[p], g \in GeneratedIds :
              req' = [req EXCEPT ![p].in = in,
                                 ![p].trace = IF in.header = None THEN g ELSE in.header]
        BY <1>2 DEF Arrive
    <2>2. in \in AllInputs /\ (IF in.header = None THEN g ELSE in.header) \in Traces
        BY DEF AllInputs, Traces
    <2> DEFINE t == IF in.header = None THEN g ELSE in.header
    <2>3. req' \in [Requests -> Local]
        <3>1. req[p] \in Local
            OBVIOUS
        <3>2. [req[p] EXCEPT !.in = in, !.trace = t] \in Local
            BY <2>2, <3>1 DEF Local
        <3>3. req' = [req EXCEPT ![p] = [req[p] EXCEPT !.in = in, !.trace = t]]
            BY <2>1
        <3> QED
            BY <3>2, <3>3
    <2> QED
        BY <1>2, <2>3 DEF Arrive, PCs
<1>3. ASSUME NEW p \in Requests, Step(p)
      PROVE  TypeInv'
    <2>1. pc[p] # "idle" /\ In(p) \in Inputs[p] /\ req[p] \in Local
        BY <1>3 DEF Step, Handle, Lock, FindByID, CheckCreate, CheckUpdate, CheckDelete,
                    Checked, Create, Update, Delete, Storing, Respond, Encode, Log, AskedInv
    <2>2. /\ In(p).call \in Calls /\ In(p).email \in Emails
          /\ In(p).call \in {"get", "update", "delete"} => In(p).id \in Nat
        BY <2>1, InputTyped
    <2>3. ASSUME NEW out \in Out, Return(p, out)
          PROVE  /\ req' \in [Requests -> Local] /\ pc' \in [Requests -> PCs]
                 /\ mutex' \in [readers : SUBSET Requests, writer : SUBSET Requests]
        BY <2>3 DEF Return, Released, PCs, Local
    <2>4. \A k \in Verdicts : Error(p, k) \in Out
        BY DEF Error, Out, Local
    <2>5. \A a \in Address \cup {None} : Done(p, a) \in Out
        BY DEF Done, Out, Verdicts, Traces
    <2>6. CASE Handle(p)
        <3>1. Refusal(In(p)) \in Verdicts
            BY RefusalVerdict DEF Verdicts, StatusOf
        <3>2. Allocated(p) \in [DOMAIN Allocated(p) -> User] /\ DOMAIN heap \subseteq DOMAIN Allocated(p)
              /\ DOMAIN Allocated(p) \subseteq Address
            BY <2>2 DEF Allocated, Put, Address, User, NoId
        <3>3. CASE Refusal(In(p)) = "ok"
            BY <2>6, <3>2, <3>3 DEF Handle, PCs
        <3>4. CASE Refusal(In(p)) # "ok"
            BY <2>4, <2>6, <3>1, <3>4 DEF Handle, PCs, Local
        <3> QED
            BY <3>3, <3>4
    <2>7. CASE Lock(p)
        BY <2>7 DEF Lock, PCs
    <2>9. \A k \in {"database", "not_found", "conflict"} : Returned(p, k) \in Out
        BY <2>4 DEF Returned, Verdicts, StatusOf
    <2>8. ASSUME FindByID(p)
          PROVE  TypeInv'
        <3> DEFINE out == IF Failing THEN Returned(p, "database")
                          ELSE IF Missing(p) THEN Returned(p, "not_found")
                          ELSE Done(p, users[In(p).id])
        <3>1. Return(p, out) /\ UNCHANGED <<users, heap, nextID, server, panics>>
            BY <2>8 DEF FindByID
        <3>2. out \in Out
            BY <2>4, <2>5, <2>9 DEF Missing
        <3> QED
            BY <2>3, <3>1, <3>2
    <2>10. ASSUME NEW call, NEW verdict \in {"ok", "database", "not_found", "conflict"},
                  Checked(p, call, verdict)
           PROVE  TypeInv'
        <3>1. CASE verdict = "ok"
            BY <2>10, <3>1 DEF Checked, PCs
        <3>2. CASE verdict # "ok"
            BY <2>3, <2>9, <2>10, <3>2 DEF Checked
        <3> QED
            BY <3>1, <3>2
    <2>11. CASE Create(p)
        <3>1. p \in DOMAIN heap /\ Return(p, Done(p, p))
            BY <2>11 DEF Create, Storing, DraftInv
        <3>2. heap' \in [DOMAIN heap' -> User] /\ DOMAIN heap' = DOMAIN heap
            <4>1. [heap[p] EXCEPT !.id = nextID] \in User
                BY <3>1 DEF User
            <4>2. heap' = [heap EXCEPT ![p] = [heap[p] EXCEPT !.id = nextID]]
                BY <2>11 DEF Create
            <4> QED
                BY <4>1, <4>2
        <3>3. /\ users' \in [DOMAIN users' -> DOMAIN heap]
              /\ DOMAIN users' \subseteq 1..(nextID' - 1) /\ nextID' \in Nat \ {0}
            BY <2>11, <3>1 DEF Create, Put
        <3> QED
            BY <2>3, <2>5, <2>11, <3>1, <3>2, <3>3 DEF Create, Address
    <2>12. CASE Update(p)
        <3>1. p \in DOMAIN heap /\ Return(p, Done(p, p))
            BY <2>12 DEF Update, Storing, DraftInv
        <3>2. users' \in [DOMAIN users -> DOMAIN heap] /\ DOMAIN users' = DOMAIN users
            BY <2>12, <3>1, UpdatePuts
        <3> QED
            BY <2>3, <2>5, <2>12, <3>1, <3>2 DEF Update, Address
    <2>13. CASE Delete(p)
        BY <2>3, <2>5, <2>13 DEF Delete, Storing, Restrict, Address
    <2>14. CASE Respond(p)
        <3>1. Status(p) \in Nat
            <4>1. req[p].out # None
                BY <2>14 DEF Respond, ReplyInv
            <4> QED
                BY <4>1, StatusTells
        <3>2. [req[p] EXCEPT !.status = Status(p)] \in Local
            BY <2>1, <3>1 DEF Local
        <3>3. req' = [req EXCEPT ![p] = [req[p] EXCEPT !.status = Status(p)]]
            BY <2>14 DEF Respond
        <3>4. req' \in [Requests -> Local]
            BY <3>2, <3>3
        <3> QED
            BY <2>14, <3>4 DEF Respond, PCs
    <2>15. CASE Encode(p)
        <3>1. /\ req[p].out \in Out
              /\ req[p].out.verdict = "ok" => req[p].out.user \in DOMAIN heap
            <4>1. req[p].out # None /\ Status(p) # 204
                <5>1. Decides(p) /\ req[p].status # 204
                    BY <2>15 DEF Encode, ReplyInv
                <5> QED
                    BY <5>1 DEF Decides
            <4>2. req[p].out \in Out /\ req[p].out.verdict \in Verdicts
                BY <4>1 DEF Local, Out
            <4>3. req[p].out.verdict = "ok" => In(p).call \in DOMAIN PassedOn
                BY <4>1 DEF OutInv
            <4>4. req[p].out.verdict = "ok" => In(p).call # "delete"
                BY <4>1, <4>2, <4>3, StatusMeans
            <4> QED
                BY <4>1, <4>2, <4>4 DEF OutInv
        <3>2. [req[p] EXCEPT !.body = Body(req[p].out)] \in Local
            BY <2>1, <3>1, BodyTyped DEF Local
        <3>3. req' = [req EXCEPT ![p] = [req[p] EXCEPT !.body = Body(req[p].out)]]
            BY <2>15 DEF Encode
        <3>4. req' \in [Requests -> Local]
            BY <3>2, <3>3
        <3> QED
            BY <2>15, <3>4 DEF Encode, PCs
    <2>16. CASE Log(p)
        <3> DEFINE line == [status |-> req[p].status, requestID |-> None]
        <3>1. line \in LogLine
            <4>1. req[p].out # None /\ req[p].status = Status(p)
                BY <2>16 DEF Log, ReplyInv, Decides
            <4>2. req[p].status \in Nat
                BY <4>1, StatusTells
            <4> QED
                BY <4>2 DEF LogLine
        <3>2. [req[p] EXCEPT !.log = line] \in Local
            BY <2>1, <3>1 DEF Local
        <3>3. req' = [req EXCEPT ![p] = [req[p] EXCEPT !.log = line]]
            BY <2>16 DEF Log
        <3>4. req' \in [Requests -> Local]
            BY <3>2, <3>3
        <3> QED
            BY <2>16, <3>4 DEF Log, PCs
    <2> QED
        BY <1>3, <2>6, <2>7, <2>8, <2>10, <2>11, <2>12, <2>13, <2>14, <2>15, <2>16
        DEF Step, CheckCreate, CheckUpdate, CheckDelete
<1>4. ASSUME NEW p \in Requests, Panic(p)
      PROVE  TypeInv'
    <2> DEFINE s == IF req[p].status = None THEN StatusOf["internal"] ELSE req[p].status
    <2>1. s \in Nat
        <3>1. req[p].status \in Nat \cup {None}
            BY DEF TypeInv, Local
        <3>2. StatusOf["internal"] \in Nat
            BY DEF StatusOf
        <3> QED
            BY <3>1, <3>2
    <2>2. Broken \in ErrorBody
        BY DEF Broken, ErrorBody, Traces
    <2>3. [req[p] EXCEPT !.status = s, !.body = Broken] \in Local
        <3>1. PICK r : r = [req[p] EXCEPT !.status = s]
            OBVIOUS
        <3>2. r \in Local
            <4>1. req[p] \in Local
                BY DEF TypeInv
            <4> HIDE DEF s
            <4> QED
                BY <2>1, <3>1, <4>1 DEF Local
        <3>3. [r EXCEPT !.body = Broken] \in Local
            BY <2>2, <3>2 DEF Local
        <3> QED
            BY <3>1, <3>3
    <2>4. req' = [req EXCEPT ![p] = [req[p] EXCEPT !.status = s, !.body = Broken]]
        BY <1>4 DEF Panic, Panicking
    <2>5. req' \in [Requests -> Local]
        BY <2>3, <2>4
    <2>6. panics' \in 0..MaxPanics
        BY <1>4, MaxPanicsAssumption DEF Panic, Panicking
    <2> QED
        BY <1>4, <2>5, <2>6 DEF Panic, Panicking, Released, PCs
<1>5. CASE Interrupt \/ Shutdown \/ Timeout
    BY <1>5 DEF Interrupt, Shutdown, Timeout
<1> QED
    BY <1>1, <1>2, <1>3, <1>4, <1>5 DEF Next, Serve

----------------------------------------------------------------------------
(* What a step of one request leaves alone                                 *)

Same(q) == req'[q] = req[q] /\ pc'[q] = pc[q]

LEMMA ReturnEffect ==
    ASSUME TypeInv, NEW p \in Requests, NEW out, Return(p, out)
    PROVE  /\ req'[p] = [req[p] EXCEPT !.out = out]
           /\ pc'[p] = "respond"
           /\ \A q \in Requests : q # p => Same(q)
           /\ mutex'.readers = mutex.readers \ {p} /\ mutex'.writer = mutex.writer \ {p}
BY DEF TypeInv, Return, Released, Same

LEMMA ArriveEffect ==
    ASSUME TypeInv, NEW p \in Requests, Arrive(p)
    PROVE  /\ \E in \in Inputs[p], t \in Traces : req'[p] = [req[p] EXCEPT !.in = in, !.trace = t]
           /\ pc[p] = "idle" /\ pc'[p] = "arrived"
           /\ \A q \in Requests : q # p => Same(q)
           /\ UNCHANGED <<users, heap, nextID, mutex, server, panics>>
<1>1. PICK in \in Inputs[p], g \in GeneratedIds :
          req' = [req EXCEPT ![p].in = in,
                             ![p].trace = IF in.header = None THEN g ELSE in.header]
    BY DEF Arrive
<1> DEFINE t == IF in.header = None THEN g ELSE in.header
<1>2. t \in Traces
    BY DEF Traces, AllInputs
<1>3. req'[p] = [req[p] EXCEPT !.in = in, !.trace = t]
    BY <1>1 DEF TypeInv
<1> QED
    BY <1>1, <1>2, <1>3 DEF Arrive, TypeInv, Same

(* A request keeps its input and its trace once it has arrived.            *)
LEMMA StepEffect ==
    ASSUME TypeInv, NEW p \in Requests, Step(p) \/ Panic(p)
    PROVE  /\ pc[p] # "idle" /\ pc'[p] # "idle"
           /\ In(p)' = In(p) /\ req'[p].trace = req[p].trace
           /\ \A q \in Requests : q # p => Same(q)
<1> USE DEF In
<1>1. ASSUME NEW out, Return(p, out), pc[p] \in {"check", "store"}
      PROVE  /\ pc[p] # "idle" /\ pc'[p] # "idle"
             /\ In(p)' = In(p) /\ req'[p].trace = req[p].trace
             /\ \A q \in Requests : q # p => Same(q)
    <2>1. req[p] \in Local
        BY DEF TypeInv
    <2>2. req'[p] = [req[p] EXCEPT !.out = out]
        BY <1>1 DEF Return, TypeInv
    <2>3. req'[p].in = req[p].in /\ req'[p].trace = req[p].trace
        BY <2>1, <2>2 DEF Local
    <2>4. pc[p] # "idle" /\ pc'[p] # "idle" /\ \A q \in Requests : q # p => Same(q)
        BY <1>1, ReturnEffect
    <2> QED
        BY <2>3, <2>4
<1>2. CASE Handle(p)
    BY <1>2 DEF Handle, TypeInv, Local, Same
<1>3. CASE Lock(p) \/ Respond(p) \/ Encode(p) \/ Log(p)
    BY <1>3 DEF Lock, Respond, Encode, Log, TypeInv, Local, Same
<1>4. CASE FindByID(p) \/ Create(p) \/ Update(p) \/ Delete(p)
    BY <1>1, <1>4 DEF FindByID, Create, Update, Delete, Storing
<1>5. ASSUME NEW call, NEW verdict, Checked(p, call, verdict)
      PROVE  /\ pc[p] # "idle" /\ pc'[p] # "idle"
             /\ In(p)' = In(p) /\ req'[p].trace = req[p].trace
             /\ \A q \in Requests : q # p => Same(q)
    <2>1. CASE verdict = "ok"
        BY <1>5, <2>1 DEF Checked, TypeInv, Same
    <2>2. CASE verdict # "ok"
        BY <1>1, <1>5, <2>2 DEF Checked
    <2> QED
        BY <2>1, <2>2
<1>6. CASE Panic(p)
    BY <1>6 DEF Panic, Panicking, TypeInv, Local, Same
<1> QED
    BY <1>2, <1>3, <1>4, <1>5, <1>6 DEF Step, CheckCreate, CheckUpdate, CheckDelete

----------------------------------------------------------------------------
(* The lock                                                                *)

(* Who is in the repository stays there, with the call it came with.       *)
LEMMA LockKept ==
    ASSUME LockInv, mutex' = mutex,
           \A q \in Requests : (Inside(q)' <=> Inside(q)) /\ (Inside(q) => In(q)' = In(q))
    PROVE  LockInv'
BY DEF LockInv, Exclusive

(* One leaves it and releases the lock.                                    *)
LEMMA LockReleased ==
    ASSUME LockInv, NEW p \in Requests,
           mutex'.readers = mutex.readers \ {p}, mutex'.writer = mutex.writer \ {p},
           \A q \in Requests : (Inside(q)' <=> Inside(q) /\ q # p) /\ (q # p => In(q)' = In(q))
    PROVE  LockInv'
BY DEF LockInv, Exclusive

LEMMA LockStep == ASSUME TypeInv, LockInv, [Next]_vars PROVE LockInv'
<1>1. CASE UNCHANGED vars
    BY <1>1, LockKept DEF vars, Inside, In
<1>2. ASSUME NEW p \in Requests, Arrive(p)
      PROVE  LockInv'
    BY <1>2, ArriveEffect, LockKept DEF Inside, In, Same
<1>3. ASSUME NEW p \in Requests, Step(p)
      PROVE  LockInv'
    <2>1. /\ In(p)' = In(p)
          /\ \A q \in Requests : q # p => Same(q)
        BY <1>3, StepEffect
    <2>2. ASSUME NEW out, Return(p, out)
          PROVE  LockInv'
        <3>1. \A q \in Requests : (Inside(q)' <=> Inside(q) /\ q # p) /\ (q # p => In(q)' = In(q))
            BY <2>1, <2>2, ReturnEffect DEF Inside, Same, In
        <3> QED
            BY <2>2, <3>1, ReturnEffect, LockReleased
    <2>3. ASSUME mutex' = mutex, Inside(p)' <=> Inside(p)
          PROVE  LockInv'
        BY <2>1, <2>3, LockKept DEF Inside, Same, In
    <2>4. CASE Lock(p)
        <3>1. \A q \in Requests : Inside(q)' <=> Inside(q) \/ q = p
            BY <2>1, <2>4 DEF Lock, Inside, Same, TypeInv
        <3>2. \A q \in Requests : Exclusive(q)' <=> Exclusive(q)
            BY <2>1 DEF Exclusive, In, Same
        <3>3. ~ Inside(p) /\ mutex.writer = {} /\ (Exclusive(p) => mutex.readers = {})
            BY <2>4 DEF Lock, Inside
        <3>4. IF Exclusive(p) THEN mutex'.writer = {p} /\ mutex'.readers = mutex.readers
              ELSE mutex'.writer = mutex.writer /\ mutex'.readers = mutex.readers \cup {p}
            BY <2>4 DEF Lock, TypeInv
        <3> QED
            BY <3>1, <3>2, <3>3, <3>4 DEF LockInv
    <2>5. CASE Handle(p)
        BY <2>3, <2>5 DEF Handle, Inside, TypeInv
    <2>6. CASE Respond(p) \/ Encode(p) \/ Log(p)
        BY <2>3, <2>6 DEF Respond, Encode, Log, Inside, TypeInv
    <2>7. CASE FindByID(p) \/ Create(p) \/ Update(p) \/ Delete(p)
        BY <2>2, <2>7 DEF FindByID, Create, Update, Delete
    <2>8. ASSUME NEW call, NEW verdict, Checked(p, call, verdict)
          PROVE  LockInv'
        BY <2>2, <2>3, <2>8 DEF Checked, Inside, TypeInv
    <2> QED
        BY <1>3, <2>4, <2>5, <2>6, <2>7, <2>8 DEF Step, CheckCreate, CheckUpdate, CheckDelete
<1>4. ASSUME NEW p \in Requests, Panic(p)
      PROVE  LockInv'
    <2>1. \A q \in Requests : (Inside(q)' <=> Inside(q) /\ q # p) /\ (q # p => In(q)' = In(q))
        BY <1>4, StepEffect DEF Panic, Panicking, Inside, Same, In, TypeInv
    <2> QED
        BY <1>4, <2>1, LockReleased DEF Panic, Released
<1>5. CASE Interrupt \/ Shutdown \/ Timeout
    BY <1>5, LockKept DEF Interrupt, Shutdown, Timeout, Inside, In
<1> QED
    BY <1>1, <1>2, <1>3, <1>4, <1>5 DEF Next, Serve

----------------------------------------------------------------------------
(* Inputs, drafts and results                                              *)

LEMMA AskedStep == ASSUME TypeInv, AskedInv, [Next]_vars PROVE AskedInv'
<1>1. CASE UNCHANGED vars
    BY <1>1 DEF vars, AskedInv, Undecided, In, Exclusive
<1>2. ASSUME NEW p \in Requests, NEW q \in Requests, Same(q), q # p
      PROVE  /\ pc'[q] = "idle" => req'[q] = Fresh
             /\ pc'[q] # "idle" => In(q)' \in Inputs[q]
             /\ Undecided(q)' => /\ req'[q].out = None /\ req'[q].status = None
                                 /\ req'[q].body = None /\ req'[q].log = None
             /\ pc'[q] \in {"lock", "check", "store"} => Refusal(In(q)') = "ok"
             /\ pc'[q] = "store" => Exclusive(q)'
    BY <1>2 DEF AskedInv, Undecided, In, Exclusive, Same
<1>3. ASSUME NEW p \in Requests, Arrive(p)
      PROVE  AskedInv'
    <2>1. /\ pc'[p] = "arrived" /\ In(p)' \in Inputs[p]
          /\ req'[p].out = None /\ req'[p].status = None
          /\ req'[p].body = None /\ req'[p].log = None
        <3>1. PICK in \in Inputs[p], t \in Traces : req'[p] = [req[p] EXCEPT !.in = in, !.trace = t]
            BY <1>3, ArriveEffect
        <3>2. req[p] = Fresh /\ pc'[p] = "arrived"
            BY <1>3, ArriveEffect DEF AskedInv
        <3>3. req'[p] = [Fresh EXCEPT !.in = in, !.trace = t]
            BY <3>1, <3>2
        <3> QED
            BY <3>2, <3>3 DEF Fresh, In
    <2> QED
        BY <1>2, <1>3, <2>1, ArriveEffect DEF AskedInv
<1>4. ASSUME NEW p \in Requests, Step(p)
      PROVE  AskedInv'
    <2>1. /\ pc[p] # "idle" /\ pc'[p] # "idle" /\ In(p)' = In(p)
          /\ \A q \in Requests : q # p => Same(q)
        BY <1>4, StepEffect
    <2>2. ASSUME ~ Undecided(p)'
          PROVE  AskedInv'
        BY <1>2, <2>1, <2>2 DEF AskedInv, Undecided
    <2>3. ASSUME req' = req, Undecided(p),
                 pc'[p] \in {"lock", "check", "store"}, Refusal(In(p)) = "ok",
                 pc'[p] = "store" => Exclusive(p)
          PROVE  AskedInv'
        BY <1>2, <2>1, <2>3 DEF AskedInv, Exclusive
    <2>4. CASE Handle(p)
        BY <2>2, <2>3, <2>4 DEF Handle, TypeInv, Undecided
    <2>5. CASE Lock(p)
        BY <2>3, <2>5 DEF Lock, AskedInv, TypeInv, Undecided
    <2>6. CASE Respond(p) \/ Encode(p) \/ Log(p)
        BY <2>2, <2>6 DEF Respond, Encode, Log, TypeInv, Undecided
    <2>7. CASE FindByID(p) \/ Create(p) \/ Update(p) \/ Delete(p)
        BY <2>2, <2>7, ReturnEffect DEF FindByID, Create, Update, Delete, Undecided
    <2>8. ASSUME NEW call \in Writes, NEW verdict, Checked(p, call, verdict)
          PROVE  AskedInv'
        <3>1. CASE verdict = "ok"
            BY <2>3, <2>8, <3>1 DEF Checked, AskedInv, TypeInv, Undecided, Exclusive
        <3>2. CASE verdict # "ok"
            BY <2>2, <2>8, <3>2, ReturnEffect DEF Checked, Undecided
        <3> QED
            BY <3>1, <3>2
    <2> QED
        BY <1>4, <2>4, <2>5, <2>6, <2>7, <2>8 DEF Step, CheckCreate, CheckUpdate, CheckDelete, Writes
<1>5. ASSUME NEW p \in Requests, Panic(p)
      PROVE  AskedInv'
    <2>1. pc'[p] = "done" /\ In(p)' = In(p) /\ \A q \in Requests : q # p => Same(q)
        BY <1>5, StepEffect DEF Panic, Panicking, TypeInv
    <2> QED
        BY <1>2, <1>5, <2>1, StepEffect DEF AskedInv, Undecided
<1>6. CASE Interrupt \/ Shutdown \/ Timeout
    BY <1>6 DEF Interrupt, Shutdown, Timeout, AskedInv, Undecided, In, Exclusive
<1> QED
    BY <1>1, <1>3, <1>4, <1>5, <1>6 DEF Next, Serve

(* A step writes to no user but the one its request has allocated and not  *)
(* handed out yet.                                                         *)
LEMMA HeapEffect ==
    ASSUME TypeInv, DraftInv, NEW p \in Requests, Step(p)
    PROVE  /\ DOMAIN heap \subseteq DOMAIN heap'
           /\ \A a \in DOMAIN heap : a # p => heap'[a] = heap[a]
           /\ heap' # heap => pc[p] \in {"arrived", "store"}
<1>1. CASE Handle(p)
    BY <1>1 DEF Handle, Allocated, Put
<1>2. CASE Create(p)
    <2>1. p \in DOMAIN heap
        BY <1>2 DEF Create, Storing, DraftInv
    <2> QED
        BY <1>2, <2>1 DEF Create, Storing, TypeInv
<1>3. CASE UNCHANGED heap
    BY <1>3
<1> QED
    BY <1>1, <1>2, <1>3 DEF Step, Lock, FindByID, CheckCreate, CheckUpdate, CheckDelete, Checked,
                            Update, Delete, Respond, Encode, Log

(* How a request gets its result.                                          *)
LEMMA OutEffect ==
    ASSUME TypeInv, AskedInv, NEW p \in Requests, Step(p)
    PROVE  \/ req'[p].out = req[p].out /\ (Undecided(p)' <=> Undecided(p))
           \/ /\ Undecided(p) /\ req[p].out = None /\ pc'[p] = "respond"
              /\ req'[p] = [req[p] EXCEPT !.out = req'[p].out]
              /\ \/ \E k \in Verdicts \ {"ok"} : req'[p].out = Error(p, k)
                 \/ /\ FindByID(p) /\ ~ Missing(p)
                    /\ req'[p].out = Done(p, users[In(p).id])
                 \/ (Create(p) \/ Update(p)) /\ req'[p].out = Done(p, p)
                 \/ Delete(p) /\ req'[p].out = Done(p, None)
<1>0. req[p] \in Local /\ (Undecided(p) => req[p].out = None)
    BY DEF TypeInv, AskedInv
<1>1. ASSUME NEW out, Return(p, out)
      PROVE  /\ req'[p].out = out /\ pc'[p] = "respond"
             /\ req'[p] = [req[p] EXCEPT !.out = req'[p].out]
    <2>1. req'[p] = [req[p] EXCEPT !.out = out] /\ pc'[p] = "respond"
        BY <1>1, ReturnEffect
    <2>2. [req[p] EXCEPT !.out = out].out = out
        BY <1>0 DEF Local
    <2> QED
        BY <2>1, <2>2
<1>2. \A k \in {"database", "not_found", "conflict"} :
          \E j \in Verdicts \ {"ok"} : Returned(p, k) = Error(p, j)
    BY DEF Returned, Verdicts, StatusOf
<1>3. CASE Handle(p)
    <2>1. Refusal(In(p)) \in Verdicts
        BY RefusalVerdict DEF Verdicts, StatusOf
    <2> QED
        BY <1>0, <1>3, <2>1 DEF Handle, TypeInv, Undecided, Local
<1>4. CASE Lock(p) \/ Respond(p) \/ Encode(p) \/ Log(p)
    BY <1>0, <1>4 DEF Lock, Respond, Encode, Log, TypeInv, Undecided, Local
<1>5. CASE FindByID(p)
    <2>1. Undecided(p)
        BY <1>5 DEF FindByID, Undecided
    <2>2. CASE Failing \/ Missing(p)
        BY <1>0, <1>1, <1>2, <1>5, <2>1, <2>2 DEF FindByID
    <2>3. CASE ~ Failing /\ ~ Missing(p)
        BY <1>0, <1>1, <1>5, <2>1, <2>3 DEF FindByID
    <2> QED
        BY <2>2, <2>3
<1>6. ASSUME NEW call, NEW verdict \in {"ok", "database", "not_found", "conflict"},
             Checked(p, call, verdict)
      PROVE  \/ req'[p].out = req[p].out /\ Undecided(p) /\ Undecided(p)'
             \/ /\ Undecided(p) /\ req[p].out = None /\ pc'[p] = "respond"
                /\ req'[p] = [req[p] EXCEPT !.out = req'[p].out]
                /\ \E k \in Verdicts \ {"ok"} : req'[p].out = Error(p, k)
    <2>1. Undecided(p)
        BY <1>6 DEF Checked, Undecided
    <2> QED
        <3>1. CASE verdict = "ok"
            BY <1>6, <2>1, <3>1 DEF Checked, TypeInv, Undecided
        <3>2. CASE verdict # "ok"
            <4>1. Return(p, Returned(p, verdict))
                BY <1>6, <3>2 DEF Checked
            <4> QED
                BY <1>0, <1>1, <1>2, <1>6, <2>1, <3>2, <4>1
        <3> QED
            BY <3>1, <3>2
<1>7. CASE Create(p) \/ Update(p) \/ Delete(p)
    <2>1. Undecided(p)
        BY <1>7 DEF Create, Update, Delete, Storing, Undecided
    <2> QED
        BY <1>0, <1>1, <1>7, <2>1 DEF Create, Update, Delete
<1> QED
    BY <1>3, <1>4, <1>5, <1>6, <1>7 DEF Step, CheckCreate, CheckUpdate, CheckDelete

(* What arrivals, panics and the shutdown leave alone.                     *)
LEMMA QuietEffect ==
    ASSUME TypeInv, AskedInv, [Next]_vars, ~ \E p \in Requests : Step(p)
    PROVE  /\ UNCHANGED <<users, heap, nextID>>
           /\ \A q \in Requests :
                /\ req'[q].out = req[q].out
                /\ Undecided(q)' => Undecided(q)
                /\ pc[q] # "idle" => In(q)' = In(q) /\ req'[q].trace = req[q].trace
                /\ pc'[q] \notin {"arrived", "done"} => Same(q)
<1> DEFINE Kept(q) ==
        /\ req'[q].out = req[q].out
        /\ Undecided(q)' => Undecided(q)
        /\ pc[q] # "idle" => In(q)' = In(q) /\ req'[q].trace = req[q].trace
        /\ pc'[q] \notin {"arrived", "done"} => Same(q)
<1>1. \A q \in Requests : Same(q) => Kept(q)
    BY DEF Same, Undecided, In
<1>2. CASE UNCHANGED vars
    BY <1>1, <1>2 DEF vars, Same
<1>3. ASSUME NEW p \in Requests, Arrive(p)
      PROVE  UNCHANGED <<users, heap, nextID>> /\ \A q \in Requests : Kept(q)
    <2>1. PICK in \in Inputs[p], t \in Traces : req'[p] = [req[p] EXCEPT !.in = in, !.trace = t]
        BY <1>3, ArriveEffect
    <2>2. req'[p].out = req[p].out
        BY <2>1 DEF TypeInv, Local
    <2>3. Kept(p)
        BY <1>3, <2>2, ArriveEffect DEF Undecided
    <2> QED
        BY <1>1, <1>3, <2>3, ArriveEffect
<1>4. ASSUME NEW p \in Requests, Panic(p)
      PROVE  UNCHANGED <<users, heap, nextID>> /\ \A q \in Requests : Kept(q)
    <2>1. req'[p].out = req[p].out /\ pc'[p] = "done"
        BY <1>4 DEF Panic, Panicking, TypeInv, Local
    <2>2. Kept(p)
        BY <1>4, <2>1, StepEffect DEF Undecided
    <2> QED
        BY <1>1, <1>4, <2>2, StepEffect DEF Panic, Panicking
<1>5. CASE Interrupt \/ Shutdown \/ Timeout
    BY <1>1, <1>5 DEF Interrupt, Shutdown, Timeout, Same
<1> QED
    BY <1>2, <1>3, <1>4, <1>5 DEF Next, Serve

LEMMA DraftStep == ASSUME TypeInv, AskedInv, DraftInv, [Next]_vars PROVE DraftInv'
<1>1. CASE ~ \E p \in Requests : Step(p)
    <2>1. UNCHANGED heap
          /\ \A q \in Requests : pc'[q] \in {"lock", "check", "store"} => Same(q)
        BY <1>1, QuietEffect
    <2> QED
        BY <2>1 DEF DraftInv, Draft, In, Same
<1>2. ASSUME NEW p \in Requests, Step(p)
      PROVE  DraftInv'
    <2>1. In(p)' = In(p) /\ \A q \in Requests : q # p => Same(q)
        BY <1>2, StepEffect
    <2>2. DOMAIN heap \subseteq DOMAIN heap' /\ \A a \in DOMAIN heap : a # p => heap'[a] = heap[a]
        BY <1>2, HeapEffect
    <2>3. \A q \in Requests : q # p =>
             (pc'[q] \in {"lock", "check", "store"} /\ In(q)'.call \in {"create", "update"} =>
                  q \in DOMAIN heap' /\ heap'[q] = Draft(q)')
        BY <2>1, <2>2 DEF DraftInv, Draft, In, Same
    <2>4. pc'[p] \in {"lock", "check", "store"} /\ In(p)'.call \in {"create", "update"} =>
              p \in DOMAIN heap' /\ heap'[p] = Draft(p)'
        <3>1. CASE Handle(p)
            <4>1. Draft(p)' = Draft(p)
                BY <2>1 DEF Draft
            <4> QED
                BY <2>1, <3>1, <4>1 DEF Handle, Allocated, Put, Draft, TypeInv
        <3>2. CASE Lock(p)
            BY <2>1, <3>2 DEF Lock, DraftInv, Draft
        <3>3. CASE FindByID(p) \/ Create(p) \/ Update(p) \/ Delete(p)
            BY <3>3, ReturnEffect DEF FindByID, Create, Update, Delete
        <3>4. ASSUME NEW call, NEW verdict, Checked(p, call, verdict)
              PROVE  pc'[p] \in {"lock", "check", "store"} /\ In(p)'.call \in {"create", "update"} =>
                         p \in DOMAIN heap' /\ heap'[p] = Draft(p)'
            <4>1. CASE verdict = "ok"
                BY <2>1, <3>4, <4>1 DEF Checked, DraftInv, Draft
            <4>2. CASE verdict # "ok"
                BY <3>4, <4>2, ReturnEffect DEF Checked
            <4> QED
                BY <4>1, <4>2
        <3>5. CASE Respond(p) \/ Encode(p) \/ Log(p)
            BY <3>5 DEF Respond, Encode, Log, TypeInv
        <3> QED
            BY <1>2, <3>1, <3>2, <3>3, <3>4, <3>5 DEF Step, CheckCreate, CheckUpdate, CheckDelete
    <2> QED
        BY <2>3, <2>4 DEF DraftInv
<1> QED
    BY <1>1, <1>2

(* The map after a step: what it had, or the user the step stores.         *)
LEMMA UsersEffect ==
    ASSUME TypeInv, NEW p \in Requests, Step(p)
    PROVE  \A i \in DOMAIN users' :
              \/ i \in DOMAIN users /\ users'[i] = users[i]
              \/ users'[i] = p /\ ((Create(p) /\ i = nextID) \/ (Update(p) /\ i = In(p).id))
<1>1. CASE Create(p)
    BY <1>1 DEF Create, Put
<1>2. CASE Update(p)
    BY <1>2 DEF Update, Put
<1>3. CASE Delete(p)
    BY <1>3 DEF Delete, Restrict
<1>4. CASE UNCHANGED users
    BY <1>4
<1> QED
    BY <1>1, <1>2, <1>3, <1>4 DEF Step, Handle, Lock, FindByID, CheckCreate, CheckUpdate,
                                  CheckDelete, Checked, Respond, Encode, Log

LEMMA PrivateStep == ASSUME TypeInv, AskedInv, PrivateInv, [Next]_vars PROVE PrivateInv'
<1>1. CASE ~ \E p \in Requests : Step(p)
    BY <1>1, QuietEffect DEF PrivateInv
<1>2. ASSUME NEW p \in Requests, Step(p), NEW q \in Requests, Undecided(q)'
      PROVE  /\ \A i \in DOMAIN users' : users'[i] # q
             /\ \A r \in Requests : req'[r].out # None => req'[r].out.user # q
    <2>1. \A r \in Requests : r # p => Same(r)
        BY <1>2, StepEffect
    <2>2. Undecided(q)
        BY <1>2, <2>1, OutEffect DEF Same, Undecided
    <2>3. Create(p) \/ Update(p) => q # p
        BY <1>2, ReturnEffect DEF Create, Update, Undecided
    <2>4. \A i \in DOMAIN users' : users'[i] # q
        BY <1>2, <2>2, <2>3, UsersEffect DEF PrivateInv
    <2>5. req'[p].out # None => req'[p].out.user # q
        <3>1. CASE req'[p].out = req[p].out
            BY <2>2, <3>1 DEF PrivateInv
        <3>2. ASSUME NEW k, req'[p].out = Error(p, k)
              PROVE  req'[p].out.user # q
            BY <3>2, NoneAssumption DEF Error, Address
        <3>3. ASSUME ~ Missing(p), req'[p].out = Done(p, users[In(p).id])
              PROVE  req'[p].out.user # q
            BY <2>2, <3>3 DEF PrivateInv, Done, Missing
        <3>4. ASSUME Create(p) \/ Update(p), req'[p].out = Done(p, p)
              PROVE  req'[p].out.user # q
            BY <2>3, <3>4 DEF Done
        <3>5. ASSUME req'[p].out = Done(p, None)
              PROVE  req'[p].out.user # q
            BY <3>5, NoneAssumption DEF Done, Address
        <3> QED
            BY <1>2, <3>1, <3>2, <3>3, <3>4, <3>5, OutEffect
    <2>6. \A r \in Requests : r # p => (req'[r].out # None => req'[r].out.user # q)
        BY <2>1, <2>2 DEF PrivateInv, Same
    <2> QED
        BY <2>4, <2>5, <2>6
<1> QED
    BY <1>1, <1>2 DEF PrivateInv

(* No step writes to a user that no undecided request has allocated.       *)
LEMMA SharedKept ==
    ASSUME TypeInv, AskedInv, DraftInv, [Next]_vars, NEW a \in DOMAIN heap,
           a \in Requests => ~ Undecided(a)
    PROVE  a \in DOMAIN heap' /\ heap'[a] = heap[a]
<1>1. CASE ~ \E p \in Requests : Step(p)
    BY <1>1, QuietEffect
<1>2. ASSUME NEW p \in Requests, Step(p)
      PROVE  a \in DOMAIN heap' /\ heap'[a] = heap[a]
    <2>1. CASE a = p
        <3>1. pc[p] \notin {"arrived", "store"}
            BY <2>1 DEF Undecided
        <3> QED
            BY <1>2, <3>1, HeapEffect
    <2>2. CASE a # p
        BY <1>2, <2>2, HeapEffect
    <2> QED
        BY <2>1, <2>2
<1> QED
    BY <1>1, <1>2

LEMMA IdStep ==
    ASSUME TypeInv, AskedInv, DraftInv, PrivateInv, IdInv, [Next]_vars
    PROVE  IdInv'
<1>1. CASE ~ \E p \in Requests : Step(p)
    BY <1>1, QuietEffect DEF IdInv
<1>2. ASSUME NEW p \in Requests, Step(p), NEW i \in DOMAIN users'
      PROVE  heap'[users'[i]].id = i
    <2>1. CASE Create(p) /\ i = nextID /\ users'[i] = p
        <3>1. p \in DOMAIN heap
            BY <2>1 DEF Create, Storing, DraftInv
        <3> QED
            BY <2>1, <3>1 DEF Create, TypeInv, User
    <2>2. CASE Update(p) /\ i = In(p).id /\ users'[i] = p
        <3>1. heap' = heap /\ heap[p] = Draft(p) /\ In(p).call = "update"
            BY <2>2 DEF Update, Storing, DraftInv
        <3> QED
            BY <2>2, <3>1 DEF Draft
    <2>3. CASE i \in DOMAIN users /\ users'[i] = users[i]
        <3>1. users[i] \in DOMAIN heap
            BY <2>3 DEF TypeInv
        <3>2. heap'[users[i]] = heap[users[i]]
            BY <1>2, <2>3, <3>1, SharedKept DEF PrivateInv
        <3> QED
            BY <2>3, <3>2 DEF IdInv
    <2> QED
        BY <1>2, <2>1, <2>2, <2>3, UsersEffect
<1> QED
    BY <1>1, <1>2 DEF IdInv

----------------------------------------------------------------------------
(* Emails                                                                  *)

(* The users of the map are not written to where they are.                 *)
LEMMA StoredKept ==
    ASSUME TypeInv, AskedInv, DraftInv, PrivateInv, [Next]_vars, NEW i \in DOMAIN users
    PROVE  users[i] \in DOMAIN heap /\ heap'[users[i]] = heap[users[i]]
<1>1. users[i] \in DOMAIN heap
    BY DEF TypeInv
<1> QED
    BY <1>1, SharedKept DEF PrivateInv

LEMMA EmailsStep ==
    ASSUME TypeInv, AskedInv, DraftInv, PrivateInv, IdInv, EmailsUnique, CheckInv, [Next]_vars
    PROVE  EmailsUnique'
<1>1. CASE ~ \E p \in Requests : Step(p)
    BY <1>1, QuietEffect DEF EmailsUnique
<1>2. ASSUME NEW p \in Requests, Step(p),
             NEW i \in DOMAIN users', NEW j \in DOMAIN users',
             heap'[users'[i]].email = heap'[users'[j]].email
      PROVE  i = j
    <2> DEFINE New(k) == users'[k] = p /\ ((Create(p) /\ k = nextID) \/ (Update(p) /\ k = In(p).id))
               Old(k) == k \in DOMAIN users /\ users'[k] = users[k]
    <2>1. \A k \in DOMAIN users' : New(k) \/ Old(k)
        BY <1>2, UsersEffect
    <2>2. ASSUME New(i), New(j)
          PROVE  i = j
        BY <2>2, ReturnEffect DEF Create, Update, Storing
    <2>3. ASSUME Old(i), Old(j)
          PROVE  i = j
        BY <1>2, <2>3, StoredKept DEF EmailsUnique
    <2>4. ASSUME NEW k \in DOMAIN users', NEW l \in DOMAIN users', New(k), Old(l),
                 heap'[users'[k]].email = heap'[users'[l]].email
          PROVE  k = l
        <3>1. heap[users[l]].email = heap'[p].email
            BY <2>4, StoredKept
        <3>2. p \in DOMAIN heap /\ heap[p] = Draft(p) /\ ~ Taken(p)
            BY <2>4 DEF Create, Update, Storing, DraftInv, CheckInv
        <3>3. heap'[p].email = heap[p].email
            <4>1. CASE Create(p)
                BY <3>2, <4>1 DEF Create, TypeInv, User
            <4>2. CASE Update(p)
                BY <4>2 DEF Update
            <4> QED
                BY <2>4, <4>1, <4>2
        <3>4. l = heap[p].id
            BY <2>4, <3>1, <3>2, <3>3 DEF Taken
        <3>5. CASE Create(p)
            <4>1. heap[p].id = NoId
                BY <3>2, <3>5 DEF Draft, Create, Storing
            <4>2. l \in 1..(nextID - 1)
                BY <2>4 DEF TypeInv
            <4> QED
                BY <3>4, <4>1, <4>2 DEF NoId, TypeInv
        <3>6. CASE Update(p) /\ k = In(p).id
            BY <3>2, <3>4, <3>6 DEF Draft, Update, Storing
        <3> QED
            BY <2>4, <3>5, <3>6
    <2> QED
        BY <1>2, <2>1, <2>2, <2>3, <2>4
<1> QED
    BY <1>1, <1>2 DEF EmailsUnique

(* Of two requests that write, one waits.                                  *)
LEMMA WriterAlone ==
    ASSUME TypeInv, LockInv, AskedInv, NEW p \in Requests, NEW q \in Requests,
           pc[p] = "store", pc[q] = "store"
    PROVE  p = q
<1>1. p \in mutex.writer /\ q \in mutex.writer
    BY DEF LockInv, AskedInv, Inside
<1> QED
    BY <1>1 DEF LockInv

LEMMA CheckStep ==
    ASSUME TypeInv, LockInv, AskedInv, DraftInv, PrivateInv, CheckInv, [Next]_vars
    PROVE  CheckInv'
<1>1. CASE ~ \E p \in Requests : Step(p)
    BY <1>1, QuietEffect DEF CheckInv, Taken, Missing, Same
<1>2. ASSUME NEW p \in Requests, Step(p), NEW q \in Requests, pc'[q] = "store"
      PROVE  /\ In(q)'.call \in {"create", "update"} => ~ Taken(q)'
             /\ In(q)'.call \in {"update", "delete"} => ~ Missing(q)'
    <2>1. CASE q = p
        <3>1. ASSUME NEW call, NEW verdict, Checked(p, call, verdict)
              PROVE  /\ verdict = "ok" /\ In(p).call = call /\ In(p)' = In(p)
                     /\ Taken(p)' <=> Taken(p)
                     /\ Missing(p)' <=> Missing(p)
            <4>1. verdict = "ok" /\ In(p).call = call /\ UNCHANGED <<users, heap, req>>
                BY <1>2, <2>1, <3>1, ReturnEffect DEF Checked
            <4> QED
                BY <4>1 DEF Taken, Missing, In
        <3>2. CASE CheckCreate(p)
            <4> DEFINE v == IF Failing THEN "database" ELSE IF Taken(p) THEN "conflict" ELSE "ok"
            <4>1. Checked(p, "create", v)
                BY <3>2 DEF CheckCreate
            <4>2. v = "ok" /\ In(p).call = "create" /\ In(p)' = In(p)
                  /\ (Taken(p)' <=> Taken(p)) /\ (Missing(p)' <=> Missing(p))
                BY <3>1, <4>1
            <4> QED
                BY <2>1, <4>2
        <3>3. CASE CheckUpdate(p)
            <4> DEFINE v == IF Failing THEN "database" ELSE IF Missing(p) THEN "not_found"
                            ELSE IF Taken(p) THEN "conflict" ELSE "ok"
            <4>1. Checked(p, "update", v)
                BY <3>3 DEF CheckUpdate
            <4>2. v = "ok" /\ In(p).call = "update" /\ In(p)' = In(p)
                  /\ (Taken(p)' <=> Taken(p)) /\ (Missing(p)' <=> Missing(p))
                BY <3>1, <4>1
            <4> QED
                BY <2>1, <4>2
        <3>4. CASE CheckDelete(p)
            <4> DEFINE v == IF Failing THEN "database" ELSE IF Missing(p) THEN "not_found" ELSE "ok"
            <4>1. Checked(p, "delete", v)
                BY <3>4 DEF CheckDelete
            <4>2. v = "ok" /\ In(p).call = "delete" /\ In(p)' = In(p)
                  /\ (Taken(p)' <=> Taken(p)) /\ (Missing(p)' <=> Missing(p))
                BY <3>1, <4>1
            <4> QED
                BY <2>1, <4>2
        <3>5. CASE Handle(p) \/ Lock(p) \/ Respond(p) \/ Encode(p) \/ Log(p)
            BY <1>2, <2>1, <3>5 DEF Handle, Lock, Respond, Encode, Log, TypeInv
        <3>6. CASE FindByID(p) \/ Create(p) \/ Update(p) \/ Delete(p)
            BY <1>2, <2>1, <3>6, ReturnEffect DEF FindByID, Create, Update, Delete
        <3> QED
            BY <1>2, <3>2, <3>3, <3>4, <3>5, <3>6 DEF Step
    <2>2. CASE q # p
        <3>1. Same(q) /\ pc[q] = "store" /\ In(q)' = In(q)
            BY <1>2, <2>2, StepEffect DEF Same, In
        <3>2. users' = users
            <4>1. pc[p] # "store"
                BY <2>2, <3>1, WriterAlone
            <4> QED
                BY <1>2, <4>1 DEF Step, Handle, Lock, FindByID, CheckCreate, CheckUpdate,
                                  CheckDelete, Checked, Create, Update, Delete, Storing,
                                  Respond, Encode, Log
        <3>3. \A i \in DOMAIN users : heap'[users[i]] = heap[users[i]]
            BY StoredKept
        <3>4. In(q).call \in {"create", "update"} => heap'[q] = heap[q]
            BY <1>2, <2>2, <3>1, HeapEffect DEF DraftInv
        <3> QED
            BY <3>1, <3>2, <3>3, <3>4 DEF CheckInv, Taken, Missing
    <2> QED
        BY <2>1, <2>2
<1> QED
    BY <1>1, <1>2 DEF CheckInv

----------------------------------------------------------------------------
(* Results, answers and ids                                                *)

LEMMA OutStep ==
    ASSUME TypeInv, AskedInv, DraftInv, OutInv, [Next]_vars
    PROVE  OutInv'
<1> DEFINE Sound(q) ==
        LET out == req[q].out IN
        /\ out.verdict # "ok" => out = Error(q, out.verdict)
        /\ out.verdict = "ok" => /\ In(q).call \in DOMAIN PassedOn
                                 /\ out.user = None <=> In(q).call = "delete"
                                 /\ out.user # None => out.user \in DOMAIN heap
<1>1. ASSUME NEW q \in Requests, Sound(q), In(q)' = In(q), req'[q].out = req[q].out,
             req'[q].trace = req[q].trace, DOMAIN heap \subseteq DOMAIN heap'
      PROVE  Sound(q)'
    BY <1>1 DEF Error
<1>2. \A q \in Requests : req[q].out # None => pc[q] # "idle" /\ Sound(q)
    BY DEF OutInv, AskedInv, Fresh
<1>3. CASE ~ \E p \in Requests : Step(p)
    BY <1>1, <1>2, <1>3, QuietEffect DEF OutInv
<1>4. ASSUME NEW p \in Requests, Step(p), NEW q \in Requests, req'[q].out # None
      PROVE  Sound(q)'
    <2>1. /\ In(p)' = In(p) /\ req'[p].trace = req[p].trace
          /\ \A r \in Requests : r # p => Same(r)
        BY <1>4, StepEffect
    <2>2. DOMAIN heap \subseteq DOMAIN heap'
        BY <1>4, HeapEffect
    <2>3. CASE q # p
        BY <1>1, <1>2, <1>4, <2>1, <2>2, <2>3 DEF Same, In
    <2>4. CASE q = p /\ req'[p].out = req[p].out
        BY <1>1, <1>2, <1>4, <2>1, <2>2, <2>4
    <2>5. ASSUME q = p, NEW k \in Verdicts \ {"ok"}, req'[p].out = Error(p, k)
          PROVE  Sound(q)'
        BY <2>1, <2>5 DEF Error
    <2>6. ASSUME q = p, req'[p].out = Done(p, users[In(p).id]), FindByID(p), ~ Missing(p)
          PROVE  Sound(q)'
        <3>1. users[In(p).id] \in DOMAIN heap /\ DOMAIN heap \subseteq Address
            BY <2>6 DEF TypeInv, Missing
        <3>2. users[In(p).id] # None /\ In(p).call = "get"
            BY <2>6, <3>1, NoneAssumption DEF FindByID
        <3> QED
            BY <2>1, <2>2, <2>6, <3>1, <3>2 DEF Done, PassedOn
    <2>7. ASSUME q = p, req'[p].out = Done(p, p), Create(p) \/ Update(p)
          PROVE  Sound(q)'
        <3>1. p \in DOMAIN heap /\ p # None
            BY <2>7, NoneAssumption DEF Create, Update, Storing, DraftInv, Address
        <3>2. In(p).call \in {"create", "update"}
            BY <2>7 DEF Create, Update, Storing
        <3> QED
            BY <2>1, <2>2, <2>7, <3>1, <3>2 DEF Done, PassedOn
    <2>8. ASSUME q = p, req'[p].out = Done(p, None), Delete(p)
          PROVE  Sound(q)'
        BY <2>1, <2>8 DEF Done, PassedOn, Delete, Storing
    <2> QED
        BY <1>4, <2>3, <2>4, <2>5, <2>6, <2>7, <2>8, OutEffect
<1> QED
    BY <1>3, <1>4 DEF OutInv

(* A user that was handed out is not written to.                           *)
LEMMA HandedKept ==
    ASSUME TypeInv, AskedInv, DraftInv, PrivateInv, OutInv, [Next]_vars,
           NEW q \in Requests, req[q].out # None, req[q].out.verdict = "ok", req[q].out.user # None
    PROVE  heap'[req[q].out.user] = heap[req[q].out.user]
<1>1. req[q].out.user \in DOMAIN heap
    BY DEF OutInv
<1>2. req[q].out.user \in Requests => ~ Undecided(req[q].out.user)
    BY DEF PrivateInv
<1> QED
    BY <1>1, <1>2, SharedKept

LEMMA BodyKept ==
    ASSUME TypeInv, AskedInv, DraftInv, PrivateInv, OutInv, [Next]_vars,
           NEW q \in Requests, req[q].out # None, Status(q) # 204, req'[q].out = req[q].out
    PROVE  Body(req[q].out)' = Body(req[q].out)
<1>1. CASE req[q].out.verdict = "ok"
    <2>1. req[q].out.user # None
        BY <1>1, StatusTells
    <2>2. heap'[req[q].out.user] = heap[req[q].out.user]
        BY <1>1, <2>1, HandedKept
    <2> QED
        BY <1>1, <2>2 DEF Body
<1>2. CASE req[q].out.verdict # "ok"
    BY <1>2 DEF Body
<1> QED
    BY <1>1, <1>2

(* A request that made no step is answered as it was.                      *)
LEMMA AnswerKept ==
    ASSUME TypeInv, AskedInv, DraftInv, PrivateInv, OutInv, [Next]_vars,
           NEW q \in Requests, Decides(q), req'[q] = req[q]
    PROVE  /\ Decides(q)'
           /\ Told(q)' <=> Told(q)
<1>1. Decides(q)'
    BY DEF Decides, Status, In
<1>2. CASE req[q].status = 204
    BY <1>1, <1>2 DEF Told
<1>3. CASE req[q].status # 204
    <2>1. Body(req[q].out)' = Body(req[q].out)
        BY <1>3, BodyKept DEF Decides
    <2> QED
        BY <1>1, <1>3, <2>1 DEF Told
<1> QED
    BY <1>1, <1>2, <1>3

LEMMA OutGiven ==
    ASSUME TypeInv, AskedInv, DraftInv, NEW p \in Requests, Step(p),
           Undecided(p), ~ Undecided(p)'
    PROVE  req'[p].out # None
<1>1. req[p].trace \in Traces
    BY DEF TypeInv, Local
<1>2. \A k \in Verdicts : Error(p, k) # None
    BY <1>1, NoneAssumption DEF Error, Out
<1>3. \A a \in Address \cup {None} : Done(p, a) # None
    BY NoneAssumption DEF Done, Out, Verdicts, Traces
<1>4. ~ Missing(p) => users[In(p).id] \in Address
    BY DEF Missing, TypeInv
<1> QED
    BY <1>2, <1>3, <1>4, OutEffect DEF Address

LEMMA ReplyStep ==
    ASSUME TypeInv, AskedInv, DraftInv, PrivateInv, OutInv, ReplyInv, [Next]_vars
    PROVE  ReplyInv'
<1> DEFINE Reply(q) ==
        /\ pc[q] = "respond" =>
              /\ req[q].out # None /\ req[q].status = None
              /\ req[q].body = None /\ req[q].log = None
        /\ pc[q] = "encode" =>
              Decides(q) /\ req[q].status # 204 /\ req[q].body = None /\ req[q].log = None
        /\ pc[q] = "log" => Decides(q) /\ Told(q) /\ req[q].log = None
        /\ pc[q] = "done" =>
              \/ /\ Decides(q) /\ Told(q)
                 /\ req[q].log = [status |-> req[q].status, requestID |-> None]
              \/ /\ req[q].body = Broken /\ req[q].status \in Nat \ {204}
                 /\ req[q].status = 500 \/ Decides(q)
                 /\ req[q].log = None
<1>1. \A q \in Requests : Reply(q)
    BY DEF ReplyInv
<1>2. ASSUME NEW q \in Requests, Same(q)
      PROVE  Reply(q)'
    BY <1>1, <1>2, AnswerKept DEF Same
<1>3. ASSUME NEW p \in Requests, Reply(p)', \A q \in Requests : q # p => Same(q)
      PROVE  ReplyInv'
    <2>1. \A q \in Requests : Reply(q)'
        BY <1>2, <1>3
    <2> QED
        BY <2>1 DEF ReplyInv
<1>4. CASE UNCHANGED vars \/ Interrupt \/ Shutdown \/ Timeout
    <2>1. \A q \in Requests : Same(q)
        BY <1>4 DEF vars, Interrupt, Shutdown, Timeout, Same
    <2>2. \A q \in Requests : Reply(q)'
        BY <1>2, <2>1
    <2> QED
        BY <2>2 DEF ReplyInv
<1>5. ASSUME NEW p \in Requests, Arrive(p)
      PROVE  ReplyInv'
    BY <1>3, <1>5, ArriveEffect
<1>6. ASSUME NEW p \in Requests, Panic(p)
      PROVE  ReplyInv'
    <2>1. /\ pc'[p] = "done" /\ req'[p].body = Broken /\ req'[p].log = req[p].log
          /\ req'[p].status = IF req[p].status = None THEN 500 ELSE req[p].status
        BY <1>6 DEF Panic, Panicking, TypeInv, Local, StatusOf
    <2>2. pc[p] \in {"arrived", "check", "store", "respond", "encode"} /\ req[p] \in Local
        BY <1>6 DEF Panic, Panicking, TypeInv
    <2>3. req[p].log = None /\ req[p].status \in (Nat \ {204}) \cup {None}
        <3>1. CASE Undecided(p)
            BY <1>1, <3>1 DEF AskedInv
        <3>2. CASE pc[p] = "respond"
            BY <1>1, <3>2 DEF ReplyInv
        <3>3. CASE pc[p] = "encode"
            <4>1. req[p].log = None /\ req[p].status # 204
                BY <1>1, <3>3 DEF ReplyInv
            <4>2. req[p].status \in Nat \cup {None}
                BY <2>2 DEF Local
            <4> QED
                BY <4>1, <4>2
        <3> QED
            BY <2>2, <3>1, <3>2, <3>3 DEF Undecided
    <2>5. req'[p].status = 500 \/ Decides(p)'
        <3>1. pc[p] # "encode" => req[p].status = None
            BY <1>1, <2>2 DEF AskedInv, Undecided
        <3>2. pc[p] = "encode" => Decides(p)
            BY <1>1
        <3>3. In(p)' = In(p)
            BY <1>6, StepEffect
        <3>4. req'[p].out = req[p].out
            BY <1>6 DEF Panic, Panicking, TypeInv, Local
        <3> QED
            BY <2>1, <3>1, <3>2, <3>3, <3>4 DEF Decides, Status
    <2>4. Reply(p)'
        BY <2>1, <2>3, <2>5
    <2> QED
        BY <1>3, <1>6, <2>4, StepEffect
<1>7. ASSUME NEW p \in Requests, Step(p)
      PROVE  ReplyInv'
    <2>1. /\ In(p)' = In(p) /\ req[p] \in Local
          /\ \A q \in Requests : q # p => Same(q)
        BY <1>7, StepEffect DEF TypeInv
    <2>2. ASSUME pc'[p] \in {"lock", "check", "store"}
          PROVE  ReplyInv'
        BY <1>3, <2>1, <2>2
    <2>3. CASE Undecided(p) /\ ~ Undecided(p)'
        <3>1. pc'[p] = "respond" /\ req'[p] = [req[p] EXCEPT !.out = req'[p].out]
            BY <1>7, <2>3, OutEffect
        <3>2. req'[p].out # None
            BY <1>7, <2>3, OutGiven
        <3>3. /\ req'[p].status = req[p].status
              /\ req'[p].body = req[p].body /\ req'[p].log = req[p].log
            BY <2>1, <3>1 DEF Local
        <3>4. Reply(p)'
            BY <2>3, <3>1, <3>2, <3>3 DEF AskedInv
        <3> QED
            BY <1>3, <2>1, <3>4
    <2>4. CASE Undecided(p) /\ Undecided(p)'
        BY <1>3, <2>1, <2>4 DEF Undecided
    <2>5. CASE Respond(p)
        <3>1. req'[p].out = req[p].out /\ req'[p].status = Status(p)
              /\ req'[p].body = None /\ req'[p].log = None /\ req[p].out # None
            <4>1. PICK r, status : r = req[p] /\ status = Status(p)
                OBVIOUS
            <4>2. req'[p] = [r EXCEPT !.status = status]
                BY <2>5, <4>1 DEF Respond, TypeInv
            <4>3. req'[p].out = r.out /\ req'[p].status = status
                  /\ req'[p].body = r.body /\ req'[p].log = r.log
                BY <2>1, <4>1, <4>2 DEF Local
            <4>4. r.body = None /\ r.log = None /\ r.out # None
                BY <1>1, <2>5, <4>1 DEF Respond
            <4> QED
                BY <4>1, <4>3, <4>4
        <3>2. Decides(p)'
            BY <2>1, <3>1 DEF Decides, Status
        <3>3. pc'[p] = IF Status(p) = 204 THEN "log" ELSE "encode"
            BY <2>5 DEF Respond, TypeInv
        <3>4. Status(p) = 204 => Told(p)'
            BY <3>1 DEF Told
        <3>5. Reply(p)'
            BY <3>1, <3>2, <3>3, <3>4
        <3> QED
            BY <1>3, <2>1, <3>5
    <2>6. CASE Encode(p)
        <3>1. Decides(p) /\ req[p].status # 204 /\ req[p].log = None
            BY <1>1, <2>6 DEF Encode
        <3>2. /\ pc'[p] = "log" /\ req'[p].out = req[p].out /\ req'[p].status = req[p].status
              /\ req'[p].body = Body(req[p].out) /\ req'[p].log = None
            BY <2>1, <2>6, <3>1 DEF Encode, TypeInv, Local
        <3>3. Decides(p)'
            BY <2>1, <3>1, <3>2 DEF Decides, Status
        <3>4. Body(req[p].out)' = Body(req[p].out)
            BY <3>1, <3>2, BodyKept DEF Decides
        <3>5. Told(p)'
            BY <3>1, <3>2, <3>4 DEF Told
        <3>6. Reply(p)'
            BY <3>2, <3>3, <3>5
        <3> QED
            BY <1>3, <2>1, <3>6
    <2>7. CASE Log(p)
        <3>1. Decides(p) /\ Told(p)
            BY <1>1, <2>7 DEF Log
        <3>2. /\ pc'[p] = "done" /\ req'[p].out = req[p].out /\ req'[p].status = req[p].status
              /\ req'[p].body = req[p].body
              /\ req'[p].log = [status |-> req[p].status, requestID |-> None]
            BY <2>1, <2>7 DEF Log, TypeInv, Local
        <3>3. Decides(p)'
            BY <2>1, <3>1, <3>2 DEF Decides, Status
        <3>4. Told(p)'
            <4>1. CASE req[p].status = 204
                BY <3>1, <3>2, <4>1 DEF Told
            <4>2. CASE req[p].status # 204
                <5>1. Body(req[p].out)' = Body(req[p].out)
                    BY <3>1, <3>2, <4>2, BodyKept DEF Decides
                <5> QED
                    BY <3>1, <3>2, <4>2, <5>1 DEF Told
            <4> QED
                BY <4>1, <4>2
        <3>5. Reply(p)'
            BY <3>2, <3>3, <3>4
        <3> QED
            BY <1>3, <2>1, <3>5
    <2>8. CASE ~ Undecided(p)
        BY <1>7, <2>5, <2>6, <2>7, <2>8
        DEF Step, Handle, Lock, FindByID, CheckCreate, CheckUpdate, CheckDelete, Checked,
            Create, Update, Delete, Storing, Undecided
    <2> QED
        BY <2>3, <2>4, <2>8
<1> QED
    BY <1>4, <1>5, <1>6, <1>7 DEF Next, Serve

(* A write that was made stays made.                                       *)
LEMMA WroteStays ==
    ASSUME TypeInv, AskedInv, [Next]_vars, NEW q \in Requests, Wrote(q)
    PROVE  Wrote(q)' /\ In(q)' = In(q)
<1>1. pc[q] # "idle" /\ ~ Undecided(q)
    BY DEF Wrote, AskedInv, Fresh
<1>2. req'[q].out = req[q].out /\ In(q)' = In(q)
    <2>1. CASE ~ \E p \in Requests : Step(p)
        BY <1>1, <2>1, QuietEffect
    <2>2. ASSUME NEW p \in Requests, Step(p)
          PROVE  req'[q].out = req[q].out /\ In(q)' = In(q)
        <3>1. CASE q = p
            BY <1>1, <2>2, <3>1, StepEffect, OutEffect
        <3>2. CASE q # p
            BY <2>2, <3>2, StepEffect DEF Same, In
        <3> QED
            BY <3>1, <3>2
    <2> QED
        BY <2>1, <2>2
<1> QED
    BY <1>2 DEF Wrote

(* The step that makes a write makes its request one that wrote.           *)
LEMMA WriteMade ==
    ASSUME TypeInv, NEW p \in Requests, Create(p) \/ Update(p) \/ Delete(p)
    PROVE  Wrote(p)' /\ In(p)' = In(p)
<1>1. In(p)' = In(p)
    BY StepEffect DEF Step
<1>2. PICK a \in {p, None} : Return(p, Done(p, a))
    BY DEF Create, Update, Delete
<1>3. req'[p].out = Done(p, a)
    <2>1. req'[p] = [req[p] EXCEPT !.out = Done(p, a)]
        BY <1>2, ReturnEffect
    <2> QED
        BY <2>1 DEF TypeInv, Local
<1>4. Done(p, a) # None /\ Done(p, a).verdict = "ok"
    BY NoneAssumption DEF Done, Out, Verdicts, Traces, Address
<1>5. In(p).call \in Writes
    BY DEF Create, Update, Delete, Storing, Writes
<1> QED
    BY <1>1, <1>3, <1>4, <1>5 DEF Wrote

(* No other step does.                                                     *)
LEMMA WriteIsMade ==
    ASSUME TypeInv, AskedInv, [Next]_vars, NEW q \in Requests, Wrote(q)', ~ Wrote(q)
    PROVE  Create(q) \/ Update(q) \/ Delete(q)
<1>1. pc[q] # "idle"
    <2>1. CASE pc[q] = "idle"
        <3>1. req[q].out = None
            BY <2>1 DEF AskedInv, Fresh
        <3>2. ASSUME NEW p \in Requests, Step(p)
              PROVE  req'[q].out = None
            BY <2>1, <3>1, <3>2, StepEffect DEF Same
        <3>3. req'[q].out = None
            BY <3>1, <3>2, QuietEffect
        <3> QED
            BY <3>3 DEF Wrote
    <2> QED
        BY <2>1
<1>2. PICK p \in Requests : Step(p)
    BY <1>1, QuietEffect DEF Wrote
<1>3. q = p
    BY <1>2, StepEffect DEF Same, Wrote, In
<1>4. In(p)' = In(p)
    BY <1>2, StepEffect
<1>5. req'[p].out # req[p].out
    BY <1>3, <1>4 DEF Wrote
<1>6. ASSUME NEW k \in Verdicts \ {"ok"}, req'[p].out = Error(p, k)
      PROVE  FALSE
    BY <1>3, <1>6 DEF Error, Wrote
<1>7. ~ FindByID(p)
    BY <1>3, <1>4 DEF FindByID, Wrote, Writes
<1> QED
    BY <1>2, <1>3, <1>5, <1>6, <1>7, OutEffect

(* What was written of user id is still there, or another has written it   *)
(* over.                                                                   *)
LEMMA LastsKept ==
    ASSUME TypeInv, AskedInv, DraftInv, PrivateInv, CheckInv, WroteInv, [Next]_vars,
           NEW q \in Requests, Wrote(q)
    PROVE  /\ Lasts(q)'
           /\ In(q).call = "delete" => In(q)'.id \in 1..(nextID' - 1)
           /\ In(q).call # "delete" => q \in DOMAIN heap' /\ heap'[q].id \in 1..(nextID' - 1)
<1>1. Wrote(q)' /\ In(q)' = In(q)
    BY WroteStays
<1>2. \A r \in Requests : \A call, id : WroteTo(r, call, id) => WroteTo(r, call, id)'
    BY WroteStays DEF WroteTo
<1>3. In(q).call # "delete" => q \in DOMAIN heap /\ q \in DOMAIN heap' /\ heap'[q] = heap[q]
    <2>1. ~ Undecided(q)
        BY DEF Wrote, AskedInv
    <2> QED
        BY <2>1, SharedKept DEF WroteInv
<1> DEFINE id == IF In(q).call = "delete" THEN In(q).id ELSE heap[q].id
<1>4. PICK i : i = id
    OBVIOUS
<1>5. i \in 1..(nextID - 1) /\ nextID \in Nat
    BY <1>4 DEF WroteInv, TypeInv
<1>6. nextID' \in Nat /\ nextID' >= nextID
    <2>1. CASE ~ \E p \in Requests : Step(p)
        BY <1>5, <2>1, QuietEffect
    <2>2. ASSUME NEW p \in Requests, Step(p)
          PROVE  nextID' = nextID \/ nextID' = nextID + 1
        BY <2>2 DEF Step, Handle, Lock, FindByID, CheckCreate, CheckUpdate, CheckDelete, Checked,
                    Create, Update, Delete, Respond, Encode, Log
    <2> QED
        BY <1>5, <2>1, <2>2
<1>7. /\ In(q).call = "delete" => i \notin DOMAIN users
      /\ In(q).call # "delete" /\ i \in DOMAIN users =>
            users[i] = q \/ \E r \in Requests : users[i] = r /\ WroteTo(r, "update", i)
      /\ In(q).call # "delete" /\ i \notin DOMAIN users =>
            \E r \in Requests : WroteTo(r, "delete", i)
    BY <1>4 DEF WroteInv, Lasts
<1>8. /\ In(q).call = "delete" => i \notin DOMAIN users'
      /\ In(q).call # "delete" /\ i \in DOMAIN users' =>
            users'[i] = q \/ \E r \in Requests : users'[i] = r /\ WroteTo(r, "update", i)'
      /\ In(q).call # "delete" /\ i \notin DOMAIN users' =>
            \E r \in Requests : WroteTo(r, "delete", i)'
    <2>1. CASE (i \in DOMAIN users' <=> i \in DOMAIN users) /\ (i \in DOMAIN users => users'[i] = users[i])
        BY <1>2, <1>7, <2>1
    <2>2. ASSUME NEW p \in Requests, Create(p)
          PROVE  i # nextID /\ users' = Put(users, nextID, p)
        BY <1>5, <2>2 DEF Create
    <2>3. ASSUME NEW p \in Requests, Update(p), i = In(p).id
          PROVE  i \in DOMAIN users /\ users'[i] = p /\ WroteTo(p, "update", i)'
        <3>1. Wrote(p)' /\ In(p)' = In(p) /\ In(p).call = "update"
            BY <2>3, WriteMade DEF Update, Storing
        <3> QED
            BY <2>3, <3>1, UpdatePuts DEF WroteTo
    <2>4. ASSUME NEW p \in Requests, Delete(p), i = In(p).id
          PROVE  i \notin DOMAIN users' /\ WroteTo(p, "delete", i)'
        <3>1. Wrote(p)' /\ In(p)' = In(p) /\ In(p).call = "delete"
            BY <2>4, WriteMade DEF Delete, Storing
        <3>2. i \notin DOMAIN users'
            BY <2>4 DEF Delete, Restrict
        <3> QED
            BY <2>4, <3>1, <3>2 DEF WroteTo
    <2>5. ASSUME NEW p \in Requests, Update(p) \/ Delete(p), i # In(p).id
          PROVE  (i \in DOMAIN users' <=> i \in DOMAIN users) /\ (i \in DOMAIN users => users'[i] = users[i])
        BY <2>5 DEF Update, Delete, Put, Restrict
    <2>6. CASE users' = users
        BY <2>1, <2>6
    <2>7. users' = users \/ \E p \in Requests : Create(p) \/ Update(p) \/ Delete(p)
        <3>1. CASE ~ \E p \in Requests : Step(p)
            BY <3>1, QuietEffect
        <3>2. ASSUME NEW p \in Requests, Step(p)
              PROVE  users' = users \/ Create(p) \/ Update(p) \/ Delete(p)
            BY <3>2 DEF Step, Handle, Lock, FindByID, CheckCreate, CheckUpdate, CheckDelete, Checked,
                        Respond, Encode, Log
        <3> QED
            BY <3>1, <3>2
    <2>8. ASSUME NEW p \in Requests, Create(p)
          PROVE  (i \in DOMAIN users' <=> i \in DOMAIN users) /\ (i \in DOMAIN users => users'[i] = users[i])
        BY <2>2, <2>8 DEF Put
    <2>9. ASSUME NEW p \in Requests, Update(p), i = In(p).id
          PROVE  /\ In(q).call # "delete" /\ i \in DOMAIN users'
                 /\ \E r \in Requests : users'[i] = r /\ WroteTo(r, "update", i)'
        <3>1. i \in DOMAIN users /\ users'[i] = p /\ WroteTo(p, "update", i)'
            BY <2>3, <2>9
        <3>2. i \in DOMAIN users'
            BY <2>9, <3>1, UpdatePuts
        <3> QED
            BY <1>7, <3>1, <3>2
    <2>10. ASSUME NEW p \in Requests, Delete(p), i = In(p).id
           PROVE  i \notin DOMAIN users' /\ \E r \in Requests : WroteTo(r, "delete", i)'
        BY <2>4, <2>10
    <2>11. CASE \E p \in Requests : Create(p)
        BY <2>1, <2>8, <2>11
    <2>12. CASE \E p \in Requests : (Update(p) \/ Delete(p)) /\ i # In(p).id
        BY <2>1, <2>5, <2>12
    <2>13. CASE \E p \in Requests : Update(p) /\ i = In(p).id
        BY <2>9, <2>13
    <2>14. CASE \E p \in Requests : Delete(p) /\ i = In(p).id
        BY <2>10, <2>14
    <2> QED
        BY <2>6, <2>7, <2>11, <2>12, <2>13, <2>14
<1>9. In(q)'.call = In(q).call /\ In(q)'.id = In(q).id
    BY <1>1
<1>10. Lasts(q)'
    <2>1. CASE In(q).call = "delete"
        BY <1>4, <1>8, <1>9, <2>1 DEF Lasts
    <2>2. CASE In(q).call # "delete"
        <3>1. heap'[q].id = i
            BY <1>3, <1>4, <2>2
        <3> QED
            BY <1>8, <1>9, <2>2, <3>1 DEF Lasts
    <2> QED
        BY <2>1, <2>2
<1>11. i \in 1..(nextID' - 1)
    <2>1. \A m, n \in Nat : n >= m /\ i \in 1..(m - 1) => i \in 1..(n - 1)
        OBVIOUS
    <2> QED
        BY <1>5, <1>6, <2>1
<1> QED
    BY <1>3, <1>4, <1>9, <1>10, <1>11

LEMMA WroteStep ==
    ASSUME TypeInv, AskedInv, DraftInv, PrivateInv, CheckInv, WroteInv, [Next]_vars
    PROVE  WroteInv'
<1> SUFFICES ASSUME NEW q \in Requests
             PROVE  /\ Wrote(q)' => Lasts(q)'
                    /\ Wrote(q)' /\ In(q)'.call = "delete" => In(q)'.id \in 1..(nextID' - 1)
                    /\ Wrote(q)' /\ In(q)'.call # "delete" =>
                           q \in DOMAIN heap' /\ heap'[q].id \in 1..(nextID' - 1)
                    /\ ~ Wrote(q)' => \A i \in DOMAIN users' : users'[i] # q
    BY DEF WroteInv
<1>1. CASE Wrote(q)
    <2>1. Wrote(q)' /\ In(q)' = In(q)
        BY <1>1, WroteStays
    <2> QED
        BY <1>1, <2>1, LastsKept
<1>2. CASE Create(q)
    <2>1. Wrote(q)' /\ In(q)' = In(q) /\ In(q).call = "create"
        BY <1>2, WriteMade DEF Create, Storing
    <2>2. q \in DOMAIN heap
        BY <1>2 DEF Create, Storing, DraftInv
    <2>3. /\ q \in DOMAIN heap' /\ heap'[q].id = nextID /\ nextID' = nextID + 1
          /\ nextID \in DOMAIN users' /\ users'[nextID] = q
        BY <1>2, <2>2 DEF Create, Put, TypeInv, User
    <2>4. nextID \in 1..(nextID' - 1)
        BY <2>3 DEF TypeInv
    <2>5. Lasts(q)'
        BY <2>1, <2>3 DEF Lasts
    <2> QED
        BY <2>1, <2>3, <2>4, <2>5
<1>3. CASE Update(q)
    <2>1. Wrote(q)' /\ In(q)' = In(q) /\ In(q).call = "update"
        BY <1>3, WriteMade DEF Update, Storing
    <2>2. q \in DOMAIN heap /\ heap[q].id = In(q).id /\ heap' = heap /\ nextID' = nextID
        <3>1. q \in DOMAIN heap /\ heap[q] = Draft(q)
            BY <1>3 DEF Update, Storing, DraftInv
        <3> QED
            BY <1>3, <2>1, <3>1 DEF Update, Draft
    <2>3. In(q).id \in DOMAIN users /\ In(q).id \in DOMAIN users' /\ users'[In(q).id] = q
        BY <1>3, UpdatePuts
    <2>4. In(q).id \in 1..(nextID - 1)
        BY <2>3 DEF TypeInv
    <2>5. Lasts(q)'
        BY <2>1, <2>2, <2>3 DEF Lasts
    <2> QED
        BY <2>1, <2>2, <2>4, <2>5
<1>4. CASE Delete(q)
    <2>1. Wrote(q)' /\ In(q)' = In(q) /\ In(q).call = "delete"
        BY <1>4, WriteMade DEF Delete, Storing
    <2>2. In(q).id \in 1..(nextID - 1) /\ nextID' = nextID /\ In(q).id \notin DOMAIN users'
        BY <1>4 DEF Delete, Storing, Restrict, CheckInv, Missing, TypeInv
    <2>3. Lasts(q)'
        BY <2>1, <2>2 DEF Lasts
    <2> QED
        BY <2>1, <2>2, <2>3
<1>5. CASE ~ Wrote(q)'
    <2>1. ~ Wrote(q)
        BY <1>5, WroteStays
    <2>2. \A i \in DOMAIN users : users[i] # q
        BY <2>1 DEF WroteInv
    <2>3. CASE ~ \E p \in Requests : Step(p)
        BY <1>5, <2>2, <2>3, QuietEffect
    <2>4. ASSUME NEW p \in Requests, Step(p), NEW i \in DOMAIN users'
          PROVE  users'[i] # q
        BY <1>5, <2>2, <2>4, UsersEffect, WriteMade
    <2> QED
        BY <1>5, <2>3, <2>4
<1> QED
    BY <1>1, <1>2, <1>3, <1>4, <1>5, WriteIsMade

(* Ids are counted by the users created.                                   *)
LEMMA CountStep ==
    ASSUME TypeInv, AskedInv, CountInv, [Next]_vars
    PROVE  CountInv'
<1> DEFINE Creates(q) == /\ req[q].out # None
                         /\ req[q].out.verdict = "ok" /\ In(q).call = "create"
<1>1. ASSUME NEW q \in Requests, req'[q].out = req[q].out, pc[q] # "idle" => In(q)' = In(q)
      PROVE  Creates(q)' <=> Creates(q)
    BY <1>1 DEF AskedInv, Fresh
<1>2. ASSUME nextID' = nextID, \A q \in Requests : Creates(q)' <=> Creates(q)
      PROVE  CountInv'
    BY <1>2 DEF CountInv, Created
<1>3. CASE ~ \E p \in Requests : Step(p)
    BY <1>1, <1>2, <1>3, QuietEffect
<1>4. ASSUME NEW p \in Requests, Step(p)
      PROVE  CountInv'
    <2>1. /\ In(p)' = In(p)
          /\ \A q \in Requests : q # p => Same(q)
        BY <1>4, StepEffect
    <2>2. \A q \in Requests : q # p => (Creates(q)' <=> Creates(q))
        BY <1>1, <2>1 DEF Same, In
    <2>3. CASE Create(p)
        <3>1. req[p].out = None /\ In(p).call = "create" /\ nextID' = nextID + 1
            BY <2>3 DEF Create, Storing, AskedInv, Undecided
        <3>2. ~ Creates(p) /\ Creates(p)'
            <4>1. req'[p] = [req[p] EXCEPT !.out = Done(p, p)]
                BY <2>3, ReturnEffect DEF Create
            <4>2. req'[p].out = Done(p, p)
                BY <4>1 DEF TypeInv, Local
            <4>3. Done(p, p) # None
                BY NoneAssumption DEF Done, Out, Verdicts, Traces, Address
            <4> QED
                BY <2>1, <3>1, <4>2, <4>3 DEF Done
        <3>3. Created' = Created \cup {p} /\ p \notin Created
            BY <2>2, <3>2 DEF Created
        <3>4. IsFiniteSet(Created)
            BY RequestsAssumption, FS_Subset DEF Created
        <3>5. Cardinality(Created') = Cardinality(Created) + 1
            BY <3>3, <3>4, FS_AddElement
        <3>6. Cardinality(Created) \in Nat /\ Cardinality(DOMAIN Seed) \in Nat
            BY <3>4, SeedAssumption, FS_CardinalityType
        <3> QED
            BY <3>1, <3>5, <3>6 DEF CountInv
    <2>4. CASE ~ Create(p)
        <3>1. nextID' = nextID
            BY <1>4, <2>4 DEF Step, Handle, Lock, FindByID, CheckCreate, CheckUpdate,
                              CheckDelete, Checked, Update, Delete, Respond, Encode, Log
        <3>2. CASE req'[p].out = req[p].out
            BY <1>1, <1>2, <2>1, <2>2, <3>1, <3>2
        <3>3. CASE req'[p].out # req[p].out
            <4>1. req[p].out = None /\ (req'[p].out.verdict # "ok" \/ In(p).call # "create")
                <5>1. CASE \E k \in Verdicts \ {"ok"} : req'[p].out = Error(p, k)
                    <6>1. \A k : Error(p, k).verdict = k
                        BY DEF Error
                    <6>2. req'[p].out.verdict # "ok"
                        BY <5>1, <6>1
                    <6> QED
                        BY <1>4, <3>3, <6>2, OutEffect
                <5>2. CASE FindByID(p) \/ Update(p) \/ Delete(p)
                    BY <1>4, <3>3, <5>2, OutEffect DEF FindByID, Update, Delete, Storing
                <5> QED
                    BY <1>4, <2>4, <3>3, <5>1, <5>2, OutEffect
            <4>2. ~ Creates(p) /\ ~ Creates(p)'
                BY <2>1, <4>1
            <4> QED
                BY <1>2, <2>2, <3>1, <4>2
        <3> QED
            BY <3>2, <3>3
    <2> QED
        BY <2>3, <2>4
<1> QED
    BY <1>3, <1>4

----------------------------------------------------------------------------
(* The invariant, and what follows from it                                 *)

LEMMA ApiInit == Init => ApiInv
<1> SUFFICES ASSUME Init PROVE ApiInv
    OBVIOUS
<1>1. TypeInv
    BY TypeInit
<1>2. \A p \in Requests : pc[p] = "idle" /\ req[p] = Fresh /\ ~ Inside(p) /\ req[p].out = None
    BY DEF Init, Fresh, Inside
<1>3. LockInv
    BY <1>2 DEF LockInv, Init
<1>4. AskedInv /\ DraftInv /\ CheckInv /\ OutInv /\ ReplyInv
    BY <1>2 DEF AskedInv, DraftInv, CheckInv, OutInv, ReplyInv, Fresh
<1>5. PrivateInv
    <2>1. \A i \in DOMAIN users : users[i] \in Nat
        BY SeedAssumption, FS_CardinalityType DEF Init
    <2> QED
        BY <1>2, <2>1, RequestsAssumption DEF PrivateInv
<1>6. IdInv
    BY DEF IdInv, Init
<1>7. EmailsUnique
    <2>1. \A i, j \in DOMAIN Seed : Seed[i] = Seed[j] => i = j
        BY SeedAssumption DEF IsInjective
    <2> QED
        BY <2>1 DEF EmailsUnique, Init
<1>9. WroteInv
    <2>1. \A i \in DOMAIN users : users[i] \in Nat
        BY SeedAssumption, FS_CardinalityType DEF Init
    <2> QED
        BY <1>2, <2>1, RequestsAssumption DEF WroteInv, Wrote
<1>8. CountInv
    <2>1. Created = {}
        BY <1>2 DEF Created
    <2> QED
        BY <2>1, FS_EmptySet, SeedAssumption, FS_CardinalityType DEF CountInv, Init
<1> QED
    BY <1>1, <1>3, <1>4, <1>5, <1>6, <1>7, <1>8, <1>9 DEF ApiInv

LEMMA ApiStep == ApiInv /\ [Next]_vars => ApiInv'
BY TypeStep, LockStep, AskedStep, DraftStep, PrivateStep, IdStep, EmailsStep, CheckStep,
   OutStep, ReplyStep, WroteStep, CountStep DEF ApiInv

LEMMA ApiInvariant == Spec => []ApiInv
BY ApiInit, ApiStep, PTL DEF Spec

(* The state of HttpApi is well typed, its lock is held by one writer or   *)
(* by readers, and by those in the repository alone (repository.go:48-141). *)
THEOREM ApiTypeCorrect == Spec => []ApiTypeOK
<1>1. ApiInv => ApiTypeOK
    <2> SUFFICES ASSUME ApiInv PROVE ApiTypeOK
        OBVIOUS
    <2>1. TypeInv /\ LockInv /\ IdInv
        BY DEF ApiInv
    <2>2. Cardinality(mutex.writer) <= 1
        <3>1. CASE mutex.writer = {}
            BY <3>1, FS_EmptySet
        <3>2. CASE mutex.writer # {}
            <4>1. PICK p : mutex.writer = {p}
                BY <2>1, <3>2 DEF LockInv
            <4> QED
                <5>1. Cardinality(mutex.writer) = 1
                    BY <4>1, FS_Singleton
                <5> QED
                    BY <5>1
        <3> QED
            BY <3>1, <3>2
    <2>3. mutex.readers \cup mutex.writer = {p \in Requests : pc[p] \in {"check", "store"}}
        BY <2>1 DEF LockInv, Inside
    <2>4. \A i \in DOMAIN users : users[i] \in DOMAIN heap /\ heap[users[i]].id = i
        BY <2>1 DEF TypeInv, IdInv
    <2> QED
        BY <2>1, <2>2, <2>3, <2>4 DEF ApiTypeOK, TypeInv, LockInv
<1> QED
    BY <1>1, ApiInvariant, PTL

(* No two users ever have one email, whatever writes interleave            *)
(* (repository.go:81-125).                                                 *)
THEOREM EmailsAreUnique == Spec => []EmailsUnique
<1>1. ApiInv => EmailsUnique
    BY DEF ApiInv
<1> QED
    BY <1>1, ApiInvariant, PTL

(* The status of a write says what became of it: below 400 it was made and *)
(* lasts until it is written over, from 400 to 499 it is never seen        *)
(* (service.go:47-117, repository.go:81-141, middleware.go:65-80).         *)
THEOREM EffectsAreAsTold == Spec => []EffectAsTold
<1>1. ApiInv => EffectAsTold
    <2> SUFFICES ASSUME ApiInv, NEW p \in Requests,
                        In(p) # None, In(p).call \in Writes, req[p].status # None
                 PROVE  /\ req[p].status < 400 => Wrote(p) /\ Lasts(p)
                        /\ req[p].status \in 400..499 => ~ Wrote(p) /\ p \notin Range(users)
        BY DEF EffectAsTold
    <2>1. TypeInv /\ AskedInv /\ OutInv /\ ReplyInv /\ WroteInv
        BY DEF ApiInv
    <2>2. req[p].status = 500 \/ Decides(p)
        <3>1. ~ Undecided(p)
            BY <2>1 DEF AskedInv
        <3>2. pc[p] \in {"encode", "log", "done"}
            BY <2>1, <3>1 DEF TypeInv, PCs, Undecided, ReplyInv
        <3> QED
            BY <2>1, <3>2 DEF ReplyInv
    <2>3. CASE req[p].status = 500
        BY <2>3
    <2>4. CASE Decides(p)
        <3>1. req[p].out # None /\ req[p].status = Status(p)
            BY <2>4 DEF Decides
        <3>2. req[p].status \in Nat /\ (req[p].status >= 400 <=> req[p].out.verdict # "ok")
            BY <2>1, <3>1, StatusTells
        <3>3. req[p].status < 400 => Wrote(p)
            BY <3>1, <3>2 DEF Wrote
        <3>4. req[p].status \in 400..499 => ~ Wrote(p)
            BY <3>1, <3>2 DEF Wrote
        <3> QED
            BY <2>1, <3>3, <3>4 DEF WroteInv, Range
    <2> QED
        BY <2>2, <2>3, <2>4
<1> QED
    BY <1>1, ApiInvariant, PTL

(* No step writes to a user that is stored or was handed out               *)
(* (repository.go:48-62, 102-125).                                         *)
THEOREM SharedUsersKept == Spec => SharedUsersUnchanged
<1>1. ApiInv /\ [Next]_vars => [\A a \in Shared : heap'[a] = heap[a]]_vars
    <2> SUFFICES ASSUME ApiInv, [Next]_vars, NEW a \in Shared
                 PROVE  heap'[a] = heap[a]
        OBVIOUS
    <2>1. TypeInv /\ AskedInv /\ DraftInv /\ PrivateInv /\ OutInv
        BY DEF ApiInv
    <2>2. CASE \E i \in DOMAIN users : a = users[i]
        BY <2>1, <2>2, StoredKept
    <2>3. ASSUME NEW q \in Requests, req[q].out # None, a = req[q].out.user, a # None
          PROVE  heap'[a] = heap[a]
        <3>1. req[q].out.verdict = "ok"
            <4>1. req[q].out.verdict # "ok" => req[q].out = Error(q, req[q].out.verdict)
                BY <2>1, <2>3 DEF OutInv
            <4>2. Error(q, req[q].out.verdict).user = None
                BY DEF Error
            <4> QED
                BY <2>3, <4>1, <4>2
        <3> QED
            BY <2>1, <2>3, <3>1, HandedKept
    <2> QED
        BY <2>2, <2>3 DEF Shared, Range
<1> QED
    BY <1>1, ApiInvariant, PTL DEF Spec, SharedUsersUnchanged

----------------------------------------------------------------------------
(* The refinement of UserService                                           *)

LEMMA DecisionKept ==
    ASSUME ApiInv, [Next]_vars, NEW q \in Requests, req'[q].out = req[q].out
    PROVE  Decision(q)' = Decision(q)
<1>1. TypeInv /\ AskedInv /\ DraftInv /\ PrivateInv /\ OutInv
    BY DEF ApiInv
<1>2. CASE req[q].out = None
    BY <1>2 DEF Decision
<1>3. CASE req[q].out # None /\ req[q].out.verdict # "ok"
    BY <1>3 DEF Decision
<1>4. CASE req[q].out # None /\ req[q].out.verdict = "ok" /\ req[q].out.user = None
    <2>1. pc[q] # "idle"
        BY <1>1, <1>4 DEF AskedInv, Fresh
    <2>2. In(q)' = In(q)
        <3>1. CASE ~ \E p \in Requests : Step(p)
            BY <1>1, <2>1, <3>1, QuietEffect
        <3>2. ASSUME NEW p \in Requests, Step(p)
              PROVE  In(q)' = In(q)
            BY <1>1, <3>2, StepEffect DEF Same, In
        <3> QED
            BY <3>1, <3>2
    <2> QED
        BY <1>4, <2>2 DEF Decision
<1>5. CASE req[q].out # None /\ req[q].out.verdict = "ok" /\ req[q].out.user # None
    <2>1. heap'[req[q].out.user] = heap[req[q].out.user]
        BY <1>1, <1>5, HandedKept
    <2> QED
        BY <1>5, <2>1 DEF Decision
<1> QED
    BY <1>2, <1>3, <1>4, <1>5

LEMMA EmailsKept ==
    ASSUME ApiInv, [Next]_vars, users' = users
    PROVE  [i \in DOMAIN users |-> heap[users[i]].email]'
              = [i \in DOMAIN users |-> heap[users[i]].email]
<1>1. TypeInv /\ AskedInv /\ DraftInv /\ PrivateInv
    BY DEF ApiInv
<1>2. \A i \in DOMAIN users : heap'[users[i]] = heap[users[i]]
    BY <1>1, StoredKept
<1> QED
    BY <1>2

(* A step that decides nothing and tells nothing is no step of the promise. *)
LEMMA Stutter ==
    ASSUME ApiInv, [Next]_vars, UNCHANGED <<users, nextID>>,
           \A q \in Requests : /\ In(q)' = In(q) /\ req'[q].out = req[q].out
                               /\ Answer(q)' = Answer(q)
    PROVE  UNCHANGED Promise!vars
<1>1. \A q \in Requests : Decision(q)' = Decision(q)
    BY DecisionKept
<1> QED
    BY <1>1, EmailsKept DEF Promise!vars, In

(* What a client has read before its answer is complete.                   *)
LEMMA NotYetTold ==
    ASSUME ApiInv, NEW p \in Requests, pc[p] \in {"idle", "arrived", "lock", "check", "store",
                                                   "respond", "encode"}
    PROVE  Answer(p) = None /\ req[p].status # 204
<1>1. req[p].body = None
    <2>1. Undecided(p) => req[p].body = None
        BY DEF ApiInv, AskedInv
    <2>2. pc[p] \in {"respond", "encode"} => req[p].body = None
        BY DEF ApiInv, ReplyInv
    <2> QED
        BY <2>1, <2>2 DEF Undecided
<1>2. req[p].status # 204
    <2>1. CASE pc[p] = "encode"
        BY <2>1 DEF ApiInv, ReplyInv
    <2>2. CASE pc[p] # "encode"
        <3>1. req[p].status = None
            <4>1. Undecided(p) => req[p].status = None
                BY DEF ApiInv, AskedInv
            <4>2. pc[p] = "respond" => req[p].status = None
                BY DEF ApiInv, ReplyInv
            <4> QED
                BY <2>2, <4>1, <4>2 DEF Undecided
        <3> QED
            BY <3>1, NoneAssumption
    <2> QED
        BY <2>1, <2>2
<1> QED
    BY <1>1, <1>2 DEF Answer

(* A request that gets its result keeps all else it has.                   *)
LEMMA ResultEffect ==
    ASSUME ApiInv, [Next]_vars, NEW p \in Requests, Step(p),
           Undecided(p), NEW out, req'[p] = [req[p] EXCEPT !.out = out], pc'[p] = "respond"
    PROVE  /\ [q \in Requests |-> req[q].in]' = [q \in Requests |-> req[q].in]
           /\ [q \in Requests |-> Answer(q)]' = [q \in Requests |-> Answer(q)]
           /\ [q \in Requests |-> Decision(q)]'
                 = [[q \in Requests |-> Decision(q)] EXCEPT ![p] = Decision(p)']
           /\ Decision(p) = None /\ Answer(p) = None /\ req'[p].out = out
           /\ req[p].in # None
<1>1. TypeInv /\ AskedInv /\ req[p] \in Local
    BY DEF ApiInv, TypeInv
<1>2. /\ pc[p] # "idle" /\ In(p)' = In(p) /\ In(p) # None
      /\ \A q \in Requests : q # p => Same(q)
    BY <1>1, StepEffect, InputTyped DEF AskedInv
<1>3. /\ req'[p].out = out /\ req'[p].status = req[p].status /\ req'[p].body = req[p].body
      /\ req[p].out = None
    BY <1>1 DEF Local, AskedInv
<1>4. \A q \in Requests : Answer(q)' = Answer(q)
    <2>1. Answer(p)' = Answer(p)
        BY <1>2, <1>3 DEF Answer
    <2>2. \A q \in Requests : q # p => Answer(q)' = Answer(q)
        BY <1>2 DEF Answer, Same, In
    <2> QED
        BY <2>1, <2>2
<1>5. \A q \in Requests : q # p => Decision(q)' = Decision(q)
    BY <1>2, DecisionKept DEF Same
<1>6. Decision(p) = None
    BY <1>3 DEF Decision
<1>7. Answer(p) = None
    BY NotYetTold DEF Undecided
<1>8. \A q \in Requests : req'[q].in = req[q].in
    BY <1>2 DEF Same, In
<1> QED
    BY <1>2, <1>3, <1>4, <1>5, <1>6, <1>7, <1>8 DEF In

(* A refusal, for a reason that holds.                                     *)
LEMMA RefuseRefines ==
    ASSUME ApiInv, [Next]_vars, NEW p \in Requests, Step(p), Undecided(p),
           NEW k \in Verdicts \ {"ok"},
           req'[p] = [req[p] EXCEPT !.out = Error(p, k)], pc'[p] = "respond",
           UNCHANGED <<users, nextID>>,
           k = "not_found" => Missing(p),
           k = "conflict" => Taken(p) /\ pc[p] = "check" /\ In(p).call \in {"create", "update"},
           k = "forbidden" => In(p).caller # In(p).id,
           k = "unauthorized" => In(p).caller = None,
           k \in Promise!Refusals
    PROVE  Promise!Next
<1>1. /\ [q \in Requests |-> req[q].in]' = [q \in Requests |-> req[q].in]
      /\ [q \in Requests |-> Answer(q)]' = [q \in Requests |-> Answer(q)]
      /\ [q \in Requests |-> Decision(q)]'
            = [[q \in Requests |-> Decision(q)] EXCEPT ![p] = Decision(p)']
      /\ Decision(p) = None /\ Answer(p) = None /\ req'[p].out = Error(p, k)
      /\ req[p].in # None
    BY ResultEffect
<1>2. Decision(p)' = [verdict |-> k, id |-> None, email |-> None]
    <2>1. req[p].trace \in Traces
        BY DEF ApiInv, TypeInv, Local
    <2>2. Error(p, k) # None /\ Error(p, k).verdict = k
        BY <2>1, NoneAssumption DEF Error, Out
    <2> QED
        BY <1>1, <2>2 DEF Decision
<1>3. [i \in DOMAIN users |-> heap[users[i]].email]'
         = [i \in DOMAIN users |-> heap[users[i]].email]
    BY EmailsKept
<1>4. k = "conflict" => \E i \in DOMAIN users \ {In(p).id} : heap[users[i]].email = In(p).email
    <2> SUFFICES ASSUME k = "conflict"
                 PROVE  \E i \in DOMAIN users \ {In(p).id} : heap[users[i]].email = In(p).email
        OBVIOUS
    <2>1. heap[p] = Draft(p)
        BY DEF ApiInv, DraftInv
    <2>2. PICK i \in DOMAIN users : i # heap[p].id /\ heap[users[i]].email = heap[p].email
        BY DEF Taken
    <2>3. i \in Nat
        BY DEF ApiInv, TypeInv
    <2>4. In(p).call = "create" => In(p).id = None
        BY InputTyped DEF ApiInv, AskedInv
    <2>5. i # In(p).id
        BY <2>1, <2>2, <2>3, <2>4, NoneAssumption DEF Draft
    <2> QED
        BY <2>1, <2>2, <2>5 DEF Draft
<1>5. Promise!Decide(p, In(p).call, k, None, None)
    BY <1>1, <1>2 DEF Promise!Decide, In
<1>6. Promise!Refuse(p, k)
    BY <1>3, <1>4, <1>5 DEF Promise!Refuse, Promise!Taken, Missing, In
<1> QED
    BY <1>1, <1>6 DEF Promise!Next

LEMMA HandleRefines ==
    ASSUME ApiInv, [Next]_vars, NEW p \in Requests, Handle(p), Refusal(In(p)) # "ok"
    PROVE  Promise!Next
<1> DEFINE k == Refusal(In(p))
<1>1. k \in {"method_not_allowed", "unauthorized", "validation", "forbidden"}
    BY RefusalVerdict
<1>2. /\ req' = [req EXCEPT ![p].out = Error(p, k)] /\ pc' = [pc EXCEPT ![p] = "respond"]
      /\ Undecided(p) /\ UNCHANGED <<users, nextID>>
    BY DEF Handle, Undecided
<1>3. /\ k = "forbidden" => In(p).caller # In(p).id
      /\ k = "unauthorized" => In(p).caller = None
    BY DEF Refusal, Routed, Authenticated, Owner
<1>4. k \in Verdicts \ {"ok"} /\ k \in Promise!Refusals
    BY <1>1 DEF Verdicts, StatusOf, Promise!Refusals
<1>5. req'[p] = [req[p] EXCEPT !.out = Error(p, k)] /\ pc'[p] = "respond"
    BY <1>2 DEF ApiInv, TypeInv
<1>6. Step(p)
    BY DEF Step
<1> HIDE DEF k
<1> QED
    BY <1>1, <1>2, <1>3, <1>4, <1>5, <1>6, RefuseRefines

(* The repository's refusals.                                              *)
LEMMA ReturnRefines ==
    ASSUME ApiInv, [Next]_vars, NEW p \in Requests, Step(p), pc[p] = "check",
           NEW k \in {"database", "not_found", "conflict"}, Return(p, Returned(p, k)),
           UNCHANGED <<users, nextID>>, In(p).call \in DOMAIN PassedOn,
           k = "not_found" => Missing(p),
           k = "conflict" => Taken(p) /\ In(p).call \in {"create", "update"}
    PROVE  Promise!Next
<1>1. PICK j \in {"database", "not_found", "conflict"} :
          (j = k \/ j = "database") /\ Returned(p, k) = Error(p, j)
    BY DEF Returned
<1>2. req'[p] = [req[p] EXCEPT !.out = Error(p, j)] /\ pc'[p] = "respond"
    BY <1>1, ReturnEffect DEF ApiInv
<1>3. j \in Verdicts \ {"ok"} /\ j \in Promise!Refusals /\ Undecided(p)
    BY DEF Verdicts, StatusOf, Promise!Refusals, Undecided
<1> QED
    BY <1>1, <1>2, <1>3, RefuseRefines

LEMMA CreateRefines ==
    ASSUME ApiInv, [Next]_vars, NEW p \in Requests, Create(p)
    PROVE  Promise!Next
<1>0. PICK id \in Nat \ {0} : id = nextID
    BY DEF ApiInv, TypeInv
<1>1. TypeInv /\ AskedInv /\ DraftInv /\ PrivateInv
    BY DEF ApiInv
<1>2. /\ Step(p) /\ Undecided(p) /\ pc[p] = "store" /\ In(p).call = "create" /\ Return(p, Done(p, p))
      /\ users' = Put(users, id, p) /\ nextID' = id + 1 /\ heap' = [heap EXCEPT ![p].id = id]
    BY <1>0 DEF Create, Step, Storing, Undecided
<1>3. p \in DOMAIN heap /\ heap[p] = [id |-> NoId, email |-> In(p).email] /\ ~ Taken(p) /\ p # None
    BY <1>1, <1>2, NoneAssumption DEF DraftInv, Draft, ApiInv, CheckInv, Address
<1>4. /\ [q \in Requests |-> req[q].in]' = [q \in Requests |-> req[q].in]
      /\ [q \in Requests |-> Answer(q)]' = [q \in Requests |-> Answer(q)]
      /\ [q \in Requests |-> Decision(q)]'
            = [[q \in Requests |-> Decision(q)] EXCEPT ![p] = Decision(p)']
      /\ Decision(p) = None /\ Answer(p) = None /\ req'[p].out = Done(p, p)
      /\ req[p].in # None
    BY <1>1, <1>2, ReturnEffect, ResultEffect
<1>5. heap'[p] = [id |-> id, email |-> In(p).email]
    BY <1>2, <1>3
<1>6. Decision(p)' = [verdict |-> "ok", id |-> id, email |-> In(p).email]
    <2>1. Done(p, p) # None /\ Done(p, p).verdict = "ok" /\ Done(p, p).user = p
        BY NoneAssumption DEF Done, Out, Verdicts, Traces, Address
    <2> QED
        <3>1. Decision(p)' = [verdict |-> "ok", id |-> heap'[p].id, email |-> heap'[p].email]
            BY <1>3, <1>4, <2>1 DEF Decision
        <3> QED
            BY <1>5, <3>1
<1>7. Promise!Decide(p, "create", "ok", id, In(p).email)
    BY <1>2, <1>4, <1>6 DEF Promise!Decide, In
<1>8. \A i \in DOMAIN users : i \in 1..(id - 1)
    BY <1>0, <1>1 DEF TypeInv
<1>9. ~ \E i \in DOMAIN users \ {id} : heap[users[i]].email = In(p).email
    BY <1>3, <1>8 DEF Taken, NoId
<1>10. [i \in DOMAIN users |-> heap[users[i]].email]'
          = [i \in DOMAIN users \cup {id} |->
                IF i = id THEN In(p).email ELSE heap[users[i]].email]
    <2>1. DOMAIN users' = DOMAIN users \cup {id} /\ users'[id] = p
        BY <1>2 DEF Put
    <2>2. \A i \in DOMAIN users : i # id => users'[i] = users[i] /\ heap'[users[i]] = heap[users[i]]
        BY <1>1, <1>2, StoredKept DEF Put
    <2> QED
        BY <1>5, <2>1, <2>2
<1>11. 1..(nextID' - 1) = 1..(nextID - 1) \cup {id}
    BY <1>0, <1>2
<1>12. id \notin 1..(nextID - 1)
    BY <1>0
<1>13. Promise!Create(p, id)
    BY <1>7, <1>8, <1>9, <1>10, <1>11, <1>12 DEF Promise!Create, Promise!Taken, In
<1>14. id \in 1..(Cardinality(DOMAIN Seed) + Cardinality(Requests))
    <2>1. id = Cardinality(DOMAIN Seed) + 1 + Cardinality(Created) /\ id \in Nat \ {0}
        BY <1>0 DEF ApiInv, CountInv
    <2>2. p \notin Created /\ Created \in SUBSET Requests
        BY <1>1, <1>2 DEF AskedInv, Undecided, Created
    <2>3. IsFiniteSet(Created) /\ Cardinality(Created \cup {p}) = Cardinality(Created) + 1
        BY <2>2, RequestsAssumption, FS_Subset, FS_AddElement
    <2>4. Cardinality(Created \cup {p}) <= Cardinality(Requests)
        BY <2>2, RequestsAssumption, FS_Subset
    <2>5. Cardinality(Requests) \in Nat /\ Cardinality(DOMAIN Seed) \in Nat /\ Cardinality(Created) \in Nat
        BY <2>3, RequestsAssumption, SeedAssumption, FS_CardinalityType
    <2> QED
        BY <2>1, <2>3, <2>4, <2>5
<1>15. \E i \in 1..(Cardinality(DOMAIN Seed) + Cardinality(Requests)) : Promise!Create(p, i)
    BY <1>13, <1>14
<1> QED
    BY <1>15 DEF Promise!Next

(* What an operation on a user there is finds and does.                    *)
LEMMA IdBound ==
    ASSUME ApiInv, NEW i \in DOMAIN users
    PROVE  i \in 1..(Cardinality(DOMAIN Seed) + Cardinality(Requests))
<1>1. nextID = Cardinality(DOMAIN Seed) + 1 + Cardinality(Created) /\ i \in 1..(nextID - 1)
    BY DEF ApiInv, CountInv, TypeInv
<1>2. IsFiniteSet(Created) /\ Cardinality(Created) <= Cardinality(Requests)
    BY RequestsAssumption, FS_Subset DEF Created
<1>3. Cardinality(Requests) \in Nat /\ Cardinality(DOMAIN Seed) \in Nat /\ Cardinality(Created) \in Nat
    BY <1>2, RequestsAssumption, SeedAssumption, FS_CardinalityType
<1> QED
    BY <1>1, <1>2, <1>3

LEMMA UpdateRefines ==
    ASSUME ApiInv, [Next]_vars, NEW p \in Requests, Update(p)
    PROVE  Promise!Next
<1>0. PICK id : id = In(p).id
    OBVIOUS
<1>1. TypeInv /\ AskedInv /\ DraftInv /\ PrivateInv
    BY DEF ApiInv
<1>2. /\ Step(p) /\ Undecided(p) /\ pc[p] = "store" /\ In(p).call = "update" /\ Return(p, Done(p, p))
      /\ users' = [users EXCEPT ![id] = p] /\ UNCHANGED <<heap, nextID>>
    <2>1. users' = [users EXCEPT ![id] = p]
        BY <1>0, UpdatePuts DEF ApiInv
    <2> QED
        BY <2>1 DEF Update, Step, Storing, Undecided
<1>3. /\ p \in DOMAIN heap /\ heap[p] = [id |-> id, email |-> In(p).email] /\ ~ Taken(p) /\ p # None
      /\ id \in DOMAIN users /\ In(p).caller = id
    <2>1. heap[p] = Draft(p) /\ p \in DOMAIN heap /\ ~ Taken(p) /\ ~ Missing(p)
        BY <1>1, <1>2 DEF DraftInv, ApiInv, CheckInv
    <2>2. In(p).caller = id
        BY <1>0, <1>1, <1>2, RefusalOk DEF AskedInv, Owner
    <2> QED
        BY <1>0, <1>2, <2>1, <2>2, NoneAssumption DEF Draft, Address, Missing
<1>4. /\ [q \in Requests |-> req[q].in]' = [q \in Requests |-> req[q].in]
      /\ [q \in Requests |-> Answer(q)]' = [q \in Requests |-> Answer(q)]
      /\ [q \in Requests |-> Decision(q)]'
            = [[q \in Requests |-> Decision(q)] EXCEPT ![p] = Decision(p)']
      /\ Decision(p) = None /\ Answer(p) = None /\ req'[p].out = Done(p, p)
      /\ req[p].in # None
    BY <1>1, <1>2, ReturnEffect, ResultEffect
<1>5. Decision(p)' = [verdict |-> "ok", id |-> id, email |-> In(p).email]
    <2>1. Done(p, p) # None /\ Done(p, p).verdict = "ok" /\ Done(p, p).user = p
        BY NoneAssumption DEF Done, Out, Verdicts, Traces, Address
    <2> QED
        <3>1. Decision(p)' = [verdict |-> "ok", id |-> heap'[p].id, email |-> heap'[p].email]
            BY <1>3, <1>4, <2>1 DEF Decision
        <3> QED
            BY <1>2, <1>3, <3>1
<1>6. Promise!Decide(p, "update", "ok", id, In(p).email)
    BY <1>2, <1>4, <1>5 DEF Promise!Decide, In
<1>7. ~ \E i \in DOMAIN users \ {id} : heap[users[i]].email = In(p).email
    BY <1>3 DEF Taken
<1>8. [i \in DOMAIN users |-> heap[users[i]].email]'
          = [[i \in DOMAIN users |-> heap[users[i]].email] EXCEPT ![id] = In(p).email]
    <2>1. DOMAIN users' = DOMAIN users /\ heap' = heap /\ users'[id] = p
        BY <1>2, <1>3
    <2>2. \A i \in DOMAIN users : i # id => users'[i] = users[i]
        BY <1>2
    <2>3. heap[p].email = In(p).email
        BY <1>3
    <2> QED
        BY <1>3, <2>1, <2>2, <2>3
<1>9. Promise!Update(p, id)
    BY <1>0, <1>2, <1>3, <1>6, <1>7, <1>8 DEF Promise!Update, Promise!Taken, In
<1>10. \E i \in 1..(Cardinality(DOMAIN Seed) + Cardinality(Requests)) : Promise!Update(p, i)
    BY <1>3, <1>9, IdBound
<1> QED
    BY <1>10 DEF Promise!Next

LEMMA DeleteRefines ==
    ASSUME ApiInv, [Next]_vars, NEW p \in Requests, Delete(p)
    PROVE  Promise!Next
<1>0. PICK id : id = In(p).id
    OBVIOUS
<1>1. TypeInv /\ AskedInv
    BY DEF ApiInv
<1>2. /\ Step(p) /\ Undecided(p) /\ pc[p] = "store" /\ In(p).call = "delete" /\ Return(p, Done(p, None))
      /\ users' = Restrict(users, DOMAIN users \ {id}) /\ UNCHANGED <<heap, nextID>>
    BY <1>0 DEF Delete, Step, Storing, Undecided
<1>3. id \in DOMAIN users /\ In(p).caller = id
    <2>1. ~ Missing(p)
        BY <1>2 DEF ApiInv, CheckInv
    <2>2. In(p).caller = id
        BY <1>0, <1>1, <1>2, RefusalOk DEF AskedInv, Owner
    <2> QED
        BY <1>0, <2>1, <2>2 DEF Missing
<1>4. /\ [q \in Requests |-> req[q].in]' = [q \in Requests |-> req[q].in]
      /\ [q \in Requests |-> Answer(q)]' = [q \in Requests |-> Answer(q)]
      /\ [q \in Requests |-> Decision(q)]'
            = [[q \in Requests |-> Decision(q)] EXCEPT ![p] = Decision(p)']
      /\ Decision(p) = None /\ Answer(p) = None /\ req'[p].out = Done(p, None)
      /\ req[p].in # None
    BY <1>1, <1>2, ReturnEffect, ResultEffect
<1>5. Decision(p)' = [verdict |-> "ok", id |-> id, email |-> None]
    <2>1. Done(p, None) # None /\ Done(p, None).verdict = "ok" /\ Done(p, None).user = None
        BY NoneAssumption DEF Done, Out, Verdicts, Traces
    <2>2. In(p)' = In(p)
        BY <1>1, <1>2, StepEffect
    <2> QED
        BY <1>0, <1>4, <2>1, <2>2 DEF Decision
<1>6. Promise!Decide(p, "delete", "ok", id, None)
    BY <1>2, <1>4, <1>5 DEF Promise!Decide, In
<1>7. [i \in DOMAIN users |-> heap[users[i]].email]'
          = Promise!Restrict([i \in DOMAIN users |-> heap[users[i]].email],
                     DOMAIN [i \in DOMAIN users |-> heap[users[i]].email] \ {id})
    BY <1>2 DEF Restrict, Promise!Restrict
<1>8. Promise!Delete(p, id)
    BY <1>0, <1>2, <1>3, <1>6, <1>7 DEF Promise!Delete, In
<1>9. \E i \in 1..(Cardinality(DOMAIN Seed) + Cardinality(Requests)) : Promise!Delete(p, i)
    BY <1>3, <1>8, IdBound
<1> QED
    BY <1>9 DEF Promise!Next

LEMMA FindRefines ==
    ASSUME ApiInv, [Next]_vars, NEW p \in Requests, FindByID(p)
    PROVE  Promise!Next
<1> DEFINE id == In(p).id
<1>1. TypeInv /\ AskedInv
    BY DEF ApiInv
<1>2. /\ Step(p) /\ Undecided(p) /\ pc[p] = "check" /\ In(p).call = "get"
      /\ UNCHANGED <<users, heap, nextID>>
    BY DEF FindByID, Step, Undecided
<1>3. CASE Failing
    <2>1. Return(p, Returned(p, "database"))
        BY <1>3 DEF FindByID
    <2> QED
        BY <1>2, <2>1, ReturnRefines DEF PassedOn
<1>4. CASE ~ Failing /\ Missing(p)
    <2>1. Return(p, Returned(p, "not_found"))
        BY <1>4 DEF FindByID
    <2> QED
        BY <1>2, <1>4, <2>1, ReturnRefines DEF PassedOn
<1>5. CASE ~ Failing /\ ~ Missing(p)
    <2>1. Return(p, Done(p, users[id])) /\ id \in DOMAIN users
        BY <1>5 DEF FindByID, Missing
    <2>2. users[id] \in DOMAIN heap /\ users[id] \in Address /\ users[id] # None /\ heap[users[id]].id = id
        BY <1>1, <2>1, NoneAssumption DEF TypeInv, ApiInv, IdInv
    <2>3. /\ [q \in Requests |-> req[q].in]' = [q \in Requests |-> req[q].in]
          /\ [q \in Requests |-> Answer(q)]' = [q \in Requests |-> Answer(q)]
          /\ [q \in Requests |-> Decision(q)]'
                = [[q \in Requests |-> Decision(q)] EXCEPT ![p] = Decision(p)']
          /\ Decision(p) = None /\ Answer(p) = None /\ req'[p].out = Done(p, users[id])
          /\ req[p].in # None
        BY <1>1, <1>2, <2>1, ReturnEffect, ResultEffect
    <2>4. Decision(p)' = [verdict |-> "ok", id |-> id, email |-> heap[users[id]].email]
        <3>1. /\ Done(p, users[id]) # None /\ Done(p, users[id]).verdict = "ok"
              /\ Done(p, users[id]).user = users[id]
            BY <2>2, NoneAssumption DEF Done, Out, Verdicts, Traces
        <3> QED
            <4>1. PICK a : a = users[id]
                OBVIOUS
            <4>2. Decision(p)' = [verdict |-> "ok", id |-> heap'[a].id, email |-> heap'[a].email]
                BY <2>2, <2>3, <3>1, <4>1 DEF Decision
            <4> QED
                BY <1>2, <2>2, <4>1, <4>2
    <2>5. Promise!Decide(p, "get", "ok", id, heap[users[id]].email)
        BY <1>2, <2>3, <2>4 DEF Promise!Decide, In
    <2>6. Promise!Get(p, id)
        BY <1>2, <2>1, <2>5 DEF Promise!Get, In
    <2> QED
        BY <2>1, <2>6, IdBound DEF Promise!Next
<1> QED
    BY <1>3, <1>4, <1>5

LEMMA CheckRefines ==
    ASSUME ApiInv, [Next]_vars, NEW p \in Requests,
           CheckCreate(p) \/ CheckUpdate(p) \/ CheckDelete(p)
    PROVE  Promise!Next \/ UNCHANGED Promise!vars
<1>1. TypeInv /\ AskedInv /\ Step(p)
    BY DEF ApiInv, Step
<1>2. ASSUME NEW call \in {"create", "update", "delete"},
             NEW k \in {"ok", "database", "not_found", "conflict"}, Checked(p, call, k),
             k = "not_found" => Missing(p),
             k = "conflict" => Taken(p) /\ call \in {"create", "update"}
      PROVE  Promise!Next \/ UNCHANGED Promise!vars
    <2>1. CASE k = "ok"
        <3>1. UNCHANGED <<users, nextID, req>>
            BY <1>2, <2>1 DEF Checked
        <3>2. \A q \in Requests : Answer(q)' = Answer(q) /\ In(q)' = In(q)
            BY <3>1 DEF Answer, In
        <3> QED
            BY <3>1, <3>2, Stutter
    <2>2. CASE k # "ok"
        <3>1. /\ pc[p] = "check" /\ In(p).call = call /\ Return(p, Returned(p, k))
              /\ UNCHANGED <<users, nextID>> /\ In(p).call \in DOMAIN PassedOn
            BY <1>2, <2>2 DEF Checked, PassedOn
        <3> QED
            BY <1>1, <1>2, <2>2, <3>1, ReturnRefines
    <2> QED
        BY <2>1, <2>2
<1>3. CASE CheckCreate(p)
    <2> DEFINE k == IF Failing THEN "database" ELSE IF Taken(p) THEN "conflict" ELSE "ok"
    <2>1. Checked(p, "create", k)
        BY <1>3 DEF CheckCreate
    <2>2. PICK j : j = k
        OBVIOUS
    <2> QED
        BY <1>2, <2>1, <2>2
<1>4. CASE CheckUpdate(p)
    <2> DEFINE k == IF Failing THEN "database" ELSE IF Missing(p) THEN "not_found"
                    ELSE IF Taken(p) THEN "conflict" ELSE "ok"
    <2>1. Checked(p, "update", k)
        BY <1>4 DEF CheckUpdate
    <2>2. PICK j : j = k
        OBVIOUS
    <2> QED
        BY <1>2, <2>1, <2>2
<1>5. CASE CheckDelete(p)
    <2> DEFINE k == IF Failing THEN "database" ELSE IF Missing(p) THEN "not_found" ELSE "ok"
    <2>1. Checked(p, "delete", k)
        BY <1>5 DEF CheckDelete
    <2>2. PICK j : j = k
        OBVIOUS
    <2> QED
        BY <1>2, <2>1, <2>2
<1> QED
    BY <1>3, <1>4, <1>5

LEMMA ArriveRefines ==
    ASSUME ApiInv, [Next]_vars, NEW p \in Requests, Arrive(p)
    PROVE  Promise!Next
<1>1. TypeInv /\ AskedInv
    BY DEF ApiInv
<1>2. PICK in \in Inputs[p], t \in Traces : req'[p] = [req[p] EXCEPT !.in = in, !.trace = t]
    BY <1>1, ArriveEffect
<1>3. /\ pc[p] = "idle" /\ UNCHANGED <<users, heap, nextID>>
      /\ \A q \in Requests : q # p => Same(q)
    BY <1>1, ArriveEffect
<1>4. /\ req[p] = Fresh /\ req[p].out = None /\ req[p].in = None
      /\ req'[p].in = in /\ req'[p].out = None /\ req'[p].status = None /\ req'[p].body = None
    <2>1. req[p] = Fresh
        BY <1>1, <1>3 DEF AskedInv
    <2>2. req'[p] = [Fresh EXCEPT !.in = in, !.trace = t]
        BY <1>2, <2>1
    <2> QED
        BY <2>1, <2>2 DEF Fresh
<1>5. \A q \in Requests : Answer(q)' = Answer(q)
    <2>1. Answer(p)' = None /\ Answer(p) = None
        BY <1>3, <1>4, NotYetTold, NoneAssumption DEF Answer
    <2>2. \A q \in Requests : q # p => Answer(q)' = Answer(q)
        BY <1>3 DEF Answer, Same, In
    <2> QED
        BY <2>1, <2>2
<1>6. \A q \in Requests : req'[q].out = req[q].out
    BY <1>3, <1>4 DEF Same
<1>7. \A q \in Requests : Decision(q)' = Decision(q)
    BY <1>6, DecisionKept
<1>8. [q \in Requests |-> req[q].in]' = [[q \in Requests |-> req[q].in] EXCEPT ![p] = in]
    BY <1>3, <1>4 DEF Same
<1>9. Promise!Ask(p)
    BY <1>3, <1>4, <1>5, <1>7, <1>8 DEF Promise!Ask
<1> QED
    BY <1>9 DEF Promise!Next

(* The client reads that the server broke.                                 *)
LEMMA PanicRefines ==
    ASSUME ApiInv, [Next]_vars, NEW p \in Requests, Panic(p)
    PROVE  Promise!Next
<1>1. TypeInv /\ AskedInv /\ req[p] \in Local
    BY DEF ApiInv, TypeInv
<1>2. /\ pc[p] \in {"arrived", "check", "store", "respond", "encode"}
      /\ UNCHANGED <<users, heap, nextID>>
      /\ req' = [req EXCEPT ![p].status = IF @ = None THEN StatusOf["internal"] ELSE @,
                            ![p].body = Broken]
    BY DEF Panic, Panicking
<1>3. /\ In(p)' = In(p) /\ In(p) # None
      /\ \A q \in Requests : q # p => Same(q)
    BY <1>1, <1>2, StepEffect, InputTyped DEF AskedInv
<1>4. Answer(p) = None /\ req[p].status # 204
    BY <1>2, NotYetTold
<1>5. /\ req'[p].out = req[p].out /\ req'[p].body = Broken
      /\ req'[p].status = IF req[p].status = None THEN 500 ELSE req[p].status
    BY <1>1, <1>2 DEF TypeInv, Local, StatusOf
<1>6. Broken # None
    BY NoneAssumption DEF Broken, ErrorBody, Traces
<1>7. Answer(p)' = [verdict |-> "broken", id |-> None, email |-> None]
    BY <1>4, <1>5, <1>6 DEF Answer
<1>8. [q \in Requests |-> Answer(q)]' = [[q \in Requests |-> Answer(q)] EXCEPT
                                            ![p] = [verdict |-> "broken", id |-> None, email |-> None]]
    <2>1. \A q \in Requests : q # p => Answer(q)' = Answer(q)
        BY <1>3 DEF Answer, Same, In
    <2> QED
        BY <1>7, <2>1
<1>9. \A q \in Requests : Decision(q)' = Decision(q) /\ req'[q].in = req[q].in
    BY <1>3, <1>5, DecisionKept DEF Same, In
<1>10. /\ [i \in DOMAIN users |-> heap[users[i]].email]'
             = [i \in DOMAIN users |-> heap[users[i]].email]
       /\ [q \in Requests |-> req[q].in]' = [q \in Requests |-> req[q].in]
       /\ [q \in Requests |-> Decision(q)]' = [q \in Requests |-> Decision(q)]
    BY <1>2, <1>9, EmailsKept
<1>11. [q \in Requests |-> req[q].in][p] # None /\ [q \in Requests |-> Answer(q)][p] = None
    BY <1>3, <1>4 DEF In
<1>12. Promise!Break(p)
    BY <1>2, <1>8, <1>10, <1>11 DEF Promise!Break
<1> QED
    BY <1>12 DEF Promise!Next

(* The answer, once the client has it whole, is what was decided.          *)
LEMMA TellRefines ==
    ASSUME ApiInv, [Next]_vars, NEW p \in Requests, Step(p), pc[p] \in {"respond", "encode"},
           UNCHANGED <<users, nextID>>, req'[p].out = req[p].out,
           Answer(p)' = Decision(p)
    PROVE  Promise!Next
<1>1. TypeInv /\ AskedInv /\ OutInv /\ In(p)' = In(p) /\ \A q \in Requests : q # p => Same(q)
    <2>1. TypeInv /\ AskedInv /\ OutInv
        BY DEF ApiInv
    <2> QED
        BY <2>1, StepEffect
<1>2. req[p].out # None /\ Answer(p) = None
    <2>1. Answer(p) = None
        BY NotYetTold
    <2>2. pc[p] \in {"respond", "encode"} => req[p].out # None
        BY DEF ApiInv, ReplyInv, Decides
    <2> QED
        BY <2>1, <2>2
<1>3. Decision(p) # None
    <2>1. Decision(p) \in Decided
        <3>1. req[p].out \in Out
            BY <1>1, <1>2 DEF TypeInv, Local
        <3>2. CASE req[p].out.verdict # "ok"
            BY <1>2, <3>1, <3>2 DEF Decision, Decided, Out
        <3>3. CASE req[p].out.verdict = "ok" /\ req[p].out.user = None
            <4>1. In(p).call = "delete"
                BY <1>1, <1>2, <3>3 DEF OutInv
            <4>2. In(p).id \in Nat
                BY <1>1, <4>1, InputTyped DEF AskedInv
            <4> QED
                BY <1>2, <3>3, <4>2 DEF Decision, Decided, Verdicts
        <3>4. CASE req[p].out.verdict = "ok" /\ req[p].out.user # None
            <4>1. heap[req[p].out.user] \in User
                BY <1>1, <1>2, <3>4 DEF OutInv, TypeInv
            <4> QED
                BY <1>2, <3>4, <4>1 DEF Decision, Decided, User, Verdicts
        <3> QED
            BY <3>2, <3>3, <3>4
    <2> QED
        BY <2>1, NoneAssumption
<1>4. \A q \in Requests : Decision(q)' = Decision(q) /\ req'[q].in = req[q].in
    BY <1>1, DecisionKept DEF Same, In
<1>5. [q \in Requests |-> Answer(q)]' = [[q \in Requests |-> Answer(q)] EXCEPT ![p] = Decision(p)]
    <2>1. \A q \in Requests : q # p => Answer(q)' = Answer(q)
        BY <1>1 DEF Answer, Same, In
    <2> QED
        BY <2>1
<1>6. Promise!Tell(p)
    BY <1>2, <1>3, <1>4, <1>5, EmailsKept DEF Promise!Tell
<1> QED
    BY <1>6 DEF Promise!Next

LEMMA RespondRefines ==
    ASSUME ApiInv, [Next]_vars, NEW p \in Requests, Respond(p)
    PROVE  Promise!Next \/ UNCHANGED Promise!vars
<1>1. TypeInv /\ OutInv /\ Step(p) /\ req[p] \in Local
    BY DEF ApiInv, Step, TypeInv
<1>2. /\ pc[p] = "respond" /\ UNCHANGED <<users, nextID>>
      /\ req' = [req EXCEPT ![p].status = Status(p)]
    BY DEF Respond
<1>3. req[p].out # None /\ req[p].body = None
    BY <1>2 DEF ApiInv, ReplyInv
<1>4. /\ req'[p].out = req[p].out /\ req'[p].status = Status(p) /\ req'[p].body = None
      /\ In(p)' = In(p) /\ \A q \in Requests : q # p => Same(q)
    BY <1>1, <1>2, <1>3, StepEffect DEF TypeInv, Local
<1>5. CASE Status(p) = 204
    <2>1. req[p].out.verdict = "ok" /\ In(p).call = "delete"
        BY <1>1, <1>3, <1>5, StatusTells
    <2>2. req[p].out.user = None
        BY <1>1, <1>3, <2>1 DEF OutInv
    <2>3. Answer(p)' = Decision(p)
        BY <1>3, <1>4, <1>5, <2>1, <2>2 DEF Answer, Decision
    <2> QED
        BY <1>1, <1>2, <1>4, <2>3, TellRefines
<1>6. CASE Status(p) # 204
    <2>1. Answer(p)' = None /\ Answer(p) = None
        BY <1>2, <1>4, <1>6, NotYetTold DEF Answer
    <2>2. \A q \in Requests : q # p => Answer(q)' = Answer(q)
        BY <1>4 DEF Answer, Same, In
    <2>3. \A q \in Requests : In(q)' = In(q) /\ req'[q].out = req[q].out
        BY <1>4 DEF Same, In
    <2> QED
        BY <1>2, <2>1, <2>2, <2>3, Stutter
<1> QED
    BY <1>5, <1>6

LEMMA EncodeRefines ==
    ASSUME ApiInv, [Next]_vars, NEW p \in Requests, Encode(p)
    PROVE  Promise!Next
<1> DEFINE b == Body(req[p].out)
<1>1. TypeInv /\ OutInv /\ Step(p) /\ req[p] \in Local
    BY DEF ApiInv, Step, TypeInv
<1>2. /\ pc[p] = "encode" /\ UNCHANGED <<users, heap, nextID>>
      /\ req' = [req EXCEPT ![p].body = b]
    BY DEF Encode
<1>3. req[p].out # None /\ req[p].status = Status(p) /\ Status(p) # 204
    <2>1. Decides(p) /\ req[p].status # 204
        BY <1>2 DEF ApiInv, ReplyInv
    <2> QED
        BY <2>1 DEF Decides
<1>4. /\ req'[p].out = req[p].out /\ req'[p].status = Status(p) /\ req'[p].body = b
      /\ In(p)' = In(p)
    BY <1>1, <1>2, <1>3, StepEffect DEF TypeInv, Local
<1>5. /\ req[p].out \in Out
      /\ Status(p) \in Nat
      /\ Status(p) >= 400 <=> req[p].out.verdict # "ok"
      /\ req[p].out.verdict = "ok" => req[p].out.user # None /\ req[p].out.user \in DOMAIN heap
    BY <1>1, <1>3, StatusTells
<1>6. Answer(p)' = Decision(p)
    <2>1. CASE req[p].out.verdict = "ok"
        <3>1. b = heap[req[p].out.user] /\ b \in User
            BY <1>1, <1>5, <2>1 DEF Body, TypeInv
        <3>2. b # None /\ b # Broken
            <4>1. DOMAIN b = {"id", "email"} /\ DOMAIN Broken = {"kind", "text", "trace"}
                BY <3>1 DEF User, Broken
            <4> QED
                BY <3>1, <4>1, NoneAssumption
        <3> HIDE DEF b
        <3> QED
            BY <1>3, <1>4, <1>5, <2>1, <3>1, <3>2 DEF Answer, Decision
    <2>2. CASE req[p].out.verdict # "ok"
        <3>1. b.kind = req[p].out.verdict /\ b \in ErrorBody
            BY <1>1, <1>5, <2>2, BodyTyped DEF Body, ErrorBody, Out, Traces
        <3>2. b # None /\ b # Broken
            <4>1. req[p].out.verdict # "broken"
                BY <1>5 DEF Out, Verdicts, StatusOf
            <4> QED
                BY <3>1, <4>1, NoneAssumption DEF Broken
        <3> HIDE DEF b
        <3> QED
            BY <1>3, <1>4, <1>5, <2>2, <3>1, <3>2 DEF Answer, Decision
    <2> QED
        BY <2>1, <2>2
<1> QED
    BY <1>1, <1>2, <1>4, <1>6, TellRefines

LEMMA StepRefines ==
    ASSUME ApiInv, [Next]_vars
    PROVE  Promise!Next \/ UNCHANGED Promise!vars
<1>1. ASSUME UNCHANGED <<users, nextID, req>>
      PROVE  UNCHANGED Promise!vars
    <2>1. \A q \in Requests : Answer(q)' = Answer(q) /\ In(q)' = In(q)
        BY <1>1 DEF Answer, In
    <2> QED
        BY <1>1, <2>1, Stutter
<1>2. CASE UNCHANGED vars \/ Interrupt \/ Shutdown \/ Timeout
    BY <1>1, <1>2 DEF vars, Interrupt, Shutdown, Timeout
<1>3. ASSUME NEW p \in Requests, Step(p)
      PROVE  Promise!Next \/ UNCHANGED Promise!vars
    <2>1. CASE Handle(p)
        BY <1>1, <2>1, HandleRefines DEF Handle
    <2>2. CASE Lock(p)
        BY <1>1, <2>2 DEF Lock
    <2>3. CASE Log(p)
        <3>1. TypeInv /\ req[p] \in Local
            BY DEF ApiInv, TypeInv
        <3>2. /\ In(p)' = In(p) /\ req'[p].out = req[p].out
              /\ req'[p].status = req[p].status /\ req'[p].body = req[p].body
              /\ \A q \in Requests : q # p => Same(q)
            BY <1>3, <2>3, <3>1, StepEffect DEF Log, TypeInv, Local
        <3>3. Answer(p)' = Answer(p)
            BY <3>2 DEF Answer
        <3>4. \A q \in Requests : q # p => Answer(q)' = Answer(q)
            BY <3>2 DEF Answer, Same, In
        <3>5. \A q \in Requests : In(q)' = In(q) /\ req'[q].out = req[q].out
            BY <3>2 DEF Same, In
        <3> QED
            BY <2>3, <3>3, <3>4, <3>5, Stutter DEF Log
    <2> QED
        BY <1>3, <2>1, <2>2, <2>3, CheckRefines, FindRefines, CreateRefines, UpdateRefines,
           DeleteRefines, RespondRefines, EncodeRefines DEF Step
<1> QED
    BY <1>2, <1>3, ArriveRefines, PanicRefines DEF Next, Serve

LEMMA InitRefines == Init => Promise!Init
<1> SUFFICES ASSUME Init PROVE Promise!Init
    OBVIOUS
<1>1. \A p \in Requests : Answer(p) = None /\ Decision(p) = None /\ req[p].in = None
    BY NoneAssumption DEF Init, Fresh, Answer, Decision
<1>2. 1..(nextID - 1) = DOMAIN Seed
    BY SeedAssumption, FS_CardinalityType DEF Init
<1>3. [i \in DOMAIN users |-> heap[users[i]].email] = Seed
    BY SeedAssumption DEF Init
<1> QED
    BY <1>1, <1>2, <1>3 DEF Promise!Init

(* The HTTP example keeps UserService's promise: each request is decided   *)
(* once, at one moment and against the users of that moment, and what its  *)
(* client reads is that decision (handler.go:28-182, service.go:34-117,     *)
(* repository.go:48-141).                                                  *)
THEOREM UserServiceImplemented == Spec => ImplementsUserService
<1>1. Init => Promise!Init
    BY InitRefines
<1>2. ApiInv /\ [Next]_vars => [Promise!Next]_(Promise!vars)
    BY StepRefines
<1> QED
    BY <1>1, <1>2, ApiInvariant, PTL DEF Spec, ImplementsUserService, Promise!Spec
=============================================================================
