------------------------------ MODULE HttpApi ------------------------------
(***************************************************************************)
(* The HTTP example: concurrent requests through Recovery, Logging and     *)
(* Tracing to the handler, the service and the in-memory repository behind *)
(* its RWMutex, with panics in any of them and a shutdown at any moment.   *)
(* Users are objects shared by pointer: the map holds addresses, and what  *)
(* an operation returns is encoded after the lock is released.             *)
(***************************************************************************)
EXTENDS Naturals, FiniteSets, Functions

CONSTANTS
    Requests,       \* one of each is served at most once
    Inputs,         \* of each, [call, id, email, caller, body, header]
    Seed,           \* the users of NewInMemory: their emails by id
    GeneratedIds,   \* the readings of the clock generateRequestID may format
    Failing,        \* the repository's switch that simulates a database down
    MaxPanics,      \* bound: requests that panic
    None

Calls == {"get", "create", "update", "delete", "other"}

AllInputs == UNION {Inputs[p] : p \in Requests}

(* Addresses: a seed user's is its id, and a request allocates one at most. *)
Address == DOMAIN Seed \cup Requests
NoId == 0

Emails == Range(Seed) \cup {in.email : in \in AllInputs}
Traces == GeneratedIds \cup {in.header : in \in AllInputs} \cup {None}

User == [id : Nat, email : Emails]

ASSUME SeedAssumption ==
    /\ Seed \in [DOMAIN Seed -> Range(Seed)]
    /\ IsFiniteSet(DOMAIN Seed)
    /\ DOMAIN Seed = 1..Cardinality(DOMAIN Seed)
    /\ IsInjective(Seed)

ASSUME RequestsAssumption ==
    /\ IsFiniteSet(Requests)
    /\ \A p \in Requests : p \notin Nat

ASSUME InputsAssumption ==
    \A in \in AllInputs :
        /\ in.call \in Calls
        /\ in.call = "create" => in.id = None
        /\ in.call \in {"get", "update", "delete"} => in.id \in Nat

ASSUME MaxPanicsAssumption == MaxPanics \in Nat

VARIABLES
    users,          \* the repository's map: the address of each id's user
    heap,           \* the user objects: [id, email] by address
    nextID,
    mutex,          \* [readers, writer]: the requests that hold it
    req,            \* per request, the locals of its handlers
    pc,
    server,         \* running, draining (Shutdown waits), stopped, forced
    panics

vars == <<users, heap, nextID, mutex, req, pc, server, panics>>

Fresh == [in |-> None, trace |-> None, out |-> None, status |-> None,
          body |-> None, log |-> None]

Init ==
    /\ users = [i \in DOMAIN Seed |-> i]
    /\ heap = [i \in DOMAIN Seed |-> [id |-> i, email |-> Seed[i]]]
    /\ nextID = Cardinality(DOMAIN Seed) + 1
    /\ mutex = [readers |-> {}, writer |-> {}]
    /\ req = [p \in Requests |-> Fresh]
    /\ pc = [p \in Requests |-> "idle"]
    /\ server = "running"
    /\ panics = 0

----------------------------------------------------------------------------
(* The domain errors: status, and whether their text may be shown.         *)

StatusOf ==
    [not_found |-> 404, validation |-> 400, unauthorized |-> 401, forbidden |-> 403,
     conflict |-> 409, rate_limited |-> 429, database |-> 500, internal |-> 500]

Public == {"not_found", "validation", "unauthorized", "conflict"}

Verdicts == DOMAIN StatusOf \cup {"ok", "method_not_allowed"}

(* What a service returns to its handler, the bodies of errors, a line of  *)
(* the log, and what is decided of a request: None is none of them.        *)
Out == [verdict : Verdicts, user : Address \cup {None}, trace : Traces]
ErrorBody == [kind : Verdicts \cup {"broken"}, text : Verdicts \cup {"generic"}, trace : Traces]
LogLine == [status : Nat, requestID : {None}]
Decided == [verdict : Verdicts \cup {"broken"}, id : Nat \cup {None}, email : Emails \cup {None}]

ASSUME NoneAssumption ==
    /\ None \notin Nat /\ None \notin Address /\ None \notin AllInputs
    /\ None \notin User /\ None \notin Out /\ None \notin ErrorBody
    /\ None \notin LogLine /\ None \notin Decided

(* An error made With(ctx) carries the trace id of the context's options.  *)
Error(p, kind) == [verdict |-> kind, user |-> None, trace |-> req[p].trace]
Done(p, a) == [verdict |-> "ok", user |-> a, trace |-> None]

In(p) == req[p].in
Put(f, k, v) == [x \in DOMAIN f \cup {k} |-> IF x = k THEN v ELSE f[x]]
Writes == {"create", "update", "delete"}

----------------------------------------------------------------------------
(* Before the repository                                                   *)

(* Tracing: the client's request id, or one the clock gives.               *)
Arrive(p) ==
    /\ pc[p] = "idle" /\ server = "running"
    /\ \E in \in Inputs[p] : \E g \in GeneratedIds :
         req' = [req EXCEPT ![p].in = in,
                            ![p].trace = IF in.header = None THEN g ELSE in.header]
    /\ pc' = [pc EXCEPT ![p] = "arrived"]
    /\ UNCHANGED <<users, heap, nextID, mutex, server, panics>>

Routed(in) == in.call # "other"
Authenticated(in) == in.call \in {"update", "delete"} => in.caller # None
Decodes(in) == in.call \in {"create", "update"} => in.body # "broken"
validateUserInput(in) == in.call \in {"create", "update"} => in.body = "good"
Owner(in) == in.call \in {"update", "delete"} => in.caller = in.id

(* The checks of handler and service, in their order: the caller is asked  *)
(* for before the body is read, and compared after it.                     *)
Refusal(in) ==
    CASE ~ Routed(in) -> "method_not_allowed"
      [] Routed(in) /\ ~ Authenticated(in) -> "unauthorized"
      [] Authenticated(in) /\ ~ (Decodes(in) /\ validateUserInput(in)) -> "validation"
      [] Authenticated(in) /\ Decodes(in) /\ validateUserInput(in) /\ ~ Owner(in) -> "forbidden"
      [] OTHER -> "ok"

(* CreateUser and UpdateUser allocate the user they hand to the repository. *)
Allocated(p) ==
    CASE In(p).call = "create" -> Put(heap, p, [id |-> NoId, email |-> In(p).email])
      [] In(p).call = "update" -> Put(heap, p, [id |-> In(p).id, email |-> In(p).email])
      [] OTHER -> heap

Handle(p) ==
    /\ pc[p] = "arrived"
    /\ IF Refusal(In(p)) = "ok"
         THEN /\ heap' = Allocated(p)
              /\ pc' = [pc EXCEPT ![p] = "lock"]
              /\ UNCHANGED req
         ELSE /\ req' = [req EXCEPT ![p].out = Error(p, Refusal(In(p)))]
              /\ pc' = [pc EXCEPT ![p] = "respond"]
              /\ UNCHANGED heap
    /\ UNCHANGED <<users, nextID, mutex, server, panics>>

----------------------------------------------------------------------------
(* The repository, behind its lock                                         *)

(* Create takes the read lock.                                             *)
ExclusiveButCreate(p) == In(p).call \in Writes \ {"create"}

Exclusive(p) == In(p).call \in Writes

Released(p) == [readers |-> mutex.readers \ {p}, writer |-> mutex.writer \ {p}]

Lock(p) ==
    /\ pc[p] = "lock"
    /\ mutex.writer = {}
    /\ Exclusive(p) => mutex.readers = {}
    /\ mutex' = IF Exclusive(p) THEN [mutex EXCEPT !.writer = {p}]
                               ELSE [mutex EXCEPT !.readers = @ \cup {p}]
    /\ pc' = [pc EXCEPT ![p] = "check"]
    /\ UNCHANGED <<users, heap, nextID, req, server, panics>>

(* The repository's errors a service passes on; any other it wraps.        *)
PassedOn ==
    [get |-> {"not_found"}, create |-> {"conflict"},
     update |-> {"not_found", "conflict"}, delete |-> {"not_found"}]

Returned(p, kind) ==
    Error(p, IF kind \in PassedOn[In(p).call] THEN kind ELSE "database")

(* Return from the repository, which releases the lock.                    *)
Return(p, out) ==
    /\ req' = [req EXCEPT ![p].out = out]
    /\ mutex' = Released(p)
    /\ pc' = [pc EXCEPT ![p] = "respond"]

Missing(p) == In(p).id \notin DOMAIN users
Taken(p) ==
    \E i \in DOMAIN users : i # heap[p].id /\ heap[users[i]].email = heap[p].email

FindByID(p) ==
    /\ pc[p] = "check" /\ In(p).call = "get"
    /\ Return(p, IF Failing THEN Returned(p, "database")
                 ELSE IF Missing(p) THEN Returned(p, "not_found")
                 ELSE Done(p, users[In(p).id]))
    /\ UNCHANGED <<users, heap, nextID, server, panics>>

(* The checks of a write: an error returns, otherwise the write is next.   *)
Checked(p, call, verdict) ==
    /\ pc[p] = "check" /\ In(p).call = call
    /\ IF verdict = "ok"
         THEN pc' = [pc EXCEPT ![p] = "store"] /\ UNCHANGED <<req, mutex>>
         ELSE Return(p, Returned(p, verdict))
    /\ UNCHANGED <<users, heap, nextID, server, panics>>

CheckCreate(p) ==
    Checked(p, "create", IF Failing THEN "database"
                         ELSE IF Taken(p) THEN "conflict" ELSE "ok")

(* It is not asked whether the user is still there.                        *)
CheckUpdateBlindly(p) ==
    Checked(p, "update", IF Failing THEN "database"
                         ELSE IF Taken(p) THEN "conflict" ELSE "ok")

CheckUpdate(p) ==
    Checked(p, "update", IF Failing THEN "database"
                         ELSE IF Missing(p) THEN "not_found"
                         ELSE IF Taken(p) THEN "conflict" ELSE "ok")

CheckDelete(p) ==
    Checked(p, "delete", IF Failing THEN "database"
                         ELSE IF Missing(p) THEN "not_found" ELSE "ok")

Storing(p, call) == pc[p] = "store" /\ In(p).call = call

(* The next id is the number of users there are.                           *)
CreateById(p) ==
    LET id == Cardinality(DOMAIN users) + 1 IN
    /\ Storing(p, "create")
    /\ nextID' = id + 1
    /\ heap' = [heap EXCEPT ![p].id = id]
    /\ users' = Put(users, id, p)
    /\ Return(p, Done(p, p))
    /\ UNCHANGED <<server, panics>>

(* The stored user is not given its id.                                    *)
CreateNameless(p) ==
    /\ Storing(p, "create")
    /\ nextID' = nextID + 1
    /\ users' = Put(users, nextID, p)
    /\ Return(p, Done(p, p))
    /\ UNCHANGED <<heap, server, panics>>

Create(p) ==
    /\ Storing(p, "create")
    /\ nextID' = nextID + 1
    /\ heap' = [heap EXCEPT ![p].id = nextID]
    /\ users' = Put(users, nextID, p)
    /\ Return(p, Done(p, p))
    /\ UNCHANGED <<server, panics>>

(* The stored user is overwritten where it is.                             *)
UpdateInPlace(p) ==
    /\ Storing(p, "update")
    /\ heap' = [heap EXCEPT ![users[In(p).id]] = heap[p]]
    /\ Return(p, Done(p, p))
    /\ UNCHANGED <<users, nextID, server, panics>>

Update(p) ==
    /\ Storing(p, "update")
    /\ users' = Put(users, In(p).id, p)
    /\ Return(p, Done(p, p))
    /\ UNCHANGED <<heap, nextID, server, panics>>

Delete(p) ==
    /\ Storing(p, "delete")
    /\ users' = Restrict(users, DOMAIN users \ {In(p).id})
    /\ Return(p, Done(p, None))
    /\ UNCHANGED <<heap, nextID, server, panics>>

----------------------------------------------------------------------------
(* The answer and the log                                                  *)

Status(p) ==
    LET v == req[p].out.verdict IN
    IF v = "ok" THEN [get |-> 200, create |-> 201, update |-> 200, delete |-> 204][In(p).call]
    ELSE IF v = "method_not_allowed" THEN 405
    ELSE StatusOf[v]

(* writeJSON, writeError, or WriteHeader alone for 204.                    *)
Respond(p) ==
    /\ pc[p] = "respond"
    /\ req' = [req EXCEPT ![p].status = Status(p)]
    /\ pc' = [pc EXCEPT ![p] = IF Status(p) = 204 THEN "log" ELSE "encode"]
    /\ UNCHANGED <<users, heap, nextID, mutex, server, panics>>

(* A user as its object now is; of an error its kind, the trace id it      *)
(* carries, and its own text if it is public; http.Error's is plain.       *)
Body(out) ==
    IF out.verdict = "ok" THEN heap[out.user]
    ELSE IF out.verdict = "method_not_allowed"
    THEN [kind |-> out.verdict, text |-> out.verdict, trace |-> None]
    ELSE [kind |-> out.verdict, trace |-> out.trace,
          text |-> IF out.verdict \in Public THEN out.verdict ELSE "generic"]

Encode(p) ==
    /\ pc[p] = "encode"
    /\ req' = [req EXCEPT ![p].body = Body(req[p].out)]
    /\ pc' = [pc EXCEPT ![p] = "log"]
    /\ UNCHANGED <<users, heap, nextID, mutex, server, panics>>

(* Logging wraps Tracing, so its own context has no request id to log.     *)
Log(p) ==
    /\ pc[p] = "log"
    /\ req' = [req EXCEPT ![p].log = [status |-> req[p].status, requestID |-> None]]
    /\ pc' = [pc EXCEPT ![p] = "done"]
    /\ UNCHANGED <<users, heap, nextID, mutex, server, panics>>

Broken == [kind |-> "broken", text |-> "generic", trace |-> None]

(* A panic unwinds past Logging to Recovery: a status already written      *)
(* stands, and the text of an internal error follows it.                   *)
Panicking(p) ==
    /\ panics < MaxPanics
    /\ pc[p] \in {"arrived", "check", "store", "respond", "encode"}
    /\ panics' = panics + 1
    /\ req' = [req EXCEPT ![p].status = IF @ = None THEN StatusOf["internal"] ELSE @,
                          ![p].body = Broken]
    /\ pc' = [pc EXCEPT ![p] = "done"]
    /\ UNCHANGED <<users, heap, nextID, server>>

(* The lock is released by a last statement, not a deferred one.           *)
PanicHoldingLock(p) == Panicking(p) /\ UNCHANGED mutex

Panic(p) == Panicking(p) /\ mutex' = Released(p)

----------------------------------------------------------------------------
(* The server                                                              *)

InFlight == {p \in Requests : pc[p] \notin {"idle", "done"}}

Interrupt ==
    /\ server = "running"
    /\ server' = "draining"
    /\ UNCHANGED <<users, heap, nextID, mutex, req, pc, panics>>

(* Shutdown returns when no request is left, or at its timeout; main then  *)
(* ends the program, by Fatalf in the second case.                         *)
Shutdown ==
    /\ server = "draining" /\ InFlight = {}
    /\ server' = "stopped"
    /\ UNCHANGED <<users, heap, nextID, mutex, req, pc, panics>>

Timeout ==
    /\ server = "draining" /\ InFlight # {}
    /\ server' = "forced"
    /\ UNCHANGED <<users, heap, nextID, mutex, req, pc, panics>>

Step(p) ==
    \/ Handle(p) \/ Lock(p) \/ FindByID(p)
    \/ CheckCreate(p) \/ CheckUpdate(p) \/ CheckDelete(p)
    \/ Create(p) \/ Update(p) \/ Delete(p)
    \/ Respond(p) \/ Encode(p) \/ Log(p)

Serve(p) == server \in {"running", "draining"} /\ Step(p)

Next ==
    \/ \E p \in Requests : Arrive(p) \/ Serve(p)
    \/ server \in {"running", "draining"} /\ \E p \in Requests : Panic(p)
    \/ Interrupt \/ Shutdown \/ Timeout

(* Every goroutine that can go on does, whoever holds the lock lets it go, *)
(* and Shutdown polls until the server is idle.                            *)
Fairness ==
    /\ \A p \in Requests : WF_vars(Serve(p))
    /\ WF_vars(Shutdown)

Spec == Init /\ [][Next]_vars
FairSpec == Spec /\ Fairness

----------------------------------------------------------------------------
(* Type and lock                                                           *)

PCs == {"idle", "arrived", "lock", "check", "store", "respond", "encode", "log", "done"}

(* The map's keys are ids given before and the ids of the users under      *)
(* them; the lock is held by one writer or by readers, and by no request   *)
(* that is not in the repository.                                          *)
ApiTypeOK ==
    /\ DOMAIN users \subseteq 1..(nextID - 1)
    /\ \A i \in DOMAIN users : users[i] \in DOMAIN heap /\ heap[users[i]].id = i
    /\ Cardinality(mutex.writer) <= 1
    /\ mutex.writer = {} \/ mutex.readers = {}
    /\ mutex.readers \cup mutex.writer = {p \in Requests : pc[p] \in {"check", "store"}}
    /\ pc \in [Requests -> PCs]
    /\ server \in {"running", "draining", "stopped", "forced"}
    /\ panics \in 0..MaxPanics

----------------------------------------------------------------------------
(* Safety                                                                  *)

(* No two users have one email, whatever creations and updates interleave: *)
(* what a check found is still so when its write is made.                  *)
EmailsUnique ==
    \A i, j \in DOMAIN users :
        heap[users[i]].email = heap[users[j]].email => i = j

(* A user that is in the map, or that a request took from it and may be    *)
(* encoding without the lock, is not written to: updates replace it.       *)
Shared == Range(users) \cup ({req[p].out.user : p \in {q \in Requests : req[q].out # None}} \ {None})

SharedUsersUnchanged == [][\A a \in Shared : heap'[a] = heap[a]]_vars

(* A request whose write was made, and what became of it since: a deleted  *)
(* user has not come back, and one that was created or updated is there as *)
(* it was written, or another request has updated or deleted it.           *)
Wrote(p) ==
    req[p].out # None /\ req[p].out.verdict = "ok" /\ In(p).call \in Writes

WroteTo(q, call, id) == Wrote(q) /\ In(q).call = call /\ In(q).id = id

Lasts(p) ==
    IF In(p).call = "delete" THEN In(p).id \notin DOMAIN users
    ELSE LET id == heap[p].id IN
         IF id \in DOMAIN users
         THEN users[id] = p \/ \E q \in Requests : users[id] = q /\ WroteTo(q, "update", id)
         ELSE \E q \in Requests : WroteTo(q, "delete", id)

(* The status alone tells what became of a write, also if its handler      *)
(* panicked after the status and the body is lost: below 400 the write was *)
(* made and is not undone or lost between the checks and writes of others, *)
(* from 400 to 499 nothing of it is ever seen.  After 500 it may have been *)
(* made (service.go:47-117, repository.go:81-141, middleware.go:65-80).    *)
EffectAsTold ==
    \A p \in Requests : In(p) # None /\ In(p).call \in Writes /\ req[p].status # None =>
        /\ req[p].status < 400 => Wrote(p) /\ Lasts(p)
        /\ req[p].status \in 400..499 => ~ Wrote(p) /\ p \notin Range(users)

----------------------------------------------------------------------------
(* Liveness                                                                *)

(* Every request that arrived is answered and over in the end, unless the  *)
(* shutdown runs out of time: a panic in the repository holds up no other, *)
(* and a graceful stop leaves none behind.                                 *)
EveryRequestAnswered ==
    \A p \in Requests :
        pc[p] = "arrived" ~> (pc[p] = "done" /\ req[p].status # None) \/ server = "forced"

----------------------------------------------------------------------------
(* What users are promised                                                 *)

Decision(p) ==
    LET out == req[p].out IN
    IF out = None THEN None
    ELSE IF out.verdict # "ok" THEN [verdict |-> out.verdict, id |-> None, email |-> None]
    ELSE IF out.user = None THEN [verdict |-> "ok", id |-> In(p).id, email |-> None]
    ELSE [verdict |-> "ok", id |-> heap[out.user].id, email |-> heap[out.user].email]

(* What the client reads: 204 needs no body, any other answer is complete  *)
(* with one.                                                               *)
Answer(p) ==
    LET b == req[p].body IN
    IF req[p].status = 204 THEN [verdict |-> "ok", id |-> In(p).id, email |-> None]
    ELSE IF b = None THEN None
    ELSE IF b = Broken THEN [verdict |-> "broken", id |-> None, email |-> None]
    ELSE IF req[p].status >= 400 THEN [verdict |-> b.kind, id |-> None, email |-> None]
    ELSE [verdict |-> "ok", id |-> b.id, email |-> b.email]

Promise ==
    INSTANCE UserService WITH
        Ids <- 1..(Cardinality(DOMAIN Seed) + Cardinality(Requests)),
        emailOf <- [i \in DOMAIN users |-> heap[users[i]].email],
        given <- 1..(nextID - 1),
        asked <- [p \in Requests |-> req[p].in],
        decided <- [p \in Requests |-> Decision(p)],
        told <- [p \in Requests |-> Answer(p)]

(* The repository, its lock and the handlers keep UserService's promise:   *)
(* one decision at one moment, true of the users of that moment, and the   *)
(* answer tells it.                                                        *)
ImplementsUserService == Promise!Spec
=============================================================================
