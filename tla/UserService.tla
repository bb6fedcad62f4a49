---------------------------- MODULE UserService ----------------------------
(***************************************************************************)
(* What the HTTP example promises of its users.  Each request is decided   *)
(* once, at one moment, against the users of that moment; no two users     *)
(* have one email, an id is given once, only its owner changes or deletes  *)
(* a user, and the answer tells what was decided or that the server broke. *)
(***************************************************************************)
EXTENDS Naturals, Functions

CONSTANTS
    Requests,
    Inputs,         \* what each may ask: [call, id, email, caller, ...]
    Ids,            \* the ids a user may be given
    Seed,           \* the users there are at first: their emails by id
    None

VARIABLES
    emailOf,        \* the email of each user
    given,          \* the ids ever given to a user
    asked,          \* per request, its input, or None
    decided,        \* per request, what was decided, or None
    told            \* per request, what the client was told, or None

vars == <<emailOf, given, asked, decided, told>>

Init ==
    /\ emailOf = Seed
    /\ given = DOMAIN Seed
    /\ asked = [r \in Requests |-> None]
    /\ decided = [r \in Requests |-> None]
    /\ told = [r \in Requests |-> None]

Ask(r) ==
    /\ asked[r] = None
    /\ \E in \in Inputs[r] : asked' = [asked EXCEPT ![r] = in]
    /\ UNCHANGED <<emailOf, given, decided, told>>

Taken(email, but) == \E i \in DOMAIN emailOf \ {but} : emailOf[i] = email

Decide(r, call, verdict, id, email) ==
    /\ asked[r] # None
    /\ asked[r].call = call
    /\ decided[r] = None
    /\ told[r] = None
    /\ decided' = [decided EXCEPT ![r] = [verdict |-> verdict, id |-> id, email |-> email]]
    /\ UNCHANGED <<asked, told>>

Create(r, id) ==
    /\ id \notin given
    /\ Decide(r, "create", "ok", id, asked[r].email)
    /\ ~Taken(asked[r].email, id)
    /\ given' = given \cup {id}
    /\ emailOf' = [i \in DOMAIN emailOf \cup {id} |->
                     IF i = id THEN asked[r].email ELSE emailOf[i]]

Update(r, id) ==
    /\ id \in DOMAIN emailOf
    /\ Decide(r, "update", "ok", id, asked[r].email)
    /\ asked[r].id = id /\ asked[r].caller = id
    /\ ~Taken(asked[r].email, id)
    /\ emailOf' = [emailOf EXCEPT ![id] = asked[r].email]
    /\ UNCHANGED given

Delete(r, id) ==
    /\ id \in DOMAIN emailOf
    /\ Decide(r, "delete", "ok", id, None)
    /\ asked[r].id = id /\ asked[r].caller = id
    /\ emailOf' = Restrict(emailOf, DOMAIN emailOf \ {id})
    /\ UNCHANGED given

Get(r, id) ==
    /\ id \in DOMAIN emailOf
    /\ Decide(r, "get", "ok", id, emailOf[id])
    /\ asked[r].id = id
    /\ UNCHANGED <<emailOf, given>>

(* A refusal gives its reason, and the reason holds as it is given.        *)
Refuse(r, verdict) ==
    /\ Decide(r, asked[r].call, verdict, None, None)
    /\ verdict = "not_found" => asked[r].id \notin DOMAIN emailOf
    /\ verdict = "conflict" => Taken(asked[r].email, asked[r].id)
    /\ verdict = "forbidden" => asked[r].caller # asked[r].id
    /\ verdict = "unauthorized" => asked[r].caller = None
    /\ UNCHANGED <<emailOf, given>>

Refusals == {"not_found", "conflict", "forbidden", "unauthorized", "validation",
             "database", "method_not_allowed"}

(* The answer is what was decided; a server that breaks may say so whether *)
(* or not the request took effect before.                                  *)
Tell(r) ==
    /\ decided[r] # None
    /\ told[r] = None
    /\ told' = [told EXCEPT ![r] = decided[r]]
    /\ UNCHANGED <<emailOf, given, asked, decided>>

Break(r) ==
    /\ asked[r] # None
    /\ told[r] = None
    /\ told' = [told EXCEPT ![r] = [verdict |-> "broken", id |-> None, email |-> None]]
    /\ UNCHANGED <<emailOf, given, asked, decided>>

Next ==
    \E r \in Requests :
        \/ Ask(r) \/ Tell(r) \/ Break(r)
        \/ \E id \in Ids : Create(r, id) \/ Update(r, id) \/ Delete(r, id) \/ Get(r, id)
        \/ asked[r] # None /\ \E v \in Refusals : Refuse(r, v)

Spec == Init /\ [][Next]_vars
=============================================================================
