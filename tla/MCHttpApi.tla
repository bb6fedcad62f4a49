----------------------------- MODULE MCHttpApi -----------------------------
(***************************************************************************)
(* Two users and a few requests that meet: creations and updates with one  *)
(* email, a user deleted or read while it is updated, and one request of   *)
(* each kind that is refused before the repository.                        *)
(***************************************************************************)
EXTENDS HttpApi, TLC

CONSTANTS p1, p2, p3, alice, bob, carol, h

MCSeed == (1 :> alice) @@ (2 :> bob)

Request(call, id, email, caller, body, header) ==
    [call |-> call, id |-> id, email |-> email, caller |-> caller, body |-> body,
     header |-> header]

Served ==
    {Request("get", 1, None, None, "good", None),
     Request("get", 3, None, None, "good", h),
     Request("create", None, carol, None, "good", None),
     Request("create", None, alice, None, "good", h),
     Request("update", 1, carol, 1, "good", h),
     Request("update", 2, carol, 2, "good", None),
     Request("update", 3, carol, 3, "good", None),
     Request("delete", 1, None, 1, "good", None),
     Request("delete", 3, None, 3, "good", h)}

Refused ==
    {Request("create", None, None, None, "invalid", None),
     Request("update", 2, bob, 1, "good", None),
     Request("update", 1, None, 2, "invalid", h),
     Request("delete", 2, None, None, "good", None),
     Request("create", None, None, None, "broken", h),
     Request("other", None, None, None, "good", None)}

Contending ==
    {Request("get", 2, None, None, "good", h),
     Request("create", None, carol, None, "good", h),
     Request("update", 2, carol, 2, "good", None),
     Request("delete", 2, None, 2, "good", h)}

MCInputs ==
    (p1 :> Served \cup Refused) @@ (p2 :> Contending)
        @@ (p3 :> {Request("update", 1, carol, 1, "good", None)})
=============================================================================
