---------------------------- MODULE MCCauseTree ----------------------------
(* CauseTree on three errors with at most two causes each.                 *)
EXTENDS CauseTree, TLC

CONSTANTS e1, e2, e3

MCAddrs == 0 .. 3

Lists ==
    {<<>>, <<e1>>, <<e2>>, <<e3>>, <<e1, e2>>, <<e2, e1>>, <<e2, e3>>, <<e3, e2>>, <<e1, e3>>,
     <<e3, e1>>, <<e2, e2>>, <<Nil, e3>>}

Tracked == (e1 :> 1) @@ (e2 :> 2) @@ (e3 :> 3)

GraphsWith(addrs, lists, tops) ==
    [addr : addrs, unwrap : [Errors -> lists], top : tops]

(* Every error tracked, or e3 a struct.                                    *)
RegularGraphs ==
    {g \in GraphsWith({Tracked, [Tracked EXCEPT ![e3] = NoAddr]}, Lists,
                      {<<e1>>, <<e1, e2>>, <<e3, Nil, e1>>}) :
        Faithful(g) /\ ValuesAcyclic(g)}
=============================================================================
