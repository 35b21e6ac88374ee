--------------------------- MODULE MCSharedLedger ---------------------------
(***************************************************************************)
(* An agent of high trust and a connector for TLC.  The agent says x, then *)
(* y in its place, then x again in the place of y; the connector says y.   *)
(***************************************************************************)
EXTENDS SharedLedger, TLC

CONSTANTS agent, feed, x, y

MCKind == [p \in Principals |-> IF p = agent THEN "agent" ELSE "connector"]
MCTrust == [p \in Principals |-> IF p = agent THEN 85 ELSE 70]
Says(p, n, v, t) == [principal |-> p, nonce |-> n, content |-> v, target |-> t]
MCMessages == {
    Says(agent, 1, x, NoMemory),
    Says(agent, 2, y, <<agent, x>>),
    Says(agent, 3, x, <<agent, y>>),
    Says(feed, 1, y, NoMemory)}

Symmetry == Permutations(Calls)
=============================================================================
