----------------------------- MODULE MC_Cluster -----------------------------
(* A two-node cluster seen from node a: k1 is owned by a, k2 by b, so DEL  *)
(* k1 k2 fans out to the local executor and to peer b.  Two handlers run   *)
(* at once; a pool of one connection makes the full-pool branch of release *)
(* happen when both forward to b.                                          *)
EXTENDS Cluster

CONSTANTS a, b, k1, k2, c1, c2

NodesAB == {a, b}
KeysTwo == {k1, k2}
OwnerAB == (k1 :> a) @@ (k2 :> b)
ClientsTwo == {c1, c2}

DelBoth == [op |-> "DEL", keys |-> {k1, k2}]
SetRemote == [op |-> "SET", keys |-> {k2}]

SetLocal == [op |-> "SET", keys |-> {k1}]

\* c1 deletes both keys while c2 sets b's key again, or a's key, whose
\* request then competes with c1's group for the one slot of db.ops.
DelWhileSet == {(c1 :> DelBoth) @@ (c2 :> SetRemote),
                (c1 :> DelBoth) @@ (c2 :> SetLocal)}
=============================================================================
