-------------------------------- MODULE Ring --------------------------------
(***************************************************************************)
(* The consistent hash ring of the cluster (src/unnamed/part_004): NewRing *)
(* and NodeForKey as pure operators, and the owner the specification      *)
(* defines: "the node whose first virtual position >= hash(key)           *)
(* (wrapping)".                                                           *)
(*                                                                         *)
(* CRC32 is abstracted to an arbitrary function from virtual nodes          *)
(* <<node, i>> into the small range 0..HashRange-1.  The checking model    *)
(* enumerates every such function, so equal positions (two virtual nodes  *)
(* on one point), a key hash equal to a position and a key hash above all *)
(* positions (the wrap to index 0) all occur.                             *)
(***************************************************************************)
EXTENDS Integers, Sequences, SequencesExt, FiniteSetsExt, TLC

CONSTANTS
    NodeNames,   \* addresses of --nodes
    VNodes,      \* largest --vnodes enumerated
    HashRange    \* CRC32 values are 0..HashRange-1

\* The virtual nodes in the order NewRing visits them: node by node, and
\* i = 0..vnodes-1 within a node.
VNodeOrder(nodes, v) ==
    [j \in 1..Len(nodes) * v |-> <<nodes[(j - 1) \div v + 1], (j - 1) % v>>]

\* NewRing: every virtual node's position is appended to sortedHashes and
\* recorded in hashToNode (a later node overwrites an equal position);
\* sortedHashes is then sorted.
NewRing(nodes, v, hash) ==
    LET vs == VNodeOrder(nodes, v)
    IN [sortedHashes |-> SortSeq([j \in 1..Len(vs) |-> hash[vs[j]]], <),
        hashToNode   |-> FoldLeft(LAMBDA m, p : (hash[p] :> p[1]) @@ m, <<>>, vs)]

\* Mutant: sort.Search looks for the first position strictly above h.
NodeForKeyAfter(ring, h) ==
    IF Len(ring.sortedHashes) = 0 THEN ""
    ELSE LET i == SelectInSeq(ring.sortedHashes, LAMBDA x : x > h)
             idx == IF i = 0 THEN 1 ELSE i
         IN ring.hashToNode[ring.sortedHashes[idx]]

\* NodeForKey: "" on an empty ring; else the first position >= h
\* (sort.Search), wrapping to index 0 when there is none.
NodeForKey(ring, h) ==
    IF Len(ring.sortedHashes) = 0 THEN ""
    ELSE LET i == SelectInSeq(ring.sortedHashes, LAMBDA x : x >= h)
             idx == IF i = 0 THEN 1 ELSE i
         IN ring.hashToNode[ring.sortedHashes[idx]]

\* The reference: the least position >= h, or the least position when none
\* is, and the nodes that have a virtual node there.
OwnersSpec(nodes, v, hash, h) ==
    LET P == {hash[<<n, i>>] : n \in ToSet(nodes), i \in 0..v - 1}
        at == IF \E x \in P : x >= h THEN Min({x \in P : x >= h}) ELSE Min(P)
    IN {n \in ToSet(nodes) : \E i \in 0..v - 1 : hash[<<n, i>>] = at}

VARIABLES
    ringNodes,   \* the --nodes list, in order
    vnodes,      \* --vnodes
    vnodeHash,   \* CRC32 of "<addr>#<i>" for every virtual node
    keyHash      \* CRC32 of the key looked up

ringVars == <<ringNodes, vnodes, vnodeHash, keyHash>>

\* Node lists of distinct addresses, every order.
NodeLists == UNION {SetToSeqs(S) : S \in SUBSET NodeNames}

Init ==
    /\ ringNodes \in NodeLists
    /\ vnodes \in 1..VNodes
    /\ vnodeHash \in [ToSet(ringNodes) \X (0..vnodes - 1) -> 0..HashRange - 1]
    /\ keyHash \in 0..HashRange - 1

\* The inputs are fixed; the behaviour is a single state.
Next == UNCHANGED ringVars

Spec == Init /\ [][Next]_ringVars

\* NodeForKey names a node that has a virtual node at the first position
\* at or after the key's hash, wrapping past the largest position, and ""
\* only for an empty ring, for every node order and every way the
\* positions of NewRing can coincide.
RingOwnerMatchesSpec ==
    LET owner == NodeForKey(NewRing(ringNodes, vnodes, vnodeHash), keyHash)
    IN IF ringNodes = <<>> THEN owner = ""
       ELSE owner \in OwnersSpec(ringNodes, vnodes, vnodeHash, keyHash)

=============================================================================
