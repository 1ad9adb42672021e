--------------------------- MODULE MC_Algorithms ---------------------------
(* The algorithms of the code checked against their reference             *)
(* definitions in one run: lrange's index clamping (ListRange), the ring   *)
(* lookup (Ring), the RESP codec (Resp) and the LFU cache against the      *)
(* policy it implements (LfuCache), and the TTL heap of the LRU cache    *)
(* (LruExpiry).  A behaviour exercises one of the five; the others keep   *)
(* an empty list, an empty ring, an empty pipeline or a new cache, which  *)
(* are inputs of them too.  Only a behaviour with none of the first three *)
(* runs a cache, and cacheMode picks which, so the state spaces are       *)
(* added, not multiplied.                                                  *)
EXTENDS Naturals, TLC

CONSTANTS Elems, MaxLen, Idx, NodeNames, VNodes, HashRange,
          CacheKeys, ValueLens, KeyLen, MaxBytes, MaxFreq,
          ArgBytesMax, Pipelines,
          ExpKeys, ExpLens, ExpTtls, ExpKeyBytes, ExpMaxBytes, ExpMaxTime

VARIABLES lst, start, stop, ringNodes, vnodes, vnodeHash, keyHash, pipeline,
          lfu, recency, evicted, stuck, cacheMode, lruTtl, clock

inputVars == <<lst, start, stop, ringNodes, vnodes, vnodeHash, keyHash, pipeline>>

lfuVars == <<lfu, recency, evicted, stuck>>

expVars == <<lruTtl, clock>>

vars == <<inputVars, lfuVars, cacheMode, expVars>>

L == INSTANCE ListRange
G == INSTANCE Ring
F == INSTANCE LfuCache
R == INSTANCE Resp
E == INSTANCE LruExpiry

\* The TTL cache's keys are interchangeable model values: its operations
\* compare expiry instants, never keys.
ExpKeySymmetry == Permutations(ExpKeys)

\* One command of up to two arguments, or two of up to one.
PipelineShapes == {<<1, 2>>, <<2, 1>>}

NoList == lst = <<>> /\ start = 0 /\ stop = 0
NoRing == ringNodes = <<>> /\ vnodes = 1 /\ vnodeHash = <<>> /\ keyHash = 0
NoPipeline == pipeline = <<>>
NoInput == NoList /\ NoRing /\ NoPipeline

Init ==
    /\ \/ L!Init /\ NoRing /\ NoPipeline
       \/ NoList /\ G!Init /\ NoPipeline
       \/ NoList /\ NoRing /\ R!Init
    /\ F!Init
    /\ E!Init
    /\ cacheMode \in {"lfu", "ttl"}

\* A cache's operations, in the behaviours with no other input.
LfuStep ==
    /\ NoInput /\ cacheMode = "lfu"
    /\ F!Next
    /\ UNCHANGED <<inputVars, cacheMode, expVars>>

TtlStep ==
    /\ NoInput /\ cacheMode = "ttl"
    /\ E!Next
    /\ UNCHANGED <<inputVars, cacheMode, lfuVars>>

\* A list, ring or pipeline behaviour is a single state; a cache behaviour
\* stops only if an Add spins in its eviction loop, which TLC then reports
\* as a deadlock.
Next == LfuStep \/ TtlStep \/ (~NoInput /\ UNCHANGED vars)

Spec == Init /\ [][Next]_vars

\* lrange returns exactly the elements between the normalised start and
\* stop (ListRange!LRangeMatchesSpec).
LRangeMatchesSpec == L!LRangeMatchesSpec

\* NodeForKey over NewRing names a node with a virtual node at the key's
\* first position at or after its hash, wrapping (Ring!RingOwnerMatchesSpec).
RingOwnerMatchesSpec == G!RingOwnerMatchesSpec

\* parse0 gives back every pipelined command (Resp!PipelineRoundTrip).
PipelineRoundTrip == R!PipelineRoundTrip

\* A stream cut anywhere yields its whole commands, then at most an error
\* (Resp!TruncatedStreamKeepsWholeCommands).
TruncatedStreamKeepsWholeCommands == R!TruncatedStreamKeepsWholeCommands

\* Every run of Add, Get and Remove on the LFUCache is a run LfuPolicy
\* allows (LfuCache!LfuImplementsPolicy).
LfuImplementsPolicy == F!LfuImplementsPolicy

\* The LRU cache's expiry heap stays a min-heap indexed by heapMap that
\* holds exactly the entries with an expiry (LruExpiry!HeapMatchesEntries).
HeapMatchesEntries == E!HeapMatchesEntries

\* checkExpiration leaves no expired entry behind
\* (LruExpiry!SweepRemovesAllExpired).
SweepRemovesAllExpired == E!SweepRemovesAllExpired
=============================================================================
