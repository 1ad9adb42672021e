------------------------------ MODULE LruExpiry ------------------------------
(***************************************************************************)
(* The per-entry TTL of the LRU cache (type Cache in src/aof/load.go):    *)
(* expiresAt on every entry, the min-heap of expiry instants with its     *)
(* key -> index map, the lazy expiry of Get and Peek, and the sweep        *)
(* checkExpiration that expirationLoop runs every 100 ms.                  *)
(*                                                                         *)
(* The list part (recency order, byte count) is LruCache's; this module   *)
(* adds what Add, removeEntry, Get and Peek do to expiresAt and the heap. *)
(* The state of a cache is the record [c, exp, h]: c the LruCache record, *)
(* exp maps each cached key to its expiresAt (0: none), h is the heap     *)
(* [heap |-> <<[key, at], ...>>, heapMap |-> key -> 0-based index].       *)
(*                                                                         *)
(* The database always passes ttl = 0, so in myRedis the heap stays empty *)
(* and expirationLoop finds nothing; this module checks the package's own *)
(* TTL machinery for callers that pass a ttl.  checkExpiration runs on    *)
(* its own goroutine without the executor's serialisation; the harness    *)
(* runs it as one step, as it would be with the calls serialised.         *)
(***************************************************************************)
EXTENDS Integers, Sequences, TLC

CONSTANTS
    ExpKeys,      \* keys
    ExpLens,      \* Value.Len() of the values added
    ExpTtls,      \* ttl arguments of Add, in seconds (0: none)
    ExpKeyBytes,  \* len(key)
    ExpMaxBytes,  \* maxBytes (New)
    ExpMaxTime    \* bound on the clock

ASSUME ExpMaxBytes >= ExpKeyBytes + 2

Len1(v) == v

LC == INSTANCE LruCache WITH KeyBytes <- ExpKeyBytes, ValueLen <- Len1

Drop(f, k) == [x \in DOMAIN f \ {k} |-> f[x]]

\* c.heap[i] with the code's 0-based index.
At(h, i) == h.heap[i + 1]

\* The swap of heapifyUp / heapifyDown, with both heapMap updates.
Swap(h, i, j) ==
    LET a == At(h, i)
        b == At(h, j)
    IN [heap    |-> [h.heap EXCEPT ![i + 1] = b, ![j + 1] = a],
        heapMap |-> [h.heapMap EXCEPT ![b.key] = i, ![a.key] = j]]

\* heapifyUp: swap with the parent while strictly earlier.
RECURSIVE HeapifyUp(_, _)
HeapifyUp(h, i) ==
    LET p == (i - 1) \div 2
    IN IF i > 0 /\ At(h, i).at < At(h, p).at
       THEN HeapifyUp(Swap(h, i, p), p)
       ELSE h

\* heapifyDown's choice: the left child if strictly earlier, then the
\* right child if strictly earlier than that.
Smallest(h, i) ==
    LET n  == Len(h.heap)
        l  == 2 * i + 1
        r  == 2 * i + 2
        s1 == IF l < n /\ At(h, l).at < At(h, i).at THEN l ELSE i
    IN IF r < n /\ At(h, r).at < At(h, s1).at THEN r ELSE s1

RECURSIVE HeapifyDown(_, _)
HeapifyDown(h, i) ==
    LET s == Smallest(h, i)
    IN IF s = i THEN h ELSE HeapifyDown(Swap(h, i, s), s)

\* Mutant: the new item is appended but not sifted up.
AddToHeapNoSift(h, k, at) ==
    [heap    |-> Append(h.heap, [key |-> k, at |-> at]),
     heapMap |-> (k :> Len(h.heap)) @@ h.heapMap]

\* addToHeap: append, record the index, sift up.
AddToHeap(h, k, at) ==
    HeapifyUp([heap    |-> Append(h.heap, [key |-> k, at |-> at]),
               heapMap |-> (k :> Len(h.heap)) @@ h.heapMap], Len(h.heap))

\* removeFromHeap: move the last item into the hole, fix its heapMap entry,
\* truncate, delete the key, then sift the moved item down and up.
RemoveFromHeap(h, k) ==
    IF k \notin DOMAIN h.heapMap THEN h
    ELSE LET idx  == h.heapMap[k]
             last == Len(h.heap) - 1
             mv   == At(h, last)
             h1   == [heap    |-> SubSeq([h.heap EXCEPT ![idx + 1] = mv], 1, last),
                      heapMap |-> Drop([h.heapMap EXCEPT ![mv.key] = idx], k)]
         IN IF idx < 0 \/ idx >= Len(h.heap)
            THEN [h EXCEPT !.heapMap = Drop(@, k)]
            ELSE IF idx < last THEN HeapifyUp(HeapifyDown(h1, idx), idx)
            ELSE h1

\* removeEntry: LruCache's unlink and byte count, then removeFromHeap
\* when the entry has an expiry.
RemoveEntry(s, k) ==
    [c   |-> LC!RemoveEntry(s.c, k),
     exp |-> Drop(s.exp, k),
     h   |-> IF s.exp[k] > 0 THEN RemoveFromHeap(s.h, k) ELSE s.h]

\* The first half of Add: LruCache's update or push; an update whose old or
\* new expiresAt is set removes the old heap item and adds the new one.
Put(s, k, v, at) ==
    LET h1 == IF k \in DOMAIN s.exp /\ s.exp[k] > 0
              THEN RemoveFromHeap(s.h, k) ELSE s.h
    IN [c   |-> LC!Put(s.c, k, v),
        exp |-> (k :> at) @@ s.exp,
        h   |-> IF at > 0 THEN AddToHeap(h1, k, at) ELSE h1]

\* "for c.maxBytes != 0 && c.maxBytes < c.nbytes { c.RemoveOldest() }";
\* the ASSUME keeps a single entry within the budget, so the list is never
\* empty while the total exceeds it.
RECURSIVE EvictOverflow(_)
EvictOverflow(s) ==
    IF s.c.maxBytes # 0 /\ s.c.maxBytes < s.c.nbytes /\ s.c.ll # <<>>
    THEN EvictOverflow(RemoveEntry(s, s.c.ll[Len(s.c.ll)]))
    ELSE s

\* Add(key, value, ttl) at the instant now.
Add(s, k, v, ttl, now) ==
    EvictOverflow(Put(s, k, v, IF ttl > 0 THEN now + ttl ELSE 0))

Expired(s, k, now) == s.exp[k] > 0 /\ s.exp[k] < now

\* Get: an expired entry is removed (reason Expired); a live one moves to
\* the front.  Peek removes an expired entry and otherwise reads.
Get(s, k, now) ==
    IF k \notin DOMAIN s.exp THEN s
    ELSE IF Expired(s, k, now) THEN RemoveEntry(s, k)
    ELSE [s EXCEPT !.c = LC!Get(@, k)]

Peek(s, k, now) ==
    IF k \in DOMAIN s.exp /\ Expired(s, k, now) THEN RemoveEntry(s, k) ELSE s

\* Remove(key): removeEntry with reason Deleted when the key is present.
Remove(s, k) == IF k \in DOMAIN s.exp THEN RemoveEntry(s, k) ELSE s

\* Clear: removeEntry (reason Cleared) for every key, in map order; the
\* resulting cache does not depend on that order.
RECURSIVE ClearAll(_)
ClearAll(s) ==
    IF DOMAIN s.exp = {} THEN s
    ELSE ClearAll(RemoveEntry(s, CHOOSE k \in DOMAIN s.exp : TRUE))

\* Mutant: the sweep removes at most one expired item per tick.
SweepOnce(s, now) ==
    IF s.h.heap # <<>> /\ At(s.h, 0).at < now
    THEN LET k  == At(s.h, 0).key
             s1 == [s EXCEPT !.h = RemoveFromHeap(s.h, k)]
         IN IF k \in DOMAIN s1.exp THEN RemoveEntry(s1, k) ELSE s1
    ELSE s

\* checkExpiration: while the earliest item is past, pop it from the heap
\* and, if the key is still cached, removeEntry it (whose own
\* removeFromHeap then finds nothing).
RECURSIVE Sweep(_, _)
Sweep(s, now) ==
    IF s.h.heap # <<>> /\ At(s.h, 0).at < now
    THEN LET k  == At(s.h, 0).key
             s1 == [s EXCEPT !.h = RemoveFromHeap(s.h, k)]
         IN Sweep(IF k \in DOMAIN s1.exp THEN RemoveEntry(s1, k) ELSE s1, now)
    ELSE s

-----------------------------------------------------------------------------

VARIABLES
    lruTtl,   \* the Cache: [c, exp, h]
    clock     \* time.Now().Unix()

expVars == <<lruTtl, clock>>

Init ==
    /\ lruTtl = [c |-> LC!New(ExpMaxBytes), exp |-> <<>>,
                 h |-> [heap |-> <<>>, heapMap |-> <<>>]]
    /\ clock = 0

AddStep(k, v, ttl) ==
    /\ lruTtl' = Add(lruTtl, k, v, ttl, clock)
    /\ UNCHANGED clock

GetStep(k) ==
    /\ lruTtl' = Get(lruTtl, k, clock)
    /\ UNCHANGED clock

PeekStep(k) ==
    /\ lruTtl' = Peek(lruTtl, k, clock)
    /\ UNCHANGED clock

RemoveStep(k) ==
    /\ lruTtl' = Remove(lruTtl, k)
    /\ UNCHANGED clock

ClearStep ==
    /\ lruTtl' = ClearAll(lruTtl)
    /\ UNCHANGED clock

\* One tick of expirationLoop.
CheckExpiration ==
    /\ lruTtl' = Sweep(lruTtl, clock)
    /\ UNCHANGED clock

Tick ==
    /\ clock < ExpMaxTime
    /\ clock' = clock + 1
    /\ UNCHANGED lruTtl

Next ==
    \/ \E k \in ExpKeys :
          \/ \E v \in ExpLens, t \in ExpTtls : AddStep(k, v, t)
          \/ GetStep(k)
          \/ PeekStep(k)
          \/ RemoveStep(k)
    \/ ClearStep
    \/ CheckExpiration
    \/ Tick

Spec == Init /\ [][Next]_expVars

\* The heap is a min-heap on the expiry instant, heapMap is exactly the
\* index of every heap item, and the heap holds one item for each cached
\* entry with an expiry, at that entry's instant: across every sequence of
\* Add (new entry, update with a changed ttl), eviction, Get/Peek expiry,
\* Remove and sweep, each of which moves items by swap-with-last and sifts.
HeapMatchesEntries ==
    LET h == lruTtl.h
        n == Len(h.heap)
    IN /\ \A i \in 1..n - 1 : At(h, (i - 1) \div 2).at <= At(h, i).at
       /\ DOMAIN h.heapMap = {At(h, i).key : i \in 0..n - 1}
       /\ \A i \in 0..n - 1 : h.heapMap[At(h, i).key] = i
       /\ {At(h, i) : i \in 0..n - 1} =
              {[key |-> k, at |-> lruTtl.exp[k]] : k \in {x \in DOMAIN lruTtl.exp : lruTtl.exp[x] > 0}}

\* A tick of expirationLoop, which only ever looks at the root of the heap,
\* leaves no cached entry whose instant has passed.
SweepRemovesAllExpired ==
    [][CheckExpiration =>
         \A k \in DOMAIN lruTtl'.exp : ~Expired(lruTtl', k, clock)]_expVars

=============================================================================
