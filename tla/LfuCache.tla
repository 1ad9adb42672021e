------------------------------ MODULE LfuCache ------------------------------
(***************************************************************************)
(* The LFU eviction cache of package lru (LFUCache, src/unnamed/part_001), *)
(* selected by --eviction lfu.  Like LruCache it is called synchronously  *)
(* by the executor, so its methods are operators over a record            *)
(*                                                                         *)
(*    [maxBytes, nbytes, items, buckets, minFreq]                          *)
(*                                                                         *)
(* where items maps each cached key to its lfuEntry [freq, len] (len is   *)
(* value.Len()) and buckets maps a frequency to its list, front first.    *)
(* The Go map deletes a bucket when it empties and creates one just       *)
(* before pushing to it, so "no bucket" and "an empty bucket" are the     *)
(* same thing here: <<>>.                                                  *)
(*                                                                         *)
(* Every caller passes ttl = 0, so expiresAt is 0, isExpired is FALSE and *)
(* the expiry branches of Get and Peek never run; Peek is then a read.   *)
(*                                                                         *)
(* The second half of the module drives the cache with Add, Get and      *)
(* Remove and shows that it implements LfuPolicy.  The variable recency  *)
(* is a history variable, not program state: the order in which keys     *)
(* were last added or got, which the refinement mapping needs.           *)
(***************************************************************************)
EXTENDS Integers, Sequences, SequencesExt, FiniteSetsExt

CONSTANTS
    CacheKeys,   \* keys
    ValueLens,   \* Value.Len() of the values added
    KeyLen,      \* len(key)
    MaxBytes,    \* maxBytes (NewLFU)
    MaxFreq      \* bound on an entry's freq (freq is an unbounded int)

\* NewLFU(maxBytes, onRemove)
NewLFU(maxBytes) ==
    [maxBytes |-> maxBytes, nbytes |-> 0, items |-> <<>>,
     buckets |-> [f \in 1..MaxFreq |-> <<>>], minFreq |-> 0]

NonEmpty(c) == {f \in 1..MaxFreq : c.buckets[f] # <<>>}

Bucket(c, f) == IF f \in 1..MaxFreq THEN c.buckets[f] ELSE <<>>

\* recalculateMinFreq: the least frequency with a non-empty bucket, or 0.
RecalculateMinFreq(c) == IF NonEmpty(c) = {} THEN 0 ELSE Min(NonEmpty(c))

\* increment: unlink from the old bucket (advancing minFreq past it when it
\* empties and was the minimum) and push to the front of bucket freq+1.
Increment(c, k) ==
    LET f    == c.items[k].freq
        rest == Remove(c.buckets[f], k)
    IN [c EXCEPT !.buckets[f]     = rest,
                 !.buckets[f + 1] = <<k>> \o @,
                 !.minFreq        = IF rest = <<>> /\ @ = f THEN f + 1 ELSE @,
                 !.items[k].freq  = f + 1]

\* removeEntry: unlink; when the bucket empties and held the minimum,
\* minFreq becomes 0 (last entry), f+1 (if that bucket exists) or is
\* recalculated; then delete the item and subtract its bytes.
RemoveEntry(c, k) ==
    LET f  == c.items[k].freq
        c1 == [c EXCEPT !.buckets[f] = Remove(@, k)]
        mf == IF c1.buckets[f] # <<>> \/ c.minFreq # f THEN c.minFreq
              ELSE IF Cardinality(DOMAIN c.items) = 1 THEN 0
              ELSE IF Bucket(c1, f + 1) # <<>> THEN f + 1
              ELSE RecalculateMinFreq(c1)
    IN [c1 EXCEPT !.minFreq = mf,
                  !.items   = [x \in DOMAIN c.items \ {k} |-> c.items[x]],
                  !.nbytes  = @ - (KeyLen + c.items[k].len)]

\* evictOne: on an empty cache reset minFreq and return; else walk minFreq
\* up to a non-empty bucket (recalculating when the walk runs off the
\* bucket range, which stands for the 1_000_000 guard) and remove the
\* tail of that bucket.  victim is "" when nothing was removed.
EvictOne(c) ==
    IF DOMAIN c.items = {}
    THEN [cache |-> [c EXCEPT !.minFreq = 0], victim |-> ""]
    ELSE LET up == {f \in NonEmpty(c) : f >= c.minFreq}
             m  == IF up # {} THEN Min(up) ELSE RecalculateMinFreq(c)
             b  == Bucket(c, m)
         IN IF b = <<>>
            THEN [cache |-> [c EXCEPT !.minFreq = m], victim |-> ""]
            ELSE [cache |-> RemoveEntry([c EXCEPT !.minFreq = m], Last(b)),
                  victim |-> Last(b)]

\* The loop that ends Add: "for c.maxBytes != 0 && c.nbytes > c.maxBytes
\* { c.evictOne() }".  An evictOne that removes nothing leaves the loop
\* spinning for ever: stuck.
RECURSIVE EvictLoop(_, _)
EvictLoop(c, ev) ==
    IF c.maxBytes # 0 /\ c.nbytes > c.maxBytes
    THEN LET r == EvictOne(c)
         IN IF r.victim = ""
            THEN [cache |-> r.cache, evicted |-> ev, stuck |-> TRUE]
            ELSE EvictLoop(r.cache, Append(ev, r.victim))
    ELSE [cache |-> c, evicted |-> ev, stuck |-> FALSE]

\* Mutant: a new entry is pushed to bucket 1 without resetting minFreq.
PutNoMinReset(c, k, l) ==
    IF k \in DOMAIN c.items
    THEN Increment([c EXCEPT !.nbytes = @ + l - c.items[k].len,
                             !.items[k].len = l], k)
    ELSE [c EXCEPT !.buckets[1] = <<k>> \o @,
                   !.items      = (k :> [freq |-> 1, len |-> l]) @@ @,
                   !.nbytes     = @ + KeyLen + l]

\* The first half of Add: an update adjusts nbytes by the change of the
\* value's length and counts a use; a new entry enters bucket 1 at the
\* front with freq 1 and minFreq becomes 1.
Put(c, k, l) ==
    IF k \in DOMAIN c.items
    THEN Increment([c EXCEPT !.nbytes = @ + l - c.items[k].len,
                             !.items[k].len = l], k)
    ELSE [c EXCEPT !.buckets[1] = <<k>> \o @,
                   !.items      = (k :> [freq |-> 1, len |-> l]) @@ @,
                   !.nbytes     = @ + KeyLen + l,
                   !.minFreq    = 1]

AddEntry(c, k, l) == EvictLoop(Put(c, k, l), <<>>)

-----------------------------------------------------------------------------

VARIABLES
    lfu,       \* the LFUCache
    recency,   \* history: cached keys, most recently added or got first
    evicted,   \* keys the last Add evicted, in onRemove order
    stuck      \* the last Add is spinning in its eviction loop

lfuVars == <<lfu, recency, evicted, stuck>>

Init ==
    /\ lfu = NewLFU(MaxBytes)
    /\ recency = <<>>
    /\ evicted = <<>>
    /\ stuck = FALSE

\* Add(key, value, 0); the key's freq stays within MaxFreq.
Add(k, l) ==
    /\ ~stuck
    /\ k \in DOMAIN lfu.items => lfu.items[k].freq < MaxFreq
    /\ LET r == AddEntry(lfu, k, l)
       IN /\ lfu' = r.cache
          /\ evicted' = r.evicted
          /\ stuck' = r.stuck
          /\ recency' = SelectSeq(<<k>> \o Remove(recency, k),
                                  LAMBDA x : x \in DOMAIN r.cache.items)

\* Get(key) of a cached key counts a use (a miss changes nothing).
Get(k) ==
    /\ ~stuck
    /\ k \in DOMAIN lfu.items
    /\ lfu.items[k].freq < MaxFreq
    /\ lfu' = Increment(lfu, k)
    /\ recency' = <<k>> \o Remove(recency, k)
    /\ evicted' = <<>>
    /\ UNCHANGED stuck

\* Remove(key) of a cached key: removeEntry with reason Deleted.
Delete(k) ==
    /\ ~stuck
    /\ k \in DOMAIN lfu.items
    /\ lfu' = RemoveEntry(lfu, k)
    /\ recency' = Remove(recency, k)
    /\ evicted' = <<>>
    /\ UNCHANGED stuck

Next ==
    \E k \in CacheKeys :
        \/ \E l \in ValueLens : Add(k, l)
        \/ Get(k)
        \/ Delete(k)

Spec == Init /\ [][Next]_lfuVars

\* The bucket lists, minFreq and nbytes are only a fast way to find the
\* victim: every sequence of Add, Get and Remove of the LFUCache is one
\* LfuPolicy allows, with the same keys, counts and lengths cached and
\* the same keys evicted in the same order.
Policy == INSTANCE LfuPolicy WITH cache <- lfu.items, order <- recency

LfuImplementsPolicy == Policy!Spec

=============================================================================
