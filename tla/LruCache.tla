------------------------------ MODULE LruCache ------------------------------
(***************************************************************************)
(* The LRU eviction cache of package lru (type Cache, the file that ships *)
(* inside src/aof/load.go).  The cache is not a process: the executor     *)
(* calls it synchronously, so it is modelled as pure operators over a     *)
(* cache record                                                           *)
(*                                                                         *)
(*    [maxBytes, nbytes, ll, items]                                        *)
(*                                                                         *)
(* where ll is the recency list, front (most recent) first, and items     *)
(* maps each cached key to its value.  Operators that remove entries      *)
(* return the keys they removed so that the caller can run its            *)
(* OnEvicted callback.                                                     *)
(*                                                                         *)
(* The cache-internal TTL heap and its expirationLoop are left out: the   *)
(* database always calls Add with ttl = 0, so expiresAt is always 0, the  *)
(* heap stays empty and the expiry branches of Get/Peek never fire.       *)
(***************************************************************************)
EXTENDS Integers, Sequences

CONSTANTS
    KeyBytes,       \* len(key): every key of a model has this byte length
    ValueLen(_)     \* Value.Len(), supplied by the database's value types

\* An empty cache with byte budget maxBytes (New).
New(maxBytes) ==
    [maxBytes |-> maxBytes, nbytes |-> 0, ll |-> <<>>, items |-> <<>>]

LOCAL Without(s, k) == SelectSeq(s, LAMBDA x : x # k)

LOCAL Back(s) == s[Len(s)]

\* Mutant: the entry is pushed to the front without being unlinked.
MoveToFrontNoUnlink(ll, k) == <<k>> \o ll

\* ll.MoveToFront(ele)
MoveToFront(ll, k) == <<k>> \o Without(ll, k)

\* Mutant: removeEntry forgets to subtract the entry's bytes.
RemoveEntryKeepBytes(c, k) ==
    [c EXCEPT !.ll    = Without(c.ll, k),
              !.items = [x \in DOMAIN c.items \ {k} |-> c.items[x]]]

\* removeEntry: unlink the entry and subtract what its value reports NOW.
RemoveEntry(c, k) ==
    [c EXCEPT !.ll     = Without(c.ll, k),
              !.items  = [x \in DOMAIN c.items \ {k} |-> c.items[x]],
              !.nbytes = c.nbytes - (KeyBytes + ValueLen(c.items[k]))]

\* The first half of Add: update in place (moving to front) or push a new
\* entry at the front.  The size delta of an update is computed against
\* the value the entry holds at the time of the call.
Put(c, k, v) ==
    IF k \in DOMAIN c.items
    THEN [c EXCEPT !.ll       = MoveToFront(c.ll, k),
                   !.nbytes   = c.nbytes + ValueLen(v) - ValueLen(c.items[k]),
                   !.items[k] = v]
    ELSE [c EXCEPT !.ll     = <<k>> \o c.ll,
                   !.items  = [x \in DOMAIN c.items \cup {k} |->
                                  IF x = k THEN v ELSE c.items[x]],
                   !.nbytes = c.nbytes + KeyBytes + ValueLen(v)]

\* The second half of Add: "for c.maxBytes != 0 && c.maxBytes < c.nbytes
\* { c.RemoveOldest() }".  RemoveOldest does nothing on an empty list, so
\* when the list is empty and the total still exceeds the budget the loop
\* never ends: stuck is then TRUE.
RECURSIVE EvictOverflow(_, _)
EvictOverflow(c, evicted) ==
    IF c.maxBytes # 0 /\ c.maxBytes < c.nbytes
    THEN IF c.ll = <<>>
         THEN [cache |-> c, evicted |-> evicted, stuck |-> TRUE]
         ELSE EvictOverflow(RemoveEntry(c, Back(c.ll)),
                            Append(evicted, Back(c.ll)))
    ELSE [cache |-> c, evicted |-> evicted, stuck |-> FALSE]

\* Add(key, value, 0): the evicted keys are returned in eviction order.
Add(c, k, v) == EvictOverflow(Put(c, k, v), <<>>)

\* Get promotes a present key; Peek leaves the cache as it is.
Get(c, k) ==
    IF k \in DOMAIN c.items THEN [c EXCEPT !.ll = MoveToFront(c.ll, k)] ELSE c

\* Remove(key): removeEntry with reason Deleted when the key is present.
Remove(c, k) == IF k \in DOMAIN c.items THEN RemoveEntry(c, k) ELSE c

=============================================================================
