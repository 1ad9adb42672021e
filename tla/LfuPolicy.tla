------------------------------ MODULE LfuPolicy ------------------------------
(***************************************************************************)
(* What the LFU eviction cache promises (spec 4.2, "LFU"), with no        *)
(* buckets and no minFreq cursor: every cached key has a use count and a  *)
(* place in one recency order of the whole cache.  Add and Get count a    *)
(* use and make the key the most recent; Peek changes nothing; when the   *)
(* byte total exceeds the budget, the victim is the least recently used  *)
(* key among those with the lowest count, and victims are taken one by   *)
(* one until the total fits.                                              *)
(***************************************************************************)
EXTENDS Integers, Sequences, SequencesExt, FiniteSetsExt

CONSTANTS
    CacheKeys,   \* keys
    ValueLens,   \* Value.Len() of the values added
    KeyLen,      \* len(key)
    MaxBytes,    \* the byte budget (0: none)
    MaxFreq      \* bound on a key's use count

VARIABLES
    cache,       \* key -> [freq, len]
    order,       \* every cached key, most recently used first
    evicted      \* keys evicted by the last Add, in eviction order

policyVars == <<cache, order, evicted>>

Bytes(c) == MapThenSumSet(LAMBDA k : KeyLen + c[k].len, DOMAIN c)

Drop(c, k) == [x \in DOMAIN c \ {k} |-> c[x]]

\* The least recently used key of those with the lowest count.
Victim(c, o) ==
    LET low == {k \in DOMAIN c : \A j \in DOMAIN c : c[k].freq <= c[j].freq}
    IN o[SelectLastInSeq(o, LAMBDA k : k \in low)]

RECURSIVE Shed(_, _, _)
Shed(c, o, ev) ==
    IF MaxBytes # 0 /\ Bytes(c) > MaxBytes /\ DOMAIN c # {}
    THEN LET v == Victim(c, o)
         IN Shed(Drop(c, v), Remove(o, v), Append(ev, v))
    ELSE [cache |-> c, order |-> o, evicted |-> ev]

Touch(o, k) == <<k>> \o Remove(o, k)

Init ==
    /\ cache = <<>>
    /\ order = <<>>
    /\ evicted = <<>>

Add(k, l) ==
    /\ k \in DOMAIN cache => cache[k].freq < MaxFreq
    /\ LET c == IF k \in DOMAIN cache
                THEN [cache EXCEPT ![k] = [freq |-> @.freq + 1, len |-> l]]
                ELSE (k :> [freq |-> 1, len |-> l]) @@ cache
           r == Shed(c, Touch(order, k), <<>>)
       IN /\ cache' = r.cache
          /\ order' = r.order
          /\ evicted' = r.evicted

Get(k) ==
    /\ k \in DOMAIN cache
    /\ cache[k].freq < MaxFreq
    /\ cache' = [cache EXCEPT ![k].freq = @ + 1]
    /\ order' = Touch(order, k)
    /\ evicted' = <<>>

Delete(k) ==
    /\ k \in DOMAIN cache
    /\ cache' = Drop(cache, k)
    /\ order' = Remove(order, k)
    /\ evicted' = <<>>

Next ==
    \E k \in CacheKeys :
        \/ \E l \in ValueLens : Add(k, l)
        \/ Get(k)
        \/ Delete(k)

Spec == Init /\ [][Next]_policyVars

=============================================================================
