---------------------------- MODULE StandaloneDB ----------------------------
(***************************************************************************)
(* The single-writer execution core of package db (src/db/db.go and the  *)
(* command files it dispatches to) together with the AOF appender it     *)
(* feeds (src/unnamed/part_000, package aof) and the restart path Load.  *)
(*                                                                         *)
(*  - Serve is one iteration of the ops case of background(): reset       *)
(*    evictedKeys, execInternal, then appendAof and one DEL per evicted   *)
(*    key, unless the reply is an error.  A command runs atomically:      *)
(*    nothing else touches cache or ttlMap while it runs.                 *)
(*  - AppendTask / FsyncTick are the two select cases of handleAof().     *)
(*  - ActiveExpire is the 100ms ticker case of background().              *)
(*  - CrashRestart / CleanRestart end the process (crash: the queue and   *)
(*    whatever the disk did not keep are lost; clean: Close() drains the  *)
(*    queue and syncs) and start a new one whose Load() replays the log.  *)
(*    ShutdownExit is the graceful shutdown of main, which exits as soon  *)
(*    as Start returns, whether or not Close() has drained the queue.     *)
(*                                                                         *)
(* Data is abstracted: a string value is its byte length, a list element  *)
(* is its byte length, a key is a model value of KeyBytes bytes.  Time is *)
(* a small natural; a TTL is an absolute instant.                         *)
(***************************************************************************)
EXTENDS Integers, Sequences, SequencesExt, FiniteSets

LR == INSTANCE ListRange WITH Elems <- {}, MaxLen <- 0, Idx <- 0,
                              lst <- <<>>, start <- 0, stop <- 0

CONSTANTS
    Keys,          \* key names (model values)
    StrVals,       \* byte lengths of the string values clients SET
    PushArgs,      \* element sequences clients LPUSH / RPUSH (elements are byte lengths)
    ExpireSecs,    \* seconds arguments of EXPIRE
    ExpireAts,     \* instants clients pass to PEXPIREAT
    Fields,        \* hash field names and set members (model values)
    HashVals,      \* byte lengths of the hash values clients HSET
    FieldBytes,    \* len(field), len(member)
    RangeArgs,     \* <<start, stop>> pairs clients pass to LRANGE
    KeyBytes,      \* len(key)
    MaxBytes,      \* --max-bytes of the running server (NewStandaloneDBWithConfig forces it > 0)
    CheckBudget,   \* --max-bytes of the hypothetical restart the recovery properties replay
    Commands,      \* names of the commands clients send in a model
    MaxTime,       \* bound on the clock
    MaxServed,     \* bound on the number of commands served
    MaxRestarts,   \* bound on the number of process restarts
    Crashes,       \* whether the process may die without Close()
    ExitBeforeClose \* whether a graceful shutdown may end before Close() returns

ASSUME MaxBytes > 0 /\ CheckBudget > 0

\* ListData.Len(), HashData.Len(), SetData.Len(): 16 bytes of overhead
\* per element, field or member (types.go).
ListOverhead == 16

\* A string's data is the one-element sequence of its byte length, so that
\* values of every type are comparable functions.
Str(n) == [type |-> "string", data |-> <<n>>]
Lst(l) == [type |-> "list", data |-> l]
Hsh(h) == [type |-> "hash", data |-> h]       \* field -> value length
SetV(m) == [type |-> "set", data |-> m]       \* set of members

\* DataEntity.Len() of the four value types.
DataLen(v) ==
    CASE v.type = "string" -> v.data[1]
      [] v.type = "list" -> FoldLeft(LAMBDA acc, e : acc + e + ListOverhead, 0, v.data)
      [] v.type = "hash" -> FoldSet(LAMBDA f, acc : acc + FieldBytes + v.data[f] + ListOverhead,
                                    0, DOMAIN v.data)
      [] v.type = "set" -> Cardinality(v.data) * (FieldBytes + ListOverhead)

C == INSTANCE LruCache WITH ValueLen <- DataLen

VARIABLES
    cache,       \* db.cache (the LRU record of module LruCache)
    ttlMap,      \* db.ttlMap: key -> absolute expiry instant
    now,         \* wall clock
    aofChan,     \* handler.aofChan: commands queued for the appender
    aofFile,     \* contents of the live append-only file, oldest first
    synced,      \* length of the prefix of aofFile known to be on disk
    wedged,      \* the executor is spinning in the eviction loop
    served,      \* commands served so far (bound)
    restarts     \* restarts so far (bound)

vars == <<cache, ttlMap, now, aofChan, aofFile, synced, wedged, served, restarts>>

(***************************************************************************)
(* Replies: only their kind and, for integers, the code matter to the     *)
(* executor (isError, appendAof's IntReply check).                       *)
(***************************************************************************)
Rep(kind, val) == [kind |-> kind, val |-> val]
OK == Rep("status", 0)
Nil == Rep("nil", 0)
WrongType == Rep("error", 0)
ArgErr == Rep("error", 1)
Multi(x) == Rep("multi", x)
IntRep(n) == Rep("int", n)
Bulk(x) == Rep("bulk", x)

\* isError: the reply is an *resp.ErrorReply.
IsError(r) == r.kind = "error"

Cmd(name, args) == [name |-> name, args |-> args]
DelCmd(k) == Cmd("DEL", <<k>>)

(***************************************************************************)
(* The state one executor step works on: cache, ttlMap, and the keys the  *)
(* onEvicted callback recorded with reason Evicted during the step.       *)
(* stuck records that Add's eviction loop would never end; direct holds   *)
(* the records a handler hands to AddAof itself while it runs.            *)
(***************************************************************************)
DropKey(f, k) == [x \in DOMAIN f \ {k} |-> f[x]]
SetKey(f, k, v) == [x \in DOMAIN f \cup {k} |-> IF x = k THEN v ELSE f[x]]

Fresh(c, ttl) == [cache |-> c, ttl |-> ttl, evicted |-> <<>>, stuck |-> FALSE,
                  direct |-> <<>>]

Present(s, k) == k \in DOMAIN s.cache.items

\* Mutant: the callback records evicted keys but leaves their TTL.
CacheAddKeepTtl(s, k, v) ==
    LET r == C!Add(s.cache, k, v) IN
    [s EXCEPT !.cache   = r.cache,
              !.evicted = s.evicted \o r.evicted,
              !.stuck   = s.stuck \/ r.stuck]

\* cache.Add(key, v, 0) with the onEvicted callback of
\* NewStandaloneDBWithConfig: each evicted key loses its TTL and is
\* appended to evictedKeys.
CacheAdd(s, k, v) ==
    LET r == C!Add(s.cache, k, v) IN
    [s EXCEPT !.cache   = r.cache,
              !.ttl     = [x \in DOMAIN s.ttl \ ToSet(r.evicted) |-> s.ttl[x]],
              !.evicted = s.evicted \o r.evicted,
              !.stuck   = s.stuck \/ r.stuck]

\* cache.Remove(key): the callback (reason Deleted) drops the TTL.
CacheRemove(s, k) ==
    IF Present(s, k)
    THEN [s EXCEPT !.cache = C!Remove(s.cache, k), !.ttl = DropKey(s.ttl, k)]
    ELSE s

\* cache.Get(key) promotes the entry.
Promote(s, k) == [s EXCEPT !.cache = C!Get(s.cache, k)]

\* The handlers keep a pointer to the list stored in the cache and mutate
\* it before calling Add: the entry's value changes without the cache
\* being told.
InPlace(s, k, v) ==
    IF Present(s, k) THEN [s EXCEPT !.cache.items[k] = v] ELSE s

\* time.Now().After(expireTime)
Expired(s, k, t) == k \in DOMAIN s.ttl /\ t > s.ttl[k]

Res(s, reply) == [st |-> s, reply |-> reply]

\* set: Add, then delete(db.ttlMap, key).
Set(s, k, v) ==
    LET s1 == CacheAdd(s, k, Str(v)) IN
    Res([s1 EXCEPT !.ttl = DropKey(s1.ttl, k)], OK)

\* get: Get (promotes), lazy expiry, then the type assertion.
GetCmd(s, k, t) ==
    IF ~Present(s, k) THEN Res(s, Nil)
    ELSE LET s1 == Promote(s, k) IN
         IF Expired(s1, k, t) THEN Res(CacheRemove(s1, k), Nil)
         ELSE IF s1.cache.items[k].type # "string" THEN Res(s1, WrongType)
         ELSE Res(s1, Bulk(s1.cache.items[k].data[1]))

\* del: for each argument, Peek (no expiry check) then Remove and count.
RECURSIVE DelKeys(_, _, _)
DelKeys(s, ks, n) ==
    IF ks = <<>> THEN Res(s, IntRep(n))
    ELSE IF Present(s, Head(ks))
         THEN DelKeys(CacheRemove(s, Head(ks)), Tail(ks), n + 1)
         ELSE DelKeys(s, Tail(ks), n)

\* getListForWrite: the list to push to, and whether the key held
\* another type.
GetListForWrite(s, k, t) ==
    IF ~Present(s, k) THEN [st |-> s, l |-> <<>>, err |-> FALSE]
    ELSE LET s1 == Promote(s, k) IN
         IF Expired(s1, k, t)
         THEN [st |-> CacheRemove(s1, k), l |-> <<>>, err |-> FALSE]
         ELSE IF s1.cache.items[k].type # "list"
         THEN [st |-> s1, l |-> <<>>, err |-> TRUE]
         ELSE [st |-> s1, l |-> s1.cache.items[k].data, err |-> FALSE]

\* lpush / rpush: PushFront / PushBack each value on the shared list,
\* then cache.Add.  LPUSH a b leaves b in front.
Push(s, k, vs, t, front) ==
    LET After(g) ==
          LET l2 == IF front THEN Reverse(vs) \o g.l ELSE g.l \o vs
          IN IF g.err THEN Res(g.st, WrongType)
             ELSE Res(CacheAdd(InPlace(g.st, k, Lst(l2)), k, Lst(l2)), IntRep(Len(l2)))
    IN After(GetListForWrite(s, k, t))

\* lpop / rpop: remove an end of the shared list, then Remove the key if
\* the list is now empty, else Add it again.
Pop(s, k, t, front) ==
    IF ~Present(s, k) THEN Res(s, Nil)
    ELSE LET s1 == Promote(s, k) IN
         IF Expired(s1, k, t) THEN Res(CacheRemove(s1, k), Nil)
         ELSE IF s1.cache.items[k].type # "list" THEN Res(s1, WrongType)
         ELSE IF s1.cache.items[k].data = <<>> THEN Res(s1, Nil)
         ELSE LET l  == s1.cache.items[k].data
                  e  == IF front THEN Head(l) ELSE Last(l)
                  l2 == IF front THEN Tail(l) ELSE Front(l)
                  s2 == InPlace(s1, k, Lst(l2))
              IN Res(IF l2 = <<>> THEN CacheRemove(s2, k) ELSE CacheAdd(s2, k, Lst(l2)),
                     Bulk(e))

\* expire: Peek (no expiry check), seconds <= 0 removes the key,
\* otherwise ttlMap[key] = now + seconds.
Expire(s, k, sec, t) ==
    IF ~Present(s, k) THEN Res(s, IntRep(0))
    ELSE IF sec <= 0 THEN Res(CacheRemove(s, k), IntRep(1))
    ELSE Res([s EXCEPT !.ttl = SetKey(s.ttl, k, t + sec)], IntRep(1))

\* pexpireat: Peek, an instant not after now removes the key.
PExpireAt(s, k, at, t) ==
    IF ~Present(s, k) THEN Res(s, IntRep(0))
    ELSE IF ~(at > t) THEN Res(CacheRemove(s, k), IntRep(1))
    ELSE Res([s EXCEPT !.ttl = SetKey(s.ttl, k, at)], IntRep(1))

\* ttl: Peek; time.Until(expireTime) <= 0 removes the key.
Ttl(s, k, t) ==
    IF ~Present(s, k) THEN Res(s, IntRep(-2))
    ELSE IF k \notin DOMAIN s.ttl THEN Res(s, IntRep(-1))
    ELSE IF s.ttl[k] - t <= 0 THEN Res(CacheRemove(s, k), IntRep(-2))
    ELSE Res(s, IntRep(s.ttl[k] - t))

\* persist: Peek, then drop the TTL if there is one.
Persist(s, k) ==
    IF ~Present(s, k) \/ k \notin DOMAIN s.ttl THEN Res(s, IntRep(0))
    ELSE Res([s EXCEPT !.ttl = DropKey(s.ttl, k)], IntRep(1))

\* llen: Get (promotes), lazy expiry, the type assertion, the length.
LLen(s, k, t) ==
    IF ~Present(s, k) THEN Res(s, IntRep(0))
    ELSE LET s1 == Promote(s, k) IN
         IF Expired(s1, k, t) THEN Res(CacheRemove(s1, k), IntRep(0))
         ELSE IF s1.cache.items[k].type # "list" THEN Res(s1, WrongType)
         ELSE Res(s1, IntRep(Len(s1.cache.items[k].data)))

\* lrange: as llen, replying with the clamped slice (module ListRange).
LRangeCmd(s, k, start, stop, t) ==
    IF ~Present(s, k) THEN Res(s, Multi(<<>>))
    ELSE LET s1 == Promote(s, k) IN
         IF Expired(s1, k, t) THEN Res(CacheRemove(s1, k), Multi(<<>>))
         ELSE IF s1.cache.items[k].type # "list" THEN Res(s1, WrongType)
         ELSE Res(s1, Multi(LR!LRange(s1.cache.items[k].data, start, stop)))

\* The "del key" getHash hands to AddAof itself on lazy expiry.
LogDel(s, k) == [s EXCEPT !.direct = Append(s.direct, DelCmd(k))]

\* getHash / getSet: Get (promotes); an expired key is removed (getHash
\* also logs DEL for it) and reported absent; ok is the type assertion.
GetTyped(s, k, t, typ) ==
    IF ~Present(s, k) THEN [st |-> s, ok |-> FALSE]
    ELSE LET s1 == Promote(s, k) IN
         IF Expired(s1, k, t)
         THEN [st |-> IF typ = "hash" THEN LogDel(CacheRemove(s1, k), k)
                      ELSE CacheRemove(s1, k),
               ok |-> FALSE]
         ELSE [st |-> s1, ok |-> s1.cache.items[k].type = typ]

GetHash(s, k, t) == GetTyped(s, k, t, "hash")
GetSet(s, k, t) == GetTyped(s, k, t, "set")

\* The fallback of the readers when getHash / getSet fails: Get again
\* (promotes) and reply WRONGTYPE if the key holds another type.
Recheck(s, k, typ, absent) ==
    LET s1 == Promote(s, k) IN
    IF Present(s1, k) /\ s1.cache.items[k].type # typ
    THEN Res(s1, WrongType) ELSE Res(s1, absent)

\* The fallback of hset / sadd: Get again; a key of another type is
\* WRONGTYPE unless it has expired (removed, and for hset logged as DEL,
\* then created anew).  getHash / getSet already removed every expired
\* key, so the expired branch is never taken.
CreateOrWrong(s, k, t, typ) ==
    LET s1 == Promote(s, k) IN
    IF Present(s1, k) /\ s1.cache.items[k].type # typ
    THEN IF Expired(s1, k, t)
         THEN [st |-> IF typ = "hash" THEN LogDel(CacheRemove(s1, k), k)
                      ELSE CacheRemove(s1, k),
               wrong |-> FALSE]
         ELSE [st |-> s1, wrong |-> TRUE]
    ELSE [st |-> s1, wrong |-> FALSE]

\* HSET's (field, value) pairs; a holds key, field, value, field, ...
Pairs(a) == [i \in 1..((Len(a) - 1) \div 2) |-> <<a[2 * i], a[2 * i + 1]>>]

\* hset: the hash in the cache is updated in place, counting fields that
\* were not there, then cache.Add.
HSet(s, a, t) ==
    LET k == a[1]
        Write(g, c) ==
          LET h == IF g.ok THEN g.st.cache.items[k].data ELSE <<>>
              h2 == FoldLeft(LAMBDA acc, p : SetKey(acc, p[1], p[2]), h, Pairs(a))
              new == {Pairs(a)[i][1] : i \in DOMAIN Pairs(a)} \ DOMAIN h
          IN IF c.wrong THEN Res(c.st, WrongType)
             ELSE Res(CacheAdd(InPlace(c.st, k, Hsh(h2)), k, Hsh(h2)), IntRep(Cardinality(new)))
        After(g) ==
          Write(g, IF g.ok THEN [st |-> g.st, wrong |-> FALSE]
                   ELSE CreateOrWrong(g.st, k, t, "hash"))
    IN IF Len(a) < 3 \/ Len(a) % 2 = 0 THEN Res(s, ArgErr)
       ELSE After(GetHash(s, k, t))

\* hget
HGet(s, k, f, t) ==
    LET After(g) ==
          IF ~g.ok THEN Recheck(g.st, k, "hash", Nil)
          ELSE IF f \in DOMAIN g.st.cache.items[k].data
               THEN Res(g.st, Bulk(g.st.cache.items[k].data[f]))
               ELSE Res(g.st, Nil)
    IN After(GetHash(s, k, t))

\* hgetall
HGetAll(s, k, t) ==
    LET After(g) ==
          IF ~g.ok THEN Recheck(g.st, k, "hash", Multi(<<>>))
          ELSE Res(g.st, Multi(g.st.cache.items[k].data))
    IN After(GetHash(s, k, t))

\* hdel / srem: delete in place and count; Remove the key when the
\* container is now empty, else Add it again.
Shrink(st, k, v2) ==
    IF DataLen(v2) = 0 THEN CacheRemove(InPlace(st, k, v2), k)
    ELSE CacheAdd(InPlace(st, k, v2), k, v2)

HDel(s, a, t) ==
    LET k == a[1]
        After(g) ==
          LET h == g.st.cache.items[k].data
              gone == DOMAIN h \cap ToSet(Tail(a))
          IN IF ~g.ok THEN Recheck(g.st, k, "hash", IntRep(0))
             ELSE Res(Shrink(g.st, k, Hsh([f \in DOMAIN h \ gone |-> h[f]])),
                      IntRep(Cardinality(gone)))
    IN IF Len(a) < 2 THEN Res(s, ArgErr) ELSE After(GetHash(s, k, t))

\* sadd: add the members in place; Add only when one was added (or the
\* set is empty).
SAdd(s, a, t) ==
    LET k == a[1]
        Write(g, c) ==
          LET m == IF g.ok THEN g.st.cache.items[k].data ELSE {}
              added == ToSet(Tail(a)) \ m
              m2 == m \cup added
          IN IF c.wrong THEN Res(c.st, WrongType)
             ELSE IF added # {} \/ m2 = {}
                  THEN Res(CacheAdd(InPlace(c.st, k, SetV(m2)), k, SetV(m2)),
                           IntRep(Cardinality(added)))
                  ELSE Res(c.st, IntRep(0))
        After(g) ==
          Write(g, IF g.ok THEN [st |-> g.st, wrong |-> FALSE]
                   ELSE CreateOrWrong(g.st, k, t, "set"))
    IN IF Len(a) < 2 THEN Res(s, ArgErr) ELSE After(GetSet(s, k, t))

SRem(s, a, t) ==
    LET k == a[1]
        After(g) ==
          LET m == g.st.cache.items[k].data
              gone == m \cap ToSet(Tail(a))
          IN IF ~g.ok THEN Recheck(g.st, k, "set", IntRep(0))
             ELSE Res(Shrink(g.st, k, SetV(m \ gone)), IntRep(Cardinality(gone)))
    IN IF Len(a) < 2 THEN Res(s, ArgErr) ELSE After(GetSet(s, k, t))

\* scard / smembers
SRead(s, k, t, card) ==
    LET After(g) ==
          IF ~g.ok THEN Recheck(g.st, k, "set", IF card THEN IntRep(0) ELSE Multi({}))
          ELSE Res(g.st, IF card THEN IntRep(Cardinality(g.st.cache.items[k].data))
                         ELSE Multi(g.st.cache.items[k].data))
    IN After(GetSet(s, k, t))

\* execInternal: dispatch on the command name at time t.
ExecInternal(s, cmd, t) ==
    LET a == cmd.args IN
    CASE cmd.name = "SET"       -> Set(s, a[1], a[2])
      [] cmd.name = "GET"       -> GetCmd(s, a[1], t)
      [] cmd.name = "DEL"       -> DelKeys(s, a, 0)
      [] cmd.name = "LPUSH"     -> Push(s, a[1], Tail(a), t, TRUE)
      [] cmd.name = "RPUSH"     -> Push(s, a[1], Tail(a), t, FALSE)
      [] cmd.name = "LPOP"      -> Pop(s, a[1], t, TRUE)
      [] cmd.name = "RPOP"      -> Pop(s, a[1], t, FALSE)
      [] cmd.name = "EXPIRE"    -> Expire(s, a[1], a[2], t)
      [] cmd.name = "PEXPIREAT" -> PExpireAt(s, a[1], a[2], t)
      [] cmd.name = "TTL"       -> Ttl(s, a[1], t)
      [] cmd.name = "PERSIST"   -> Persist(s, a[1])
      [] cmd.name = "LLEN"      -> LLen(s, a[1], t)
      [] cmd.name = "LRANGE"    -> LRangeCmd(s, a[1], a[2], a[3], t)
      [] cmd.name = "HSET"      -> HSet(s, a, t)
      [] cmd.name = "HGET"      -> HGet(s, a[1], a[2], t)
      [] cmd.name = "HGETALL"   -> HGetAll(s, a[1], t)
      [] cmd.name = "HDEL"      -> HDel(s, a, t)
      [] cmd.name = "SADD"      -> SAdd(s, a, t)
      [] cmd.name = "SREM"      -> SRem(s, a, t)
      [] cmd.name = "SCARD"     -> SRead(s, a[1], t, TRUE)
      [] cmd.name = "SMEMBERS"  -> SRead(s, a[1], t, FALSE)

\* Mutant: SREM missing from the write-command table.
WriteCommandsNoSrem == {"SET", "DEL", "LPUSH", "RPUSH", "LPOP", "RPOP",
                        "HSET", "HDEL", "SADD", "PEXPIREAT"}

\* isWriteCommand: the commands appendAof logs.
WriteCommands == {"SET", "DEL", "LPUSH", "RPUSH", "LPOP", "RPOP",
                  "HSET", "HDEL", "SADD", "SREM", "PEXPIREAT"}

\* appendAof(cmd, res), reading ttlMap after the command ran: a successful
\* EXPIRE becomes PEXPIREAT of the absolute instant (or DEL when the key
\* was removed), PERSIST is logged only when it returned 1, every other
\* write command verbatim.
AppendAof(cmd, r) ==
    LET k == cmd.args[1]
        one == r.reply.kind = "int" /\ r.reply.val = 1
    IN CASE cmd.name = "EXPIRE" ->
              IF ~one THEN <<>>
              ELSE IF k \in DOMAIN r.st.ttl
                   THEN <<Cmd("PEXPIREAT", <<k, r.st.ttl[k]>>)>>
                   ELSE <<DelCmd(k)>>
         [] cmd.name = "PERSIST" -> IF one THEN <<cmd>> ELSE <<>>
         [] OTHER -> IF cmd.name \in WriteCommands THEN <<cmd>> ELSE <<>>

\* Mutant: the DEL records of evicted keys are not written.
AofRecordsNoEvictDel(cmd, r) ==
    IF IsError(r.reply) THEN <<>> ELSE AppendAof(cmd, r)

\* What one ops iteration of background() hands to AddAof: nothing for an
\* error reply, else appendAof's records followed by DEL of every key
\* evicted by byte pressure during the command.
AofRecords(cmd, r) ==
    IF IsError(r.reply) THEN <<>>
    ELSE AppendAof(cmd, r) \o [i \in 1..Len(r.st.evicted) |-> DelCmd(r.st.evicted[i])]

\* LoadAof replays every record through the executor with noAof at time
\* t, from the keyspace s0.  noAof does not stop the records a handler
\* appends itself (direct), nor a wedge of the loop.
ReplayFrom(s0, log, t) ==
    FoldLeft(LAMBDA s, cmd : ExecInternal([s EXCEPT !.evicted = <<>>], cmd, t).st,
             s0, log)

\* Load() without a snapshot: a new database with budget b replays the log.
Replay(log, b, t) == ReplayFrom(Fresh(C!New(b), <<>>), log, t)

(***************************************************************************)
(* Snapshots (src/unnamed/part_008): purgeExpiredAll, snapshotEntries and  *)
(* applySnapshot.  An entry is [key, val, exp], exp = 0 for no TTL.  The   *)
(* code sorts entries by key; model values have no order, so SetToSeq     *)
(* fixes an arbitrary one.                                                *)
(***************************************************************************)
PurgeExpiredAll(s, t) ==
    FoldSet(LAMBDA k, acc : CacheRemove(acc, k), s, {k \in DOMAIN s.ttl : t >= s.ttl[k]})

\* snapshotEntries after its purgeExpiredAll: copy every entry of the
\* purged keyspace p with its absolute expiry.
SnapshotEntries(p) ==
    LET ks == SetToSeq(DOMAIN p.cache.items)
    IN [i \in 1..Len(ks) |->
          [key |-> ks[i], val |-> p.cache.items[ks[i]],
           exp |-> IF ks[i] \in DOMAIN p.ttl THEN p.ttl[ks[i]] ELSE 0]]

\* applySnapshot at time t: Remove every key, reset ttlMap, then Add each
\* entry not yet expired and, after the Add, set its TTL.
ApplySnapshot(s, es, t) ==
    LET cleared == [FoldSet(LAMBDA k, acc : CacheRemove(acc, k), s, DOMAIN s.cache.items)
                      EXCEPT !.ttl = <<>>]
        WithTtl(a, e) == IF e.exp > 0 THEN [a EXCEPT !.ttl = SetKey(a.ttl, e.key, e.exp)] ELSE a
        Put1(acc, e) == IF e.exp > 0 /\ e.exp <= t THEN acc
                        ELSE WithTtl(CacheAdd(acc, e.key, e.val), e)
    IN FoldLeft(Put1, cleared, es)

(***************************************************************************)
(* The commands clients send (argv), filtered by Commands.               *)
(***************************************************************************)
InputCommands ==
    { c \in
        {Cmd("SET", <<k, v>>) : k \in Keys, v \in StrVals}
        \cup {Cmd(n, <<k>>) : n \in {"GET", "LPOP", "RPOP", "TTL", "PERSIST"}, k \in Keys}
        \cup {Cmd("DEL", a) : a \in UNION {[1..n -> Keys] : n \in 1..2}}
        \cup {Cmd(n, <<k>> \o vs) : n \in {"LPUSH", "RPUSH"}, k \in Keys, vs \in PushArgs}
        \cup {Cmd("EXPIRE", <<k, x>>) : k \in Keys, x \in ExpireSecs}
        \cup {Cmd("PEXPIREAT", <<k, x>>) : k \in Keys, x \in ExpireAts}
        \cup {Cmd(n, <<k>>) : n \in {"LLEN", "HGETALL", "SCARD", "SMEMBERS"}, k \in Keys}
        \cup {Cmd("LRANGE", <<k>> \o r) : k \in Keys, r \in RangeArgs}
        \cup {Cmd("HSET", <<k, f, v>>) : k \in Keys, f \in Fields, v \in HashVals}
        \cup {Cmd(n, <<k, f>>) : n \in {"HGET", "HDEL", "SADD", "SREM"}, k \in Keys, f \in Fields}
      : c.name \in Commands }

Init ==
    /\ cache = C!New(MaxBytes)
    /\ ttlMap = <<>>
    /\ now = 0
    /\ aofChan = <<>>
    /\ aofFile = <<>>
    /\ synced = 0
    /\ wedged = FALSE
    /\ served = 0
    /\ restarts = 0

\* One iteration of the ops case of background() (db.go), the request
\* having been put on db.ops by Exec.  The DEL records getHash hands to
\* AddAof while the command runs are queued first, error reply or not.
Serve(cmd) ==
    /\ ~wedged
    /\ served < MaxServed
    /\ \E r \in {ExecInternal(Fresh(cache, ttlMap), cmd, now)} :
       /\ cache' = r.st.cache
       /\ ttlMap' = r.st.ttl
       /\ wedged' = r.st.stuck
       /\ aofChan' = aofChan \o r.st.direct \o AofRecords(cmd, r)
    /\ served' = served + 1
    /\ UNCHANGED <<now, aofFile, synced, restarts>>

\* handleAof: a payload task is written to the file (not yet synced).
AppendTask ==
    /\ aofChan # <<>>
    /\ aofFile' = Append(aofFile, Head(aofChan))
    /\ aofChan' = Tail(aofChan)
    /\ UNCHANGED <<cache, ttlMap, now, synced, wedged, served, restarts>>

\* handleAof: the one-second ticker calls aofFile.Sync().
FsyncTick ==
    /\ synced < Len(aofFile)
    /\ synced' = Len(aofFile)
    /\ UNCHANGED <<cache, ttlMap, now, aofChan, aofFile, wedged, served, restarts>>

Tick ==
    /\ now < MaxTime
    /\ now' = now + 1
    /\ UNCHANGED <<cache, ttlMap, aofChan, aofFile, synced, wedged, served, restarts>>

\* activeExpire: scan up to 20 TTL entries and Remove those with
\* now.After(t); a model never has more than 20 keys, so the scan sees
\* every entry.
ActiveExpire ==
    /\ ~wedged
    /\ \E k \in DOMAIN ttlMap : now > ttlMap[k]
    /\ LET dead == {k \in DOMAIN ttlMap : now > ttlMap[k]}
           s == FoldSet(LAMBDA k, acc : CacheRemove(acc, k), Fresh(cache, ttlMap), dead)
       IN /\ cache' = s.cache
          /\ ttlMap' = s.ttl
    /\ UNCHANGED <<now, aofChan, aofFile, synced, wedged, served, restarts>>

\* A new process: NewStandaloneDBWithConfig, then Load() replays the file.
Restart(file) ==
    \E s \in {Replay(file, MaxBytes, now)} :
    /\ cache' = s.cache
    /\ ttlMap' = s.ttl
    /\ wedged' = s.stuck
    /\ aofFile' = file
    /\ synced' = Len(file)
    /\ aofChan' = s.direct
    /\ restarts' = restarts + 1
    /\ UNCHANGED <<now, served>>

\* The process dies: what is queued is lost; the file keeps at least its
\* synced prefix and possibly more of what was written (the page cache
\* survives a process crash, not a power loss).
CrashRestart ==
    /\ Crashes
    /\ restarts < MaxRestarts
    /\ \E n \in synced..Len(aofFile) : Restart(SubSeq(aofFile, 1, n))

\* Close(): the executor drains, then aofHandler.Close() drains the queue
\* into the file and syncs; then the new process starts.
CleanRestart ==
    /\ restarts < MaxRestarts
    /\ ~wedged
    /\ Restart(aofFile \o aofChan)

\* SIGINT/SIGTERM (or SHUTDOWN) in main: Shutdown closes the listener, so
\* Start's Accept fails with closing closed and Start returns nil; main
\* then returns and the process exits while Shutdown is still waiting for
\* the handlers or inside Db.Close().  The appender may have written any
\* prefix of its queue by then (the page cache keeps what was written);
\* the rest is lost.  Close() winning the race is the prefix of all of it.
ShutdownExit ==
    /\ ExitBeforeClose
    /\ restarts < MaxRestarts
    /\ \E n \in 0..Len(aofChan) : Restart(aofFile \o SubSeq(aofChan, 1, n))

\* The bounds of a model are exhausted: stutter instead of deadlocking
\* (the server itself never stops accepting commands).
Terminating ==
    /\ served = MaxServed /\ now = MaxTime /\ restarts = MaxRestarts
    /\ aofChan = <<>> /\ synced = Len(aofFile)
    /\ UNCHANGED vars

Next ==
    \/ \E cmd \in InputCommands : Serve(cmd)
    \/ AppendTask
    \/ FsyncTick
    \/ Tick
    \/ ActiveExpire
    \/ CrashRestart
    \/ CleanRestart
    \/ ShutdownExit
    \/ Terminating

Spec == Init /\ [][Next]_vars

-----------------------------------------------------------------------------
(***************************************************************************)
(* Properties                                                             *)
(***************************************************************************)
\* Type invariant; the recency list of the LRU cache holds every cached key
\* exactly once (Add/Get's MoveToFront, removeEntry's ll.Remove).
TypeOK ==
    /\ DOMAIN cache.items \subseteq Keys
    /\ \A k \in DOMAIN cache.items : cache.items[k].type \in {"string", "list", "hash", "set"}
    /\ cache.nbytes \in Int
    /\ cache.ll \in Seq(Keys)
    /\ Len(cache.ll) = Cardinality(DOMAIN cache.items)
    /\ ToSet(cache.ll) = DOMAIN cache.items
    /\ DOMAIN ttlMap \subseteq Keys
    /\ \A k \in DOMAIN ttlMap : ttlMap[k] \in Nat
    /\ aofChan \in Seq([name : STRING, args : Seq(Keys \cup Fields \cup Nat)])
    /\ synced \in 0..Len(aofFile)
    /\ wedged \in BOOLEAN

\* Spec invariant 1 / "TTL consistency": between executor steps every key
\* of ttlMap is a cached key, because every removal path of the cache
\* (Remove, eviction inside Add) runs the onEvicted callback.
TTLWithinKeyspace == DOMAIN ttlMap \subseteq DOMAIN cache.items

\* Add's eviction loop always terminates: removing the oldest entries
\* eventually brings the tracked total under the budget, so the executor
\* never spins forever inside a command.
EvictionTerminates == ~wedged

\* The log a clean restart would replay: the file plus what is queued.
Log == aofFile \o aofChan

\* The keyspace a restart with budget CheckBudget would rebuild now.
Recovered == Replay(Log, CheckBudget, now)

SameEntry(s, k) ==
    /\ k \in DOMAIN cache.items
    /\ s.cache.items[k].type = cache.items[k].type
    /\ s.cache.items[k].data = cache.items[k].data
    /\ (k \in DOMAIN s.ttl) = (k \in DOMAIN ttlMap)
    /\ k \in DOMAIN ttlMap => s.ttl[k] = ttlMap[k]

\* Spec 8 "Eviction durability" and "No TTL extension on restart": a
\* restart that replays the append log never brings back a key the
\* running server no longer holds (evicted keys are logged as DEL), nor
\* an old value of a key, and the keys it rebuilds carry the same
\* absolute expiry as in the running server (EXPIRE is logged as
\* PEXPIREAT, PERSIST only when it removed a TTL).
RecoveredWithinLive ==
    LET Within(R) == \A k \in DOMAIN R.cache.items : SameEntry(R, k)
    IN Within(Recovered)

\* Spec invariant 3: the cache's tracked byte total is the sum of the
\* size estimates of its entries.
TrackedBytesExact ==
    cache.nbytes = FoldSet(LAMBDA k, acc : acc + KeyBytes + DataLen(cache.items[k]),
                           0, DOMAIN cache.items)

=============================================================================
