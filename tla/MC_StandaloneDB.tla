-------------------------- MODULE MC_StandaloneDB --------------------------
(* Model-checking instances of StandaloneDB.  Keys are model values; the  *)
(* other inputs are small sets chosen so that eviction, lazy and active   *)
(* expiry, restarts and crashes between write and fsync all happen.      *)
EXTENDS StandaloneDB

CONSTANTS k1, k2, k3, f1, f2

\* Two keys, the full string/list/TTL command set.
KeysTwo == {k1, k2}
KeysThree == {k1, k2, k3}

AllCommands == {"SET", "GET", "DEL", "LPUSH", "RPUSH", "LPOP", "RPOP",
                "EXPIRE", "PEXPIREAT", "TTL", "PERSIST"}

\* A string of 1 byte and one of 20 bytes: with MaxBytes = 40 a 20-byte
\* string and a one-element list (2 + 17 bytes) overflow the budget.
StrValsSmallLarge == {1, 20}

\* One-element pushes of a 1-byte element.
PushOne == {<<1>>}

\* EXPIRE 0 deletes, EXPIRE 1 sets a TTL one tick ahead.
ExpireZeroOne == {0, 1}

PExpireAtOne == {1}

\* Writes of strings and lists with no TTL commands and no GET (one push
\* and one pop direction: the other two are the same code paths).
WriteCommandsOnly == {"SET", "DEL", "RPUSH", "LPOP"}

\* Writes and the TTL commands that are logged, no GET.
WritesAndTTL == {"SET", "DEL", "RPUSH", "LPOP", "EXPIRE", "PEXPIREAT"}

\* SET and EXPIRE only.
SetExpire == {"SET", "EXPIRE"}

\* Strings only, written and read.
SetGet == {"SET", "GET"}

\* Pushing to and popping from lists.
PushPop == {"RPUSH", "LPOP"}

\* Ten-byte strings: with MaxBytes = 30 two keys fit (2 x 12 bytes), three do not.
StrValsTen == {10}

\* Two hash fields / set members of one byte, hash values of one byte.
FieldsTwo == {f1, f2}
HashValsOne == {1}

\* LRANGE l 0 -1, the whole list.
RangeWhole == {<<0, -1>>}

\* Hash and set writes, no TTL.
HashSetWrites == {"HSET", "HDEL", "SADD", "SREM"}

\* Every hash, set and list-read command with the logged TTL commands.
HashSetTTL == {"HSET", "HGET", "HGETALL", "HDEL", "SADD", "SREM", "SCARD",
               "SMEMBERS", "RPUSH", "LLEN", "LRANGE", "EXPIRE", "PEXPIREAT"}

\* Every command but LPUSH and RPOP, the mirror paths of RPUSH and LPOP.
EveryCommand == (AllCommands \ {"LPUSH", "RPOP"}) \cup HashSetTTL

\* A budget no model can exceed: the replay never evicts.
Unbounded == 1000
=============================================================================
