-------------------------- MODULE MC_RdbSnapshot --------------------------
(* Model-checking instances of RdbSnapshot: two keys, SAVE and BGSAVE    *)
(* interleaved with writes, expiry, crashes and restarts.                *)
EXTENDS RdbSnapshot

CONSTANTS k1, k2, f1

KeysTwo == {k1, k2}
FieldsOne == {f1}

\* Strings written, deleted and given a TTL, and both snapshot commands.
StringsAndSaves == {"SET", "DEL", "EXPIRE", "SAVE", "BGSAVE"}

\* A list push and a synchronous snapshot.
PushAndSave == {"RPUSH", "SAVE"}

StrValsOneTwo == {1, 2}
StrValsOne == {1}
PushOne == {<<1>>}
ExpireOne == {1}
NoInts == {}
RangeNone == {}
HashValsNone == {}

\* A budget no model can exceed.
Unbounded == 1000
=============================================================================
