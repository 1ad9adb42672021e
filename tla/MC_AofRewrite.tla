--------------------------- MODULE MC_AofRewrite ---------------------------
(* Model-checking instances of AofRewrite: two keys, strings and lists,  *)
(* no TTL, the replay never evicts.                                      *)
EXTENDS AofRewrite

CONSTANTS k1, k2, f1

KeysTwo == {k1, k2}
FieldsOne == {f1}

\* Writes of strings and lists, and the two rewrite commands.
WritesAndRewrites == {"SET", "DEL", "RPUSH", "REWRITEAOF", "BGREWRITEAOF"}

StrValsOne == {1}
PushOne == {<<1>>}
NoInts == {}
RangeNone == {}
HashValsNone == {}

\* A budget no model can exceed.
Unbounded == 1000
=============================================================================
