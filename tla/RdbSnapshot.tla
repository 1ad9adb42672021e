----------------------------- MODULE RdbSnapshot -----------------------------
(***************************************************************************)
(* RDB snapshots: SAVE and BGSAVE (src/unnamed/part_006), rdb.Save's      *)
(* tmp-file-then-replace (src/unnamed/part_015), and the start-up path    *)
(* Load() = loadRdb then LoadAof (src/db/db.go), composed with the        *)
(* executor and appender of module StandaloneDB.  The AOF is enabled.     *)
(*                                                                         *)
(* rdb.Save runs in two places: inline in the executor for SAVE (the      *)
(* executor serves nothing else until it returns) and in the goroutine    *)
(* BGSAVE starts.  Both write the same path filename + ".tmp".  A Save is *)
(* split where another writer or a crash can come between: the tmp file  *)
(* is written and synced (one step: the entries of a model are a few     *)
(* bytes), the old snapshot is removed, and tmp is renamed over it.      *)
(***************************************************************************)
EXTENDS Integers, Sequences, SequencesExt, FiniteSets

CONSTANTS
    Keys, StrVals, PushArgs, ExpireSecs, ExpireAts, Fields, HashVals,
    FieldBytes, RangeArgs, KeyBytes, MaxBytes, CheckBudget, Commands,
    MaxTime, MaxServed, MaxRestarts, Crashes,
    RenameFails,   \* whether os.Rename(tmp, filename) may fail
    SaveFails      \* whether rdb.Save may fail before its rename

VARIABLES
    cache, ttlMap, now, aofChan, aofFile, synced, wedged, served, restarts,
    rdbFile,     \* the snapshot at db.rdbFilename, or NoFile
    rdbTmp,      \* the file at filename + ".tmp", or NoFile
    rdbSaving,   \* db.rdbSaving (guarded by rdbMu)
    sv           \* writer -> [pc, job]: where each rdb.Save call is

DB == INSTANCE StandaloneDB WITH ExitBeforeClose <- FALSE

dbVars == <<cache, ttlMap, now, aofChan, aofFile, synced, wedged, served, restarts>>
rdbVars == <<rdbFile, rdbTmp, rdbSaving, sv>>
vars == <<dbVars, rdbVars>>

NoFile == [present |-> FALSE, data |-> <<>>]
File(d) == [present |-> TRUE, data |-> d]

\* The two callers of rdb.Save: SAVE inside the executor, BGSAVE's goroutine.
Writers == {"exec", "bg"}
Idle == [pc |-> "idle", job |-> <<>>]

ExecFree == sv["exec"].pc = "idle"

\* Mutant: Load replays the AOF first and applies the snapshot after it.
LoadAofFirst(rdb, log, b, t) ==
    LET s0 == DB!Replay(log, b, t)
    IN IF rdb.present THEN DB!ApplySnapshot(s0, rdb.data, t) ELSE s0

\* Load(): loadRdb applies the snapshot when the file exists (a request
\* with noAof, so what its Adds evict is not logged), then LoadAof replays
\* the whole append log on top of it.
Load(rdb, log, b, t) ==
    LET s0 == DB!Fresh(DB!C!New(b), <<>>)
        Aof(s1) == DB!ReplayFrom(s1, log, t)
    IN Aof(IF rdb.present THEN DB!ApplySnapshot(s0, rdb.data, t) ELSE s0)

Init ==
    /\ DB!Init
    /\ rdbFile = NoFile /\ rdbTmp = NoFile /\ rdbSaving = FALSE
    /\ sv = [w \in Writers |-> Idle]

\* A command other than SAVE / BGSAVE, once the executor is free.
Serve(cmd) ==
    /\ ExecFree
    /\ DB!Serve(cmd)
    /\ UNCHANGED <<rdbFile, rdbTmp, rdbSaving, sv>>

\* The executor's snapshot: purgeExpiredAll, then the entries.
Snap(w) ==
    \E p \in {DB!PurgeExpiredAll(DB!Fresh(cache, ttlMap), now)} :
    /\ cache' = p.cache /\ ttlMap' = p.ttl
    /\ sv' = [sv EXCEPT ![w] = [pc |-> "write", job |-> DB!SnapshotEntries(p)]]

\* save(): snapshotEntries, then rdb.Save inline.  SAVE and BGSAVE are not
\* write commands: nothing is appended to the AOF.
SaveCmd ==
    /\ "SAVE" \in Commands
    /\ ExecFree /\ ~wedged /\ served < MaxServed
    /\ Snap("exec")
    /\ served' = served + 1
    /\ UNCHANGED <<now, aofChan, aofFile, synced, wedged, restarts,
                   rdbFile, rdbTmp, rdbSaving>>

\* bgsave(): refused while rdbSaving; else set it, take the snapshot and
\* start the goroutine.
BgSaveCmd ==
    /\ "BGSAVE" \in Commands
    /\ ExecFree /\ ~wedged /\ served < MaxServed
    /\ served' = served + 1
    /\ \/ /\ rdbSaving
          /\ UNCHANGED <<cache, ttlMap, rdbSaving, sv>>
       \/ /\ ~rdbSaving
          /\ rdbSaving' = TRUE
          /\ Snap("bg")
    /\ UNCHANGED <<now, aofChan, aofFile, synced, wedged, restarts, rdbFile, rdbTmp>>

\* rdb.Save: OpenFile(tmp, O_TRUNC), write, Flush, Sync, Close.  With
\* SaveFails, MkdirAll or OpenFile may fail, leaving tmp as it is, or a
\* later step may fail, after which Save removes tmp; Save returns the
\* error, and BGSAVE's goroutine clears rdbSaving as after any Save.
WriteTmp(w) ==
    /\ sv[w].pc = "write"
    /\ \/ /\ rdbTmp' = File(sv[w].job)
          /\ sv' = [sv EXCEPT ![w].pc = "remove"]
          /\ UNCHANGED rdbSaving
       \/ /\ SaveFails
          /\ rdbTmp' \in {rdbTmp, NoFile}
          /\ sv' = [sv EXCEPT ![w] = Idle]
          /\ rdbSaving' = IF w = "bg" THEN FALSE ELSE rdbSaving
    /\ UNCHANGED <<dbVars, rdbFile>>

\* rdb.Save: _ = os.Remove(filename).
RemoveLive(w) ==
    /\ sv[w].pc = "remove"
    /\ rdbFile' = NoFile
    /\ sv' = [sv EXCEPT ![w].pc = "rename"]
    /\ UNCHANGED <<dbVars, rdbTmp, rdbSaving>>

\* Mutant: the goroutine clears rdbSaving only when the rename succeeded.
RenameKeepFlagOnError(w) ==
    /\ sv[w].pc = "rename"
    /\ \/ /\ rdbTmp.present
          /\ rdbFile' = rdbTmp /\ rdbTmp' = NoFile
          /\ rdbSaving' = IF w = "bg" THEN FALSE ELSE rdbSaving
       \/ /\ ~rdbTmp.present \/ RenameFails
          /\ UNCHANGED <<rdbFile, rdbTmp, rdbSaving>>
    /\ sv' = [sv EXCEPT ![w] = Idle]
    /\ UNCHANGED dbVars

\* rdb.Save: os.Rename(tmp, filename) moves whatever is at tmp now, and
\* fails when nothing is (another Save renamed it) or, with RenameFails,
\* for any other reason.  SAVE then replies; BGSAVE's goroutine logs the
\* error and clears rdbSaving either way.
Rename(w) ==
    /\ sv[w].pc = "rename"
    /\ \/ /\ rdbTmp.present
          /\ rdbFile' = rdbTmp /\ rdbTmp' = NoFile
       \/ /\ ~rdbTmp.present \/ RenameFails
          /\ UNCHANGED <<rdbFile, rdbTmp>>
    /\ sv' = [sv EXCEPT ![w] = Idle]
    /\ rdbSaving' = IF w = "bg" THEN FALSE ELSE rdbSaving
    /\ UNCHANGED dbVars

\* The ticker case of background(): the executor is not inside SAVE.
ActiveExpire == ExecFree /\ DB!ActiveExpire /\ UNCHANGED rdbVars

\* The appender and the clock, unaffected by snapshots.
AppendTask == DB!AppendTask /\ UNCHANGED rdbVars
FsyncTick == DB!FsyncTick /\ UNCHANGED rdbVars
Tick == DB!Tick /\ UNCHANGED rdbVars

\* A new process: no writer, rdbSaving false; both files stay on disk.
Restart(file) ==
    \E s \in {Load(rdbFile, file, MaxBytes, now)} :
    /\ cache' = s.cache /\ ttlMap' = s.ttl /\ wedged' = s.stuck
    /\ aofFile' = file /\ synced' = Len(file) /\ aofChan' = s.direct
    /\ restarts' = restarts + 1
    /\ rdbSaving' = FALSE /\ sv' = [w \in Writers |-> Idle]
    /\ UNCHANGED <<now, served, rdbFile, rdbTmp>>

CrashRestart ==
    /\ Crashes /\ restarts < MaxRestarts
    /\ \E n \in synced..Len(aofFile) : Restart(SubSeq(aofFile, 1, n))

\* Close() waits for the executor, so an inline SAVE finishes; nothing
\* waits for BGSAVE's goroutine, which dies with the process.
CleanRestart ==
    /\ restarts < MaxRestarts /\ ~wedged /\ ExecFree
    /\ Restart(aofFile \o aofChan)

Terminating ==
    /\ served = MaxServed /\ now = MaxTime /\ restarts = MaxRestarts
    /\ \A w \in Writers : sv[w].pc = "idle"
    /\ aofChan = <<>> /\ synced = Len(aofFile)
    /\ UNCHANGED vars

Next ==
    \/ \E cmd \in DB!InputCommands : Serve(cmd)
    \/ SaveCmd \/ BgSaveCmd
    \/ \E w \in Writers : WriteTmp(w) \/ RemoveLive(w) \/ Rename(w)
    \/ ActiveExpire \/ AppendTask \/ FsyncTick \/ Tick
    \/ CrashRestart \/ CleanRestart \/ Terminating

Spec == Init /\ [][Next]_vars

\* The executor inside SAVE and BGSAVE's goroutine run whenever they can:
\* each does file I/O and waits on nothing else.
progress == <<[w \in Writers |-> sv[w].pc], rdbSaving>>

Fairness == \A w \in Writers :
    WF_progress(WriteTmp(w)) /\ WF_progress(RemoveLive(w)) /\ WF_progress(Rename(w))

FairSpec == Spec /\ Fairness

-----------------------------------------------------------------------------
(***************************************************************************)
(* Properties                                                             *)
(***************************************************************************)
TypeOK ==
    /\ DB!TypeOK
    /\ rdbSaving \in BOOLEAN
    /\ \A w \in Writers : sv[w].pc \in {"idle", "write", "remove", "rename"}

\* What Load() would rebuild on a clean restart now.
RdbRecovered == Load(rdbFile, aofFile \o aofChan, CheckBudget, now)

\* Spec 2 "the snapshot is applied first, then the append log is
\* replayed": a clean restart that loads the snapshot and then the log
\* brings back no key the server does not hold, no other value and no
\* other expiry, whatever snapshots SAVE and BGSAVE left on disk.
RdbRecoveredWithinLive ==
    LET Within(R) == \A k \in DOMAIN R.cache.items : DB!SameEntry(R, k)
    IN Within(RdbRecovered)

\* BGSAVE's goroutine clears rdbSaving whether rdb.Save failed or not, so
\* a BGSAVE is eventually accepted again (a restart also clears it).
BgSaveEnds == rdbSaving ~> ~rdbSaving

=============================================================================
