----------------------------- MODULE AofRewrite -----------------------------
(***************************************************************************)
(* AOF rewrite: REWRITEAOF / BGREWRITEAOF in the executor                 *)
(* (src/unnamed/part_007), the rewrite worker, and the start / abort /    *)
(* finish tasks of the appender (src/unnamed/part_000), composed with the *)
(* executor and appender of module StandaloneDB.                          *)
(*                                                                         *)
(* StartRewrite, FinishRewrite and AbortRewrite put a control task on     *)
(* aofChan and block the executor until the appender has run it: execPc  *)
(* records which of these calls the executor waits in, ack the result the *)
(* appender sent back.  finishRewrite is split where a crash can fall:     *)
(* appending the buffer to tmp and removing the live file, then renaming. *)
(*                                                                         *)
(* hist is a history variable: every payload the appender wrote to a live *)
(* file since the process started, in order; histBase relates positions  *)
(* of the current live file to positions of hist after a rewrite, and   *)
(* records whether a failed rename has replaced the live file by an      *)
(* empty one since the process started.                                  *)
(***************************************************************************)
EXTENDS Integers, Sequences, SequencesExt, FiniteSets

CONSTANTS
    Keys, StrVals, PushArgs, ExpireSecs, ExpireAts, Fields, HashVals,
    FieldBytes, RangeArgs, KeyBytes, MaxBytes, CheckBudget, Commands,
    MaxTime, MaxServed, MaxRestarts, Crashes,
    IoFails,       \* whether writing or syncing the tmp file may fail
    RenameFails    \* whether os.Rename(tmp, live) may fail

VARIABLES
    cache, ttlMap, now, aofChan, aofFile, synced, wedged, served, restarts,
    aofRewriting,  \* db.aofRewriting (executor)
    execPc,        \* the blocking call the executor is in, or "idle"
    rewriting,     \* handler.rewriting (appender)
    rewriteBuf,    \* handler.rewriteBuf
    ack,           \* reply of the last control task: "none", "ok", "err"
    appPc,         \* "idle", or "renaming" between os.Remove and os.Rename
    liveExists,    \* a file exists at the live AOF path
    tmpFile,       \* contents of the rewrite tmp file, or NoFile
    worker,        \* snapshot records the rewrite worker is writing, or NoFile
    doneChan,      \* db.aofRewriteDone: <<>> or <<ok>>
    hist,          \* history: payloads written to live files since start
    histBase       \* [file, hist, lost]: live file position matching a hist position

DB == INSTANCE StandaloneDB WITH ExitBeforeClose <- FALSE

dbVars == <<cache, ttlMap, now, aofChan, aofFile, synced, wedged, served, restarts>>
rwVars == <<aofRewriting, execPc, rewriting, rewriteBuf, ack, appPc, liveExists,
            tmpFile, worker, doneChan>>
vars == <<dbVars, rwVars, hist, histBase>>

\* A file or a worker's job, possibly absent.
NoFile == [present |-> FALSE, data |-> <<>>]
File(d) == [present |-> TRUE, data |-> d]

\* The control tasks StartRewrite, AbortRewrite and FinishRewrite send.
StartTask == DB!Cmd("start-rewrite", <<>>)
AbortTask == DB!Cmd("abort-rewrite", <<>>)
FinishTask == DB!Cmd("finish-rewrite", <<>>)
IsPayload(t) == t \notin {StartTask, AbortTask, FinishTask}

(***************************************************************************)
(* snapshotEntryToCommands: one batch per entry (the models hold far      *)
(* fewer than 512 elements), then PEXPIREAT when the entry has a TTL.     *)
(***************************************************************************)
EntryRecords(e) ==
    LET k == e.key
        v == e.val
        body ==
          CASE v.type = "string" -> DB!Cmd("SET", <<k, v.data[1]>>)
            [] v.type = "list" -> DB!Cmd("RPUSH", <<k>> \o v.data)
            [] v.type = "hash" ->
                 DB!Cmd("HSET", FoldLeft(LAMBDA acc, f : acc \o <<f, v.data[f]>>,
                                         <<k>>, SetToSeq(DOMAIN v.data)))
            [] v.type = "set" -> DB!Cmd("SADD", <<k>> \o SetToSeq(v.data))
    IN <<body>> \o (IF e.exp > 0 THEN <<DB!Cmd("PEXPIREAT", <<k, e.exp>>)>> ELSE <<>>)

\* writeAofFromSnapshot: the records of every entry, in entry order.
SnapshotRecords(es) ==
    FoldLeft(LAMBDA acc, e : acc \o EntryRecords(e), <<>>, es)

Init ==
    /\ DB!Init
    /\ aofRewriting = FALSE
    /\ execPc = "idle"
    /\ rewriting = FALSE
    /\ rewriteBuf = <<>>
    /\ ack = "none"
    /\ appPc = "idle"
    /\ liveExists = TRUE
    /\ tmpFile = NoFile
    /\ worker = NoFile
    /\ doneChan = <<>>
    /\ hist = <<>>
    /\ histBase = [file |-> 0, hist |-> 0, lost |-> FALSE]

(***************************************************************************)
(* Executor                                                               *)
(***************************************************************************)
\* An ordinary command (module StandaloneDB), while the executor is free.
Serve(cmd) ==
    /\ execPc = "idle"
    /\ DB!Serve(cmd)
    /\ UNCHANGED <<rwVars, hist, histBase>>

\* rewriteaof / bgrewriteaof: refused while a rewrite runs; otherwise set
\* aofRewriting and call StartRewrite.
RewriteCmd(bg) ==
    /\ execPc = "idle" /\ ~wedged /\ served < MaxServed
    /\ served' = served + 1
    /\ IF aofRewriting
       THEN UNCHANGED <<aofChan, aofRewriting, execPc>>
       ELSE /\ aofRewriting' = TRUE
            /\ aofChan' = Append(aofChan, StartTask)
            /\ execPc' = IF bg THEN "bgStart" ELSE "syncStart"
    /\ UNCHANGED <<cache, ttlMap, now, aofFile, synced, wedged, restarts, rewriting,
                   rewriteBuf, ack, appPc, liveExists, tmpFile, worker, doneChan,
                   hist, histBase>>

\* StartRewrite fails only when the appender is still in rewrite mode,
\* which RewriteModesAgree excludes whenever a rewrite command is
\* accepted; its error path has no action, so a start refused in some
\* run would leave the executor waiting and show as a deadlock.
\*
\* StartRewrite succeeded: take the snapshot (purging expired keys from
\* the keyspace).  rewriteaof writes tmp itself and calls FinishRewrite,
\* or AbortRewrite when the write failed; bgrewriteaof hands the records
\* to the worker and replies.
Snapshot ==
    /\ execPc \in {"syncStart", "bgStart"} /\ ack = "ok"
    /\ LET s == DB!PurgeExpiredAll(DB!Fresh(cache, ttlMap), now)
           recs == SnapshotRecords(DB!SnapshotEntries(s))
       IN /\ cache' = s.cache /\ ttlMap' = s.ttl
          /\ \/ /\ execPc = "bgStart"
                /\ worker' = File(recs) /\ execPc' = "idle"
                /\ UNCHANGED <<aofChan, tmpFile>>
             \/ /\ execPc = "syncStart"
                /\ tmpFile' = File(recs)
                /\ aofChan' = Append(aofChan, FinishTask) /\ execPc' = "syncFinish"
                /\ UNCHANGED worker
             \/ /\ execPc = "syncStart" /\ IoFails
                /\ tmpFile' = File(recs)
                /\ aofChan' = Append(aofChan, AbortTask) /\ execPc' = "syncAbort"
                /\ UNCHANGED worker
    /\ ack' = "none"
    /\ UNCHANGED <<now, aofFile, synced, wedged, served, restarts, aofRewriting,
                   rewriting, rewriteBuf, appPc, liveExists, doneChan, hist, histBase>>

\* Mutant: a failed write posts no result, so nobody ever learns of it.
WorkerWriteNoPostOnError ==
    /\ worker.present
    /\ \E ok \in IF IoFails THEN BOOLEAN ELSE {TRUE} :
          /\ tmpFile' = worker
          /\ doneChan' = IF ok THEN <<ok>> ELSE <<>>
    /\ worker' = NoFile
    /\ UNCHANGED <<dbVars, aofRewriting, execPc, rewriting, rewriteBuf, ack, appPc,
                   liveExists, hist, histBase>>

\* The worker goroutine: writeAofFromSnapshot, then post the result.
WorkerWrite ==
    /\ worker.present
    /\ \E ok \in IF IoFails THEN BOOLEAN ELSE {TRUE} :
          /\ tmpFile' = worker
          /\ doneChan' = <<ok>>
    /\ worker' = NoFile
    /\ UNCHANGED <<dbVars, aofRewriting, execPc, rewriting, rewriteBuf, ack, appPc,
                   liveExists, hist, histBase>>

\* handleAofRewriteDone: a result nobody waits for only removes tmp; a
\* failed write aborts; a good one is installed with FinishRewrite.
HandleDone ==
    /\ execPc = "idle" /\ doneChan # <<>>
    /\ doneChan' = <<>>
    /\ CASE ~aofRewriting ->
              tmpFile' = NoFile /\ UNCHANGED <<aofChan, execPc>>
         [] ~Head(doneChan) ->
              /\ aofChan' = Append(aofChan, AbortTask) /\ execPc' = "bgAbort"
              /\ UNCHANGED tmpFile
         [] OTHER ->
              /\ aofChan' = Append(aofChan, FinishTask) /\ execPc' = "bgFinish"
              /\ UNCHANGED tmpFile
    /\ UNCHANGED <<cache, ttlMap, now, aofFile, synced, wedged, served, restarts,
                   aofRewriting, rewriting, rewriteBuf, ack, appPc, liveExists, worker,
                   hist, histBase>>

\* Mutant: a failed FinishRewrite is replied to without AbortRewrite.
FinishedNoAbort ==
    /\ execPc \in {"syncFinish", "bgFinish"} /\ ack # "none"
    /\ ack' = "none" /\ execPc' = "idle" /\ aofRewriting' = FALSE
    /\ UNCHANGED <<cache, ttlMap, now, aofChan, aofFile, synced, wedged, served, restarts,
                   rewriting, rewriteBuf, appPc, liveExists, tmpFile, worker, doneChan,
                   hist, histBase>>

\* FinishRewrite returned: done (aofRewriting cleared, by the defer of
\* rewriteaof or by handleAofRewriteDone), or failed and AbortRewrite is
\* called.
Finished ==
    /\ execPc \in {"syncFinish", "bgFinish"} /\ ack # "none"
    /\ ack' = "none"
    /\ IF ack = "ok"
       THEN /\ execPc' = "idle" /\ aofRewriting' = FALSE
            /\ UNCHANGED aofChan
       ELSE /\ aofChan' = Append(aofChan, AbortTask)
            /\ execPc' = IF execPc = "syncFinish" THEN "syncAbort" ELSE "bgAbort"
            /\ UNCHANGED aofRewriting
    /\ UNCHANGED <<cache, ttlMap, now, aofFile, synced, wedged, served, restarts,
                   rewriting, rewriteBuf, appPc, liveExists, tmpFile, worker, doneChan,
                   hist, histBase>>

\* AbortRewrite returned: remove tmp, clear aofRewriting, reply.
Aborted ==
    /\ execPc \in {"syncAbort", "bgAbort"} /\ ack = "ok"
    /\ execPc' = "idle" /\ ack' = "none" /\ aofRewriting' = FALSE
    /\ tmpFile' = NoFile
    /\ UNCHANGED <<dbVars, rewriting, rewriteBuf, appPc, liveExists, worker, doneChan,
                   hist, histBase>>

(***************************************************************************)
(* Appender (handleAof)                                                   *)
(***************************************************************************)
\* A payload task: written to the live file and, in rewrite mode, also
\* to the rewrite buffer.
AppendPayload ==
    /\ appPc = "idle"
    /\ aofChan # <<>> /\ IsPayload(Head(aofChan))
    /\ aofFile' = Append(aofFile, Head(aofChan))
    /\ hist' = Append(hist, Head(aofChan))
    /\ rewriteBuf' = IF rewriting THEN Append(rewriteBuf, Head(aofChan)) ELSE rewriteBuf
    /\ aofChan' = Tail(aofChan)
    /\ UNCHANGED <<cache, ttlMap, now, synced, wedged, served, restarts, aofRewriting,
                   execPc, rewriting, ack, appPc, liveExists, tmpFile, worker, doneChan,
                   histBase>>

\* startRewriteDone: refused in rewrite mode, else enter it with an
\* empty buffer.
StartTaskRun ==
    /\ appPc = "idle"
    /\ aofChan # <<>> /\ Head(aofChan) = StartTask
    /\ aofChan' = Tail(aofChan)
    /\ IF rewriting
       THEN ack' = "err" /\ UNCHANGED <<rewriting, rewriteBuf>>
       ELSE ack' = "ok" /\ rewriting' = TRUE /\ rewriteBuf' = <<>>
    /\ UNCHANGED <<cache, ttlMap, now, aofFile, synced, wedged, served, restarts,
                   aofRewriting, execPc, appPc, liveExists, tmpFile, worker, doneChan,
                   hist, histBase>>

\* abortRewriteDone: leave rewrite mode, clear the buffer.
AbortTaskRun ==
    /\ appPc = "idle"
    /\ aofChan # <<>> /\ Head(aofChan) = AbortTask
    /\ aofChan' = Tail(aofChan)
    /\ rewriting' = FALSE /\ rewriteBuf' = <<>> /\ ack' = "ok"
    /\ UNCHANGED <<cache, ttlMap, now, aofFile, synced, wedged, served, restarts,
                   aofRewriting, execPc, appPc, liveExists, tmpFile, worker, doneChan,
                   hist, histBase>>

AppendBuffer(tmp, buf) == tmp \o buf

\* finishRewrite up to os.Remove: refused outside rewrite mode; append the
\* buffer to tmp and sync it (the open, any one write or the sync may
\* fail, leaving a prefix of the buffer in tmp and the live file as it
\* is); then sync and close the live file and remove it.
FinishTaskRun ==
    /\ appPc = "idle"
    /\ aofChan # <<>> /\ Head(aofChan) = FinishTask
    /\ aofChan' = Tail(aofChan)
    /\ \/ /\ ~rewriting
          /\ ack' = "err"
          /\ UNCHANGED <<tmpFile, synced, appPc, liveExists>>
       \/ /\ rewriting /\ IoFails
          /\ \E n \in 0..Len(rewriteBuf) :
                tmpFile' = File(AppendBuffer(tmpFile.data, SubSeq(rewriteBuf, 1, n)))
          /\ ack' = "err"
          /\ UNCHANGED <<synced, appPc, liveExists>>
       \/ /\ rewriting
          /\ tmpFile' = File(AppendBuffer(tmpFile.data, rewriteBuf))
          /\ synced' = Len(aofFile)
          /\ liveExists' = FALSE
          /\ appPc' = "renaming"
          /\ UNCHANGED ack
    /\ UNCHANGED <<cache, ttlMap, now, aofFile, wedged, served, restarts, aofRewriting,
                   execPc, rewriting, rewriteBuf, worker, doneChan, hist, histBase>>

\* os.Rename(tmp, live) and reopen: the synced tmp becomes the live file
\* and rewrite mode ends.  When the rename fails the live path is opened
\* with O_CREATE, a new empty file, and rewrite mode is left on.
RenameRun ==
    /\ appPc = "renaming"
    /\ appPc' = "idle" /\ liveExists' = TRUE
    /\ \/ /\ aofFile' = tmpFile.data /\ synced' = Len(tmpFile.data)
          /\ tmpFile' = NoFile
          /\ rewriting' = FALSE /\ rewriteBuf' = <<>>
          /\ ack' = "ok"
          /\ histBase' = [histBase EXCEPT !.file = Len(tmpFile.data), !.hist = Len(hist)]
       \/ /\ RenameFails
          /\ aofFile' = <<>> /\ synced' = 0
          /\ ack' = "err"
          /\ histBase' = [file |-> 0, hist |-> Len(hist), lost |-> TRUE]
          /\ UNCHANGED <<tmpFile, rewriting, rewriteBuf>>
    /\ UNCHANGED <<cache, ttlMap, now, aofChan, wedged, served, restarts, aofRewriting,
                   execPc, worker, doneChan, hist>>

\* The one-second ticker: Sync() of the live file.
FsyncTick ==
    /\ liveExists
    /\ DB!FsyncTick
    /\ UNCHANGED <<rwVars, hist, histBase>>

(***************************************************************************)
(* Restarts.  The new process has a fresh executor, appender and no       *)
(* worker; an unfinished tmp file stays behind under its unique name and   *)
(* is never read again.                                                   *)
(***************************************************************************)
Restart(file) ==
    /\ DB!Restart(file)
    /\ aofRewriting' = FALSE /\ execPc' = "idle"
    /\ rewriting' = FALSE /\ rewriteBuf' = <<>> /\ ack' = "none"
    /\ appPc' = "idle" /\ liveExists' = TRUE
    /\ tmpFile' = NoFile /\ worker' = NoFile /\ doneChan' = <<>>
    /\ hist' = file /\ histBase' = [file |-> 0, hist |-> 0, lost |-> FALSE]

\* The process dies.  LoadAof of a missing live file starts empty and
\* NewAofHandler creates it.
CrashRestart ==
    /\ Crashes /\ restarts < MaxRestarts
    /\ IF liveExists
       THEN \E n \in synced..Len(aofFile) : Restart(SubSeq(aofFile, 1, n))
       ELSE Restart(<<>>)

\* Close(): the executor drains db.ops and a posted rewrite result, then
\* exits (a worker still writing is abandoned); the appender drains its
\* queue, which then holds only payloads, and syncs.
CleanRestart ==
    /\ restarts < MaxRestarts /\ ~wedged
    /\ execPc = "idle" /\ doneChan = <<>>
    /\ Restart(aofFile \o aofChan)

Terminating ==
    /\ served = MaxServed /\ restarts = MaxRestarts
    /\ execPc = "idle" /\ ~worker.present /\ doneChan = <<>>
    /\ aofChan = <<>> /\ synced = Len(aofFile)
    /\ UNCHANGED vars

RewriteCommands == {c \in {"REWRITEAOF", "BGREWRITEAOF"} : c \in Commands}

Next ==
    \/ \E cmd \in DB!InputCommands : Serve(cmd)
    \/ \E c \in RewriteCommands : RewriteCmd(c = "BGREWRITEAOF")
    \/ Snapshot \/ WorkerWrite \/ HandleDone \/ Finished \/ Aborted
    \/ AppendPayload \/ StartTaskRun \/ AbortTaskRun \/ FinishTaskRun \/ RenameRun
    \/ FsyncTick
    \/ CrashRestart \/ CleanRestart \/ Terminating

Spec == Init /\ [][Next]_vars

\* The appender goroutine, the rewrite worker and the executor's own
\* continuations run whenever they are enabled: each is a goroutine
\* blocked on nothing else (the executor's select picks a ready case at
\* random, so a posted rewrite result is eventually taken).  Clients,
\* the fsync ticker and restarts get no fairness.
\* Every fair step moves a program counter, a channel or the worker, so
\* these are the subscript of the fairness conditions (the keyspace values
\* themselves are not compared).
progress == <<execPc, ack, appPc, Len(aofChan), worker.present, Len(doneChan)>>

Fairness ==
    /\ WF_progress(AppendPayload) /\ WF_progress(StartTaskRun)
    /\ WF_progress(AbortTaskRun) /\ WF_progress(FinishTaskRun)
    /\ WF_progress(RenameRun) /\ WF_progress(WorkerWrite)
    /\ WF_progress(Snapshot)
    /\ WF_progress(HandleDone) /\ WF_progress(Finished) /\ WF_progress(Aborted)

FairSpec == Spec /\ Fairness

-----------------------------------------------------------------------------
(***************************************************************************)
(* Properties                                                             *)
(***************************************************************************)
TypeOK ==
    /\ DB!TypeOK
    /\ aofRewriting \in BOOLEAN /\ rewriting \in BOOLEAN /\ liveExists \in BOOLEAN
    /\ execPc \in {"idle", "syncStart", "syncFinish", "syncAbort",
                   "bgStart", "bgFinish", "bgAbort"}
    /\ ack \in {"none", "ok", "err"}
    /\ appPc \in {"idle", "renaming"}
    /\ doneChan \in Seq(BOOLEAN) /\ Len(doneChan) <= 1
    /\ histBase.file <= synced

\* Two rebuilt keyspaces hold the same keys with the same values and TTLs.
Agree(r1, r2) ==
    /\ DOMAIN r1.cache.items = DOMAIN r2.cache.items
    /\ \A k \in DOMAIN r1.cache.items :
          /\ r1.cache.items[k].type = r2.cache.items[k].type
          /\ r1.cache.items[k].data = r2.cache.items[k].data
          /\ (k \in DOMAIN r1.ttl) = (k \in DOMAIN r2.ttl)
          /\ k \in DOMAIN r1.ttl => r1.ttl[k] = r2.ttl[k]

\* What Load would rebuild from a log now.
Rebuild(log) == DB!Replay(log, CheckBudget, now)

\* The running server's keyspace, in the shape Replay returns.
LiveState == DB!Fresh(cache, ttlMap)

CrashImage == IF liveExists THEN SubSeq(aofFile, 1, synced) ELSE <<>>

\* The part of the history known to be on disk.
HistSynced == SubSeq(hist, 1, histBase.hist + synced - histBase.file)

\* Spec 4.3 finish-rewrite "atomically replace the live file with tmp":
\* at every instant, a crash leaves at the live path a log that rebuilds
\* what the synced writes rebuild, whether or not a rewrite has replaced
\* the file they were written to.
SyncedWritesSurvive == Agree(Rebuild(CrashImage), Rebuild(HistSynced))

\* The appender is in rewrite mode only while the executor has a rewrite
\* in progress: once aofRewriting is cleared and the executor is free,
\* no write is still mirrored into a rewrite buffer (every failed finish
\* is followed by AbortRewrite).
RewriteModesAgree == (execPc = "idle" /\ ~aofRewriting) => ~rewriting

\* Spec 4.5 "the executor's rewriting flag is cleared only when the
\* installer step runs": every rewrite that is started, by either
\* command, eventually ends (installed, aborted, or dropped by a
\* restart), so later BGREWRITEAOFs are not refused forever.
RewriteEventuallyEnds == aofRewriting ~> ~aofRewriting

=============================================================================
