------------------------------- MODULE Cluster -------------------------------
(***************************************************************************)
(* The cluster router of one node (src/cluster/router.go) with its peer   *)
(* clients (src/cluster/peer_client.go), the local executor's Exec and     *)
(* background loop (src/db/db.go), and the peers as servers that apply a  *)
(* forwarded command in one step.                                          *)
(*                                                                         *)
(* Every client handler runs Router.Exec concurrently.  A single-key      *)
(* command is executed locally or forwarded to its owner; DEL is split    *)
(* into one goroutine per owner whose replies meet in a results channel   *)
(* and are summed after wg.Wait.  A forwarded command takes a pooled      *)
(* connection or dials one, writes, reads with a deadline and returns the *)
(* connection.  Router.Close may run while handlers are still inside Exec *)
(* (Server.Shutdown stops waiting for them after 5 s).                    *)
(*                                                                         *)
(* Data is abstracted to which keys each node holds; the ring to the      *)
(* function Owner it computes (module Ring checks the lookup itself).     *)
(***************************************************************************)
EXTENDS Naturals, Sequences, SequencesExt, FiniteSets

CONSTANTS
    Nodes,      \* the --nodes addresses
    Local,      \* --addr, the node this router runs on
    Keys,
    Owner,      \* key -> node, Ring.NodeForKey on the static ring
    Clients,    \* concurrent client handlers, one command each
    Requests,   \* the client -> command assignments to start from; a command
                \* is [op |-> "DEL" | "SET", keys |-> ...]
    PoolSize,   \* capacity of a PeerClient's pool channel
    OpsCap,     \* capacity of db.ops (1000 in NewStandaloneDB)
    Faults      \* whether dials, writes and the peer's execution may fail

ASSUME Local \in Nodes /\ Owner \in [Keys -> Nodes]

Peers == Nodes \ {Local}
Calls == Clients \X Nodes

\* Router.Close runs once, so a peer has its NewRouter client and at most
\* one created lazily by peerDo after Close emptied r.peers.
Gens == 1..2
ConnIds == Peers \X (1..Cardinality(Clients) * 2)
NoConn == <<Local, 0>>

\* Replies, abstracted to their kind and integer.
IntReply(i) == [t |-> "int", n |-> i]
OkReply == [t |-> "ok", n |-> 0]
ErrReply == [t |-> "err", n |-> 0]
NoReply == [t |-> "none", n |-> 0]

\* execDel's groups: the owners of the keys, and each owner's keys.
Targets(cmd) == {Owner[k] : k \in cmd.keys}
Group(cmd, n) == {k \in cmd.keys : Owner[k] = n}

\* A node's executor running the command's keys owned by n: DEL counts and
\* removes the keys it finds, SET stores the key.
ApplyAt(cmd, n, held) ==
    IF cmd.op = "DEL"
    THEN [reply |-> IntReply(Cardinality(Group(cmd, n) \cap held)),
          keys  |-> held \ Group(cmd, n)]
    ELSE [reply |-> OkReply, keys |-> held \cup Group(cmd, n)]

Removed(cmd, n, held) ==
    IF cmd.op = "DEL" THEN Cardinality(Group(cmd, n) \cap held) ELSE 0

VARIABLES
    store,      \* node -> keys it holds
    cmd,        \* client -> its command
    stage,      \* client -> "new" | "fanout" | "done"
    reply,      \* client -> the reply Router.Exec returned
    removed,    \* client -> keys its DEL removed on all nodes (history)
    pc,         \* call <<client, node>> -> where that goroutine is
    gen,        \* call -> the PeerClient generation peerDo returned
    held,       \* call -> the connection it holds, or NoConn
    wire,       \* call -> "idle" | "sent" | "answered": the request at the peer
    ans,        \* call -> the peer's answer
    results,    \* client -> execDel's results channel, in arrival order
    ops,        \* the local db.ops queue of clients
    lres,       \* client -> req.result of its local request
    execAlive,  \* the local background goroutine runs
    lclosing,   \* the local db.closing is closed
    peers,      \* peer -> generation in r.peers, 0 when absent
    ngen,       \* peer -> generations created
    closing,    \* peer -> generations whose closing channel is closed
    pool,       \* <<peer, generation>> -> idle connections in its pool
    ndial,      \* peer -> connections dialled
    open,       \* connections not yet closed
    rstate      \* "running" | "peersClosed" | "localClosing" | "closed"

reqVars == <<cmd, stage, reply, removed, results>>
callVars == <<pc, gen, held, wire, ans>>
localVars == <<ops, lres, execAlive, lclosing>>
peerVars == <<peers, ngen, closing, pool, ndial, open>>
vars == <<store, reqVars, callVars, localVars, peerVars, rstate>>

PCs == {"none", "exec", "wait", "lookup", "do", "write", "read",
        "release", "push", "done"}

\* NewRouter: a PeerClient per peer with an empty pool; every key present
\* at its owner.
Init ==
    /\ store = [n \in Nodes |-> {k \in Keys : Owner[k] = n}]
    /\ cmd \in Requests
    /\ stage = [c \in Clients |-> "new"]
    /\ reply = [c \in Clients |-> NoReply]
    /\ removed = [c \in Clients |-> 0]
    /\ pc = [x \in Calls |-> "none"]
    /\ gen = [x \in Calls |-> 0]
    /\ held = [x \in Calls |-> NoConn]
    /\ wire = [x \in Calls |-> "idle"]
    /\ ans = [x \in Calls |-> NoReply]
    /\ results = [c \in Clients |-> <<>>]
    /\ ops = <<>> /\ lres = [c \in Clients |-> NoReply]
    /\ execAlive = TRUE /\ lclosing = FALSE
    /\ peers = [n \in Peers |-> 1] /\ ngen = [n \in Peers |-> 1]
    /\ closing = [n \in Peers |-> {}]
    /\ pool = [x \in Peers \X Gens |-> {}]
    /\ ndial = [n \in Peers |-> 0] /\ open = {}
    /\ rstate = "running"

-----------------------------------------------------------------------------
(* Router.Exec and execDel                                                 *)

\* Router.Exec: DEL starts a goroutine per owner (execDel); another command
\* runs on the handler's own goroutine, locally when its key is owned here,
\* else through peerDo.
Dispatch(c) ==
    /\ stage[c] = "new"
    /\ stage' = [stage EXCEPT ![c] = "fanout"]
    /\ pc' = [x \in Calls |->
                IF x[1] = c /\ x[2] \in Targets(cmd[c])
                THEN IF x[2] = Local THEN "exec" ELSE "lookup"
                ELSE pc[x]]
    /\ UNCHANGED <<store, cmd, reply, removed, results, gen, held, wire, ans,
                   localVars, peerVars, rstate>>

\* A call ends with reply r: execDel's goroutine sends it into results
\* (buffered with one slot per group, so the send never blocks).  The
\* goroutine's locals are gone.
Finish(x, r) ==
    /\ pc' = [pc EXCEPT ![x] = "done"]
    /\ held' = [held EXCEPT ![x] = NoConn]
    /\ results' = [results EXCEPT ![x[1]] = Append(@, r)]

\* Mutant: execDel replies as soon as one group has, without wg.Wait.
AggregateEarly(c) ==
    /\ stage[c] = "fanout"
    /\ results[c] # <<>>
    /\ reply' = [reply EXCEPT ![c] =
                   IF cmd[c].op # "DEL" THEN results[c][1]
                   ELSE IF \E i \in 1..Len(results[c]) : results[c][i].t # "int"
                        THEN ErrReply
                        ELSE IntReply(FoldSeq(LAMBDA r, a : a + r.n, 0, results[c]))]
    /\ stage' = [stage EXCEPT ![c] = "done"]
    /\ UNCHANGED <<store, cmd, removed, results, callVars, localVars, peerVars, rstate>>

\* After wg.Wait, execDel ranges over the closed channel: the first reply
\* that is an error (or not an integer) is returned, else the sum.  A
\* single-key command returns its one reply.
Aggregate(c) ==
    /\ stage[c] = "fanout"
    /\ \A n \in Targets(cmd[c]) : pc[<<c, n>>] = "done"
    /\ reply' = [reply EXCEPT ![c] =
                   IF cmd[c].op # "DEL" THEN results[c][1]
                   ELSE IF \E i \in 1..Len(results[c]) : results[c][i].t # "int"
                        THEN ErrReply
                        ELSE IntReply(FoldSeq(LAMBDA r, a : a + r.n, 0, results[c]))]
    /\ stage' = [stage EXCEPT ![c] = "done"]
    /\ UNCHANGED <<store, cmd, removed, results, callVars, localVars, peerVars, rstate>>

-----------------------------------------------------------------------------
(* StandaloneDB.Exec and background() on the local node                    *)

\* Exec: "server closed" if closing is already closed; otherwise the send
\* into db.ops, which blocks while the channel is full, racing closing.
\* Closing may be closed between the two selects, so once it is closed
\* either case can win.
LocalSend(x) ==
    /\ pc[x] = "exec"
    /\ \/ /\ lclosing
          /\ Finish(x, ErrReply)
          /\ UNCHANGED ops
       \/ /\ Len(ops) < OpsCap
          /\ ops' = Append(ops, x[1])
          /\ pc' = [pc EXCEPT ![x] = "wait"]
          /\ UNCHANGED <<held, results>>
    /\ UNCHANGED <<store, cmd, stage, reply, removed, gen, wire, ans,
                   lres, execAlive, lclosing, peerVars, rstate>>

\* Exec's wait: the result, or "server closed" / the 5 s "ERR timeout";
\* the timer always fires, and the request stays in db.ops.
LocalWait(x) ==
    /\ pc[x] = "wait"
    /\ \/ /\ lres[x[1]] # NoReply
          /\ Finish(x, lres[x[1]])
       \/ Finish(x, ErrReply)
    /\ UNCHANGED <<store, cmd, stage, reply, removed, gen, wire, ans,
                   localVars, peerVars, rstate>>

\* background(): the head of db.ops is executed and its result sent into
\* req.result (buffered, so whether or not the caller still waits).  After
\* closing the loop drains db.ops the same way.
Serve ==
    /\ execAlive /\ ops # <<>>
    /\ LET c == Head(ops)
           a == ApplyAt(cmd[c], Local, store[Local])
       IN /\ store' = [store EXCEPT ![Local] = a.keys]
          /\ lres' = [lres EXCEPT ![c] = a.reply]
          /\ removed' = [removed EXCEPT ![c] = @ + Removed(cmd[c], Local, store[Local])]
    /\ ops' = Tail(ops)
    /\ UNCHANGED <<cmd, stage, reply, results, callVars, execAlive, lclosing,
                   peerVars, rstate>>

\* The drain loop's default case: closing is closed and db.ops is empty.
ExecExit ==
    /\ execAlive /\ lclosing /\ ops = <<>>
    /\ execAlive' = FALSE
    /\ UNCHANGED <<store, reqVars, callVars, ops, lres, lclosing, peerVars, rstate>>

-----------------------------------------------------------------------------
(* peerDo and PeerClient                                                   *)

\* Mutant: peerDo creates a PeerClient without looking in r.peers first.
LookupNoReuse(x) ==
    LET n == x[2] IN
    /\ pc[x] = "lookup"
    /\ ngen' = [ngen EXCEPT ![n] = @ + 1]
    /\ peers' = [peers EXCEPT ![n] = ngen[n] + 1]
    /\ gen' = [gen EXCEPT ![x] = ngen[n] + 1]
    /\ pc' = [pc EXCEPT ![x] = "do"]
    /\ UNCHANGED <<store, reqVars, held, wire, ans, localVars,
                   closing, pool, ndial, open, rstate>>

\* peerDo: the client in r.peers, or, when Close emptied the map, a new
\* PeerClient stored under the write lock (the double check is the same
\* lookup, as Close holds that lock for its whole loop).
Lookup(x) ==
    LET n == x[2] IN
    /\ pc[x] = "lookup"
    /\ \/ /\ peers[n] # 0
          /\ gen' = [gen EXCEPT ![x] = peers[n]]
          /\ UNCHANGED <<peers, ngen>>
       \/ /\ peers[n] = 0
          /\ ngen' = [ngen EXCEPT ![n] = @ + 1]
          /\ peers' = [peers EXCEPT ![n] = ngen[n] + 1]
          /\ gen' = [gen EXCEPT ![x] = ngen[n] + 1]
    /\ pc' = [pc EXCEPT ![x] = "do"]
    /\ UNCHANGED <<store, reqVars, held, wire, ans, localVars,
                   closing, pool, ndial, open, rstate>>

\* Do and acquire: "peer client closed" once closing is closed; else an
\* idle connection from the pool, or a new one from DialTimeout, which may
\* fail.
Acquire(x) ==
    LET n == x[2]  g == gen[x]  new == <<n, ndial[n] + 1>> IN
    /\ pc[x] = "do"
    /\ \/ /\ g \in closing[n]
          /\ Finish(x, ErrReply)
          /\ UNCHANGED <<pool, ndial, open>>
       \/ /\ g \notin closing[n] /\ pool[<<n, g>>] # {}
          /\ \E cn \in pool[<<n, g>>] :
                /\ pool' = [pool EXCEPT ![<<n, g>>] = @ \ {cn}]
                /\ held' = [held EXCEPT ![x] = cn]
          /\ pc' = [pc EXCEPT ![x] = "write"]
          /\ UNCHANGED <<results, ndial, open>>
       \/ /\ g \notin closing[n] /\ pool[<<n, g>>] = {}
          /\ ndial' = [ndial EXCEPT ![n] = @ + 1]
          /\ open' = open \cup {new}
          /\ held' = [held EXCEPT ![x] = new]
          /\ pc' = [pc EXCEPT ![x] = "write"]
          /\ UNCHANGED <<results, pool>>
       \/ /\ Faults /\ g \notin closing[n] /\ pool[<<n, g>>] = {}
          /\ Finish(x, ErrReply)
          /\ UNCHANGED <<pool, ndial, open>>
    /\ UNCHANGED <<store, cmd, stage, reply, removed, gen, wire, ans,
                   localVars, peers, ngen, closing, rstate>>

\* Do: the command is written under the deadline; on an error the
\* connection is closed and the error returned.
Write(x) ==
    /\ pc[x] = "write"
    /\ \/ /\ wire' = [wire EXCEPT ![x] = "sent"]
          /\ pc' = [pc EXCEPT ![x] = "read"]
          /\ UNCHANGED <<held, results, open>>
       \/ /\ Faults
          /\ open' = open \ {held[x]}
          /\ Finish(x, ErrReply)
          /\ UNCHANGED wire
    /\ UNCHANGED <<store, cmd, stage, reply, removed, gen, ans, localVars,
                   peers, ngen, closing, pool, ndial, rstate>>

\* The peer node executes a command that reached it, whether or not the
\* caller still waits.  With Faults its Exec may answer with an error (its
\* own timeout or "server closed"), the command applied or not.
PeerServe(x) ==
    LET c == x[1]  n == x[2]  a == ApplyAt(cmd[c], n, store[n]) IN
    /\ wire[x] = "sent"
    /\ wire' = [wire EXCEPT ![x] = "answered"]
    /\ \/ /\ store' = [store EXCEPT ![n] = a.keys]
          /\ removed' = [removed EXCEPT ![c] = @ + Removed(cmd[c], n, store[n])]
          /\ ans' = [ans EXCEPT ![x] = a.reply]
       \/ /\ Faults
          /\ \E applied \in BOOLEAN :
                /\ store' = [store EXCEPT ![n] = IF applied THEN a.keys ELSE @]
                /\ removed' = [removed EXCEPT ![c] =
                                 @ + IF applied THEN Removed(cmd[c], n, store[n]) ELSE 0]
          /\ ans' = [ans EXCEPT ![x] = ErrReply]
    /\ UNCHANGED <<cmd, stage, reply, results, pc, gen, held, localVars,
                   peerVars, rstate>>

\* Mutant: on a read error the connection is closed but still released.
ReadKeepOnError(x) ==
    /\ pc[x] = "read"
    /\ \/ /\ wire[x] = "answered"
          /\ UNCHANGED <<open, ans>>
       \/ /\ open' = open \ {held[x]}
          /\ ans' = [ans EXCEPT ![x] = ErrReply]
    /\ pc' = [pc EXCEPT ![x] = "release"]
    /\ UNCHANGED <<store, reqVars, gen, held, wire, localVars,
                   peers, ngen, closing, pool, ndial, rstate>>

\* Mutant: the read has no deadline and waits for the peer's answer.
ReadNoDeadline(x) ==
    /\ pc[x] = "read"
    /\ wire[x] = "answered"
    /\ pc' = [pc EXCEPT ![x] = "release"]
    /\ UNCHANGED <<held, results, open>>
    /\ UNCHANGED <<store, cmd, stage, reply, removed, gen, wire, ans, localVars,
                   peers, ngen, closing, pool, ndial, rstate>>

\* Do: ReadReply returns the peer's answer once it arrived; the deadline
\* (or an I/O error) fails the read at any time, closing the connection.
Read(x) ==
    /\ pc[x] = "read"
    /\ \/ /\ wire[x] = "answered"
          /\ pc' = [pc EXCEPT ![x] = "release"]
          /\ UNCHANGED <<held, results, open>>
       \/ /\ open' = open \ {held[x]}
          /\ Finish(x, ErrReply)
    /\ UNCHANGED <<store, cmd, stage, reply, removed, gen, wire, ans, localVars,
                   peers, ngen, closing, pool, ndial, rstate>>

\* release: a closed client closes the connection; Do then returns the
\* reply.
Release(x) ==
    LET n == x[2]  g == gen[x] IN
    /\ pc[x] = "release"
    /\ \/ /\ g \in closing[n]
          /\ open' = open \ {held[x]}
          /\ Finish(x, ans[x])
       \/ /\ g \notin closing[n]
          /\ pc' = [pc EXCEPT ![x] = "push"]
          /\ UNCHANGED <<held, results, open>>
    /\ UNCHANGED <<store, cmd, stage, reply, removed, gen, wire, ans, localVars,
                   peers, ngen, closing, pool, ndial, rstate>>

\* release's second select: into the pool, or closed when the pool is full.
\* Nothing checks closing again.
Push(x) ==
    LET p == <<x[2], gen[x]>> IN
    /\ pc[x] = "push"
    /\ \/ /\ Cardinality(pool[p]) < PoolSize
          /\ pool' = [pool EXCEPT ![p] = @ \cup {held[x]}]
          /\ UNCHANGED open
       \/ /\ Cardinality(pool[p]) >= PoolSize
          /\ open' = open \ {held[x]}
          /\ UNCHANGED pool
    /\ Finish(x, ans[x])
    /\ UNCHANGED <<store, cmd, stage, reply, removed, gen, wire, ans, localVars,
                   peers, ngen, closing, ndial, rstate>>

-----------------------------------------------------------------------------
(* Router.Close                                                            *)

\* PeerClient.Close of the clients in live (<<peer, generation>> pairs):
\* closeOnce closes closing, then the pool is drained until it is empty
\* (the select's default), each idle connection closed.
PeerClientClose(live) ==
    /\ closing' = [n \in Peers |-> closing[n] \cup {g \in Gens : <<n, g>> \in live}]
    /\ pool' = [p \in DOMAIN pool |-> IF p \in live THEN {} ELSE pool[p]]
    /\ open' = open \ UNION {pool[p] : p \in live}

\* Router.Close, under peersMu: Close every PeerClient in r.peers, then
\* empty r.peers.
ClosePeers ==
    /\ rstate = "running"
    /\ PeerClientClose({<<n, peers[n]>> : n \in {m \in Peers : peers[m] # 0}})
    /\ peers' = [n \in Peers |-> 0]
    /\ rstate' = "peersClosed"
    /\ UNCHANGED <<store, reqVars, callVars, localVars, ngen, ndial>>

\* localDB.Close: close(closing) ...
LocalClose ==
    /\ rstate = "peersClosed"
    /\ lclosing' = TRUE
    /\ rstate' = "localClosing"
    /\ UNCHANGED <<store, reqVars, callVars, ops, lres, execAlive, peerVars>>

\* ... then bgWg.Wait for background() to return.
CloseDone ==
    /\ rstate = "localClosing" /\ ~execAlive
    /\ rstate' = "closed"
    /\ UNCHANGED <<store, reqVars, callVars, localVars, peerVars>>

\* Every handler has its reply and Close has returned or never started.
Quiescent ==
    /\ \A c \in Clients : stage[c] = "done"
    /\ rstate \in {"running", "closed"}
    /\ UNCHANGED vars

Next ==
    \/ \E c \in Clients : Dispatch(c) \/ Aggregate(c)
    \/ \E x \in Calls :
          \/ LocalSend(x) \/ LocalWait(x)
          \/ Lookup(x) \/ Acquire(x) \/ Write(x) \/ PeerServe(x)
          \/ Read(x) \/ Release(x) \/ Push(x)
    \/ Serve \/ ExecExit
    \/ ClosePeers \/ LocalClose \/ CloseDone
    \/ Quiescent

Spec == Init /\ [][Next]_vars

\* The handlers' goroutines are always runnable: every wait in them ends
\* by a result, by closing or by a timer (the 5 s Exec timeout, the dial
\* timeout and the connection deadline), except the send into a full
\* db.ops, which has no timer.  The local background loop is fair: it
\* receives from db.ops whenever a request is queued, and the SET and DEL
\* it executes here always return.  The peers get no fairness: a peer may
\* stop answering, and only the connection deadline ends the wait.
Fairness ==
    /\ \A c \in Clients : WF_vars(Dispatch(c)) /\ WF_vars(Aggregate(c))
    /\ \A x \in Calls :
          /\ WF_vars(LocalSend(x)) /\ WF_vars(LocalWait(x))
          /\ WF_vars(Lookup(x)) /\ WF_vars(Acquire(x)) /\ WF_vars(Write(x))
          /\ WF_vars(Read(x)) /\ WF_vars(Release(x)) /\ WF_vars(Push(x))
    /\ WF_vars(Serve)

FairSpec == Spec /\ Fairness

-----------------------------------------------------------------------------
(***************************************************************************)
(* Properties                                                             *)
(***************************************************************************)
Replies == {IntReply(i) : i \in 0..Cardinality(Keys)} \cup {OkReply, ErrReply, NoReply}

TypeOK ==
    /\ store \in [Nodes -> SUBSET Keys]
    /\ stage \in [Clients -> {"new", "fanout", "done"}]
    /\ reply \in [Clients -> Replies]
    /\ pc \in [Calls -> PCs] /\ ans \in [Calls -> Replies]
    /\ held \in [Calls -> ConnIds \cup {NoConn}]
    /\ peers \in [Peers -> {0} \cup Gens] /\ gen \in [Calls -> {0} \cup Gens]
    /\ wire \in [Calls -> {"idle", "sent", "answered"}]
    /\ open \subseteq ConnIds
    /\ pool \in [Peers \X Gens -> SUBSET ConnIds]
    /\ rstate \in {"running", "peersClosed", "localClosing", "closed"}

\* Spec 4.7 and 8: an integer reply to a DEL spanning owners is the exact
\* sum of what every owner removed for it, although other handlers delete
\* and set the same keys concurrently, Exec may time out locally, a read
\* may fail after the peer executed, and Close may run meanwhile; any
\* failed group makes the reply an error instead (execDel, router.go).
DelReplyExact ==
    \A c \in Clients : reply[c].t = "int" => reply[c].n = removed[c]

\* Spec 4.7 "on an I/O error the connection is closed instead of being
\* returned": every connection in a pool is open and held by no call, so
\* the next Do never writes on a closed or shared connection (Do, release).
PoolHoldsOpenIdleConns ==
    \A p \in DOMAIN pool :
        /\ pool[p] \subseteq open
        /\ \A x \in Calls : held[x] \notin pool[p]

\* Every handler gets a reply, with every peer free to stop answering, a
\* forward in flight when Router.Close runs, and a local request that
\* waits for room in db.ops: the read deadline of PeerClient.Do ends a
\* wait on a silent peer, and the local executor drains db.ops (execDel's
\* wg.Wait, router.go; Exec, db.go).
EveryRequestAnswered == \A c \in Clients : <>(stage[c] = "done")

=============================================================================
