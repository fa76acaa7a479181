----------------------------- MODULE AgentQuery -----------------------------
(***************************************************************************)
(* The parent's handle on one agent worker process: ProcessClient          *)
(* (ringo-agent client.rs) talking over two pipes to worker.rs.            *)
(*                                                                         *)
(* Several threads of the parent call query() at once; one reader thread   *)
(* demultiplexes the worker's stdout; the worker may start badly, answer,  *)
(* hang, crash, be asked to shut down or be killed.  The pending map is    *)
(* guarded by a mutex, but the fast-path test of `dead', the allocation of *)
(* a query id, the write to stdin and the wait for the reply are not.      *)
(***************************************************************************)
EXTENDS Naturals, Sequences, FiniteSets

CONSTANTS
  Callers,      \* threads of the parent that call query()
  Kinds,        \* the kinds of Query; a reply carries the kind it answers
  None,         \* query() returned no reply
  MaxQueries,   \* bound: queries issued in a behaviour
  MaxEvents,    \* bound: events the worker pushes in a behaviour
  InCap,        \* messages the worker's stdin pipe holds
  OutCap,       \* frames the writer queue and the stdout pipe hold together
  MayHang       \* whether the worker can get stuck without exiting

ASSUME AgentQueryAssumption ==
  /\ None \notin Kinds
  /\ MaxQueries \in Nat
  /\ MaxEvents \in Nat
  /\ InCap \in Nat \ {0}
  /\ OutCap \in Nat \ {0}
  /\ MayHang \in BOOLEAN

VARIABLES
  pc,           \* where each caller is inside query()
  qid, qkind,   \* the id and the kind of each caller's current query
  chan, got,    \* its one-shot reply channel, and the value sent on it
  res,          \* what its last query() returned
  pending,      \* the pending map: [id, to] pairs, to = owner of the Sender
  locked,       \* the reader holds the pending lock across its drain
  dead,         \* the reader saw the end of the worker's stdout
  next_id,      \* the next query id
  rpc,          \* where the reader thread is
  ready_ch,     \* the readiness channel spawn() waits on
  ev_rx,        \* the consumer still holds the event receiver
  spawn,        \* the outcome of spawn()
  drop_pc,      \* where Drop is
  shutdown_sent,
  stdin,        \* control messages on their way to the worker
  out,          \* frames in the worker's writer queue and stdout pipe
  wproc,        \* the worker process
  events        \* events the worker has pushed

client == <<pc, qid, qkind, chan, got, res, pending, next_id>>
reader == <<locked, dead, rpc, ready_ch>>
owner  == <<ev_rx, spawn, drop_pc, shutdown_sent>>
worker == <<stdin, out, wproc, events>>
vars   == <<client, reader, owner, worker>>

CallerPc  == {"idle", "check", "register", "send", "wait", "expire"}
Entry     == [id : Nat, to : Callers]
ToWorker  == [type : {"query"}, id : Nat, kind : Kinds] \cup [type : {"shutdown"}]
FromWorker == [type : {"reply"}, id : Nat, kind : Kinds]
                \cup [type : {"ready", "event"}]

\* Types, and the bound on what is queued in either direction: a slow reader
\* makes the writer block, it does not make its memory grow (worker.rs 38-41).
TypeOK ==
  /\ pc \in [Callers -> CallerPc]
  /\ qid \in [Callers -> Nat]
  /\ qkind \in [Callers -> Kinds]
  /\ chan \in [Callers -> {"open", "value", "closed"}]
  /\ got \in [Callers -> Kinds]
  /\ res \in [Callers -> Kinds \cup {None}]
  /\ pending \subseteq Entry
  /\ locked \in BOOLEAN
  /\ dead \in BOOLEAN
  /\ next_id \in Nat
  /\ rpc \in {"read", "lock", "drain", "done"}
  /\ ready_ch \in {"empty", "sent", "closed"}
  /\ ev_rx \in BOOLEAN
  /\ spawn \in {"wait", "ok", "failed"}
  /\ drop_pc \in {"none", "sending", "waiting", "done"}
  /\ shutdown_sent \in BOOLEAN
  /\ stdin \in Seq(ToWorker) /\ Len(stdin) <= InCap
  /\ out \in Seq(FromWorker) /\ Len(out) <= OutCap
  /\ wproc \in {"boot", "up", "teardown", "hung", "gone"}
  /\ events \in Nat

Init ==
  /\ pc = [c \in Callers |-> "idle"]
  /\ qid = [c \in Callers |-> 0]
  /\ qkind \in [Callers -> Kinds]     \* of no meaning before the first query
  /\ chan = [c \in Callers |-> "closed"]
  /\ got = qkind
  /\ res = [c \in Callers |-> None]
  /\ pending = {}
  /\ next_id = 0
  /\ locked = FALSE
  /\ dead = FALSE
  /\ rpc = "read"
  /\ ready_ch = "empty"
  /\ ev_rx = TRUE
  /\ spawn = "wait"
  /\ drop_pc = "none"
  /\ shutdown_sent = FALSE
  /\ stdin = <<>>
  /\ out = <<>>
  /\ wproc = "boot"
  /\ events = 0

-----------------------------------------------------------------------------
(* query(): the calling thread.                                            *)

Return(c, r) ==
  /\ pc' = [pc EXCEPT ![c] = "idle"]
  /\ res' = [res EXCEPT ![c] = r]

QueryCall(c, k) ==
  /\ spawn = "ok" /\ drop_pc = "none"
  /\ pc[c] = "idle"
  /\ next_id + Cardinality({x \in Callers : pc[x] = "check"}) < MaxQueries
  /\ pc' = [pc EXCEPT ![c] = "check"]
  /\ qkind' = [qkind EXCEPT ![c] = k]
  /\ UNCHANGED <<qid, chan, got, res, pending, next_id, reader, owner, worker>>

\* Fault: the id is read but not advanced (a load in place of fetch_add).
QueryCheckSharedId(c) ==
  /\ pc[c] = "check" /\ ~dead
  /\ pc' = [pc EXCEPT ![c] = "register"]
  /\ qid' = [qid EXCEPT ![c] = next_id]
  /\ UNCHANGED <<next_id, qkind, chan, got, res, pending, reader, owner, worker>>

\* The fast path, without the lock; then fetch_add and a fresh channel.
QueryCheck(c) ==
  /\ pc[c] = "check"
  /\ \/ /\ dead
        /\ Return(c, None)
        /\ UNCHANGED <<qid, next_id>>
     \/ /\ ~dead
        /\ pc' = [pc EXCEPT ![c] = "register"]
        /\ qid' = [qid EXCEPT ![c] = next_id]
        /\ next_id' = next_id + 1
        /\ UNCHANGED res
  /\ UNCHANGED <<qkind, chan, got, pending, reader, owner, worker>>

\* Fault: no second test of dead under the lock.
QueryRegisterUnchecked(c) ==
  /\ pc[c] = "register"
  /\ ~locked
  /\ pc' = [pc EXCEPT ![c] = "send"]
  /\ pending' = pending \cup {[id |-> qid[c], to |-> c]}
  /\ chan' = [chan EXCEPT ![c] = "open"]
  /\ UNCHANGED <<qid, qkind, got, res, next_id, reader, owner, worker>>

\* HashMap::insert: it replaces (and so drops) a Sender under the same id.
Enlist(c) ==
  /\ pc' = [pc EXCEPT ![c] = "send"]
  /\ pending' = {p \in pending : p.id # qid[c]} \cup {[id |-> qid[c], to |-> c]}
  /\ chan' = [x \in Callers |->
                IF x = c THEN "open"
                ELSE IF [id |-> qid[c], to |-> x] \in pending THEN "closed"
                ELSE chan[x]]
  /\ UNCHANGED res

\* Under the pending lock: dead is tested again before the waiter goes in.
QueryRegister(c) ==
  /\ pc[c] = "register"
  /\ ~locked
  /\ \/ /\ dead
        /\ Return(c, None)
        /\ UNCHANGED <<chan, pending>>
     \/ ~dead /\ Enlist(c)
  /\ UNCHANGED <<qid, qkind, got, next_id, reader, owner, worker>>

\* write_frame on the worker's stdin: blocks while the pipe is full, fails
\* (and is only logged) once the worker has gone.
Write(m) ==
  \/ wproc = "gone" /\ UNCHANGED stdin
  \/ wproc # "gone" /\ Len(stdin) < InCap /\ stdin' = Append(stdin, m)

QuerySend(c) ==
  /\ pc[c] = "send"
  /\ Write([type |-> "query", id |-> qid[c], kind |-> qkind[c]])
  /\ pc' = [pc EXCEPT ![c] = "wait"]
  /\ UNCHANGED <<qid, qkind, chan, got, res, pending, next_id, reader, owner,
                 out, wproc, events>>

\* recv_timeout returned a value.  The typed wrapper (media_stats, ...) keeps
\* it only if it is the variant that answers its query.
QueryReply(c) ==
  /\ pc[c] = "wait" /\ chan[c] = "value"
  /\ Return(c, IF got[c] = qkind[c] THEN got[c] ELSE None)
  /\ UNCHANGED <<qid, qkind, chan, got, pending, next_id, reader, owner, worker>>

\* recv_timeout failed: the Sender was dropped, or (QueryTimeout) the time is up.
QueryClosed(c) ==
  /\ pc[c] = "wait" /\ chan[c] = "closed"
  /\ pc' = [pc EXCEPT ![c] = "expire"]
  /\ UNCHANGED <<qid, qkind, chan, got, res, pending, next_id, reader, owner, worker>>

QueryTimeout(c) ==
  /\ pc[c] = "wait" /\ chan[c] = "open"
  /\ pc' = [pc EXCEPT ![c] = "expire"]
  /\ UNCHANGED <<qid, qkind, chan, got, res, pending, next_id, reader, owner, worker>>

\* Fault: a query given up on returns the value a late reply left in the channel.
QueryExpireLate(c) ==
  /\ pc[c] = "expire"
  /\ ~locked
  /\ pending' = {p \in pending : p.id # qid[c]}
  /\ chan' = [chan EXCEPT ![c] = "closed"]
  /\ Return(c, got[c])
  /\ UNCHANGED <<qid, qkind, got, next_id, reader, owner, worker>>

\* The error branch: withdraw the waiter under the lock and return None, even
\* if the reply arrived in between.
QueryExpire(c) ==
  /\ pc[c] = "expire"
  /\ ~locked
  /\ pending' = {p \in pending : p.id # qid[c]}
  /\ chan' = [x \in Callers |->
                IF [id |-> qid[c], to |-> x] \in pending THEN "closed" ELSE chan[x]]
  /\ Return(c, None)
  /\ UNCHANGED <<qid, qkind, got, next_id, reader, owner, worker>>

-----------------------------------------------------------------------------
(* The reader thread.                                                      *)

ReadReady ==
  /\ rpc = "read" /\ out # <<>> /\ Head(out).type = "ready"
  /\ out' = Tail(out)
  /\ ready_ch' = "sent"
  /\ UNCHANGED <<client, locked, dead, rpc, owner, stdin, wproc, events>>

\* An event nobody can receive any more ends the loop.
ReadEvent ==
  /\ rpc = "read" /\ out # <<>> /\ Head(out).type = "event"
  /\ out' = Tail(out)
  /\ rpc' = IF ev_rx THEN "read" ELSE "lock"
  /\ UNCHANGED <<client, locked, dead, ready_ch, owner, stdin, wproc, events>>

\* pending.remove(reply) and the send on the waiter's channel, under the lock.
\* A reply nobody waits for (it timed out) is dropped.
ReadReply ==
  /\ rpc = "read" /\ out # <<>> /\ Head(out).type = "reply"
  /\ LET m == Head(out)
         waiting(c) == [id |-> m.id, to |-> c] \in pending
     IN  /\ pending' = {p \in pending : p.id # m.id}
         /\ chan' = [c \in Callers |-> IF waiting(c) THEN "value" ELSE chan[c]]
         /\ got' = [c \in Callers |-> IF waiting(c) THEN m.kind ELSE got[c]]
  /\ out' = Tail(out)
  /\ UNCHANGED <<pc, qid, qkind, res, next_id, reader, owner, stdin, wproc, events>>

ReadEof ==
  /\ rpc = "read" /\ out = <<>> /\ wproc = "gone"
  /\ rpc' = "lock"
  /\ UNCHANGED <<client, locked, dead, ready_ch, owner, worker>>

\* After the loop: dead is set under the pending lock ...
DrainBegin ==
  /\ rpc = "lock"
  /\ rpc' = "drain"
  /\ locked' = TRUE
  /\ dead' = TRUE
  /\ UNCHANGED <<client, ready_ch, owner, worker>>

\* Fault: the thread ends without clearing the map.
DrainEndForgetful ==
  /\ rpc = "drain"
  /\ rpc' = "done"
  /\ locked' = FALSE
  /\ ready_ch' = IF ready_ch = "empty" THEN "closed" ELSE ready_ch
  /\ UNCHANGED <<client, dead, owner, worker>>

\* ... and every waiter is released by dropping its Sender.
DrainEnd ==
  /\ rpc = "drain"
  /\ rpc' = "done"
  /\ locked' = FALSE
  /\ pending' = {}
  /\ chan' = [c \in Callers |->
                IF \E p \in pending : p.to = c THEN "closed" ELSE chan[c]]
  /\ ready_ch' = IF ready_ch = "empty" THEN "closed" ELSE ready_ch
  /\ UNCHANGED <<pc, qid, qkind, got, res, next_id, dead, owner, worker>>

-----------------------------------------------------------------------------
(* spawn(), the consumer of events, request_shutdown() and Drop.           *)

\* The process ends now: stdin is lost, and of the frames still on their way
\* only those already in the pipe (a prefix; a torn frame is an error) survive.
Killed ==
  /\ wproc' = "gone"
  /\ stdin' = <<>>
  /\ \E n \in 0 .. Len(out) : out' = SubSeq(out, 1, n)
  /\ UNCHANGED events

SpawnOk ==
  /\ spawn = "wait" /\ ready_ch = "sent"
  /\ spawn' = "ok"
  /\ UNCHANGED <<client, reader, ev_rx, drop_pc, shutdown_sent, worker>>

\* Fault: a failed spawn() returns without killing the child.
SpawnFailAlive ==
  /\ spawn = "wait" /\ ready_ch # "sent"
  /\ spawn' = "failed"
  /\ UNCHANGED <<client, reader, ev_rx, drop_pc, shutdown_sent, worker>>

\* READY_TIMEOUT passed, or the reader dropped the readiness channel.  When the
\* worker is gone before it has read its handshake the write fails and spawn()
\* returns earlier, without a reader to wait for: the same end as here, but that
\* nobody waits for the dead child, which `gone' does not tell apart.
SpawnFail ==
  /\ spawn = "wait" /\ ready_ch # "sent"
  /\ spawn' = "failed"
  /\ IF wproc = "gone" THEN UNCHANGED worker ELSE Killed
  /\ UNCHANGED <<client, reader, ev_rx, drop_pc, shutdown_sent>>

DropReceiver ==
  /\ spawn = "ok" /\ ev_rx
  /\ ev_rx' = FALSE
  /\ UNCHANGED <<client, reader, spawn, drop_pc, shutdown_sent, worker>>

RequestShutdown ==
  /\ spawn = "ok" /\ drop_pc = "none" /\ ~shutdown_sent
  /\ shutdown_sent' = TRUE
  /\ Write([type |-> "shutdown"])
  /\ UNCHANGED <<client, reader, ev_rx, spawn, drop_pc, out, wproc, events>>

\* The last reference goes: no call on the client is in progress.
DropBegin ==
  /\ spawn = "ok" /\ drop_pc = "none"
  /\ \A c \in Callers : pc[c] = "idle"
  /\ drop_pc' = "sending"
  /\ UNCHANGED <<client, reader, ev_rx, spawn, shutdown_sent, worker>>

\* Fault: Drop relies on an earlier request_shutdown() and sends nothing.
DropSendSilent ==
  /\ drop_pc = "sending"
  /\ drop_pc' = "waiting"
  /\ shutdown_sent' = TRUE
  /\ UNCHANGED <<client, reader, ev_rx, spawn, worker>>


DropSend ==
  /\ drop_pc = "sending"
  /\ drop_pc' = "waiting"
  /\ shutdown_sent' = TRUE
  /\ IF shutdown_sent THEN UNCHANGED stdin ELSE Write([type |-> "shutdown"])
  /\ UNCHANGED <<client, reader, ev_rx, spawn, out, wproc, events>>

DropReaped ==
  /\ drop_pc = "waiting" /\ wproc = "gone"
  /\ drop_pc' = "done"
  /\ UNCHANGED <<client, reader, ev_rx, spawn, shutdown_sent, worker>>

\* SHUTDOWN_GRACE is over.
DropKill ==
  /\ drop_pc = "waiting" /\ wproc # "gone"
  /\ drop_pc' = "done"
  /\ Killed
  /\ UNCHANGED <<client, reader, ev_rx, spawn, shutdown_sent>>

-----------------------------------------------------------------------------
(* The worker process.                                                     *)

\* tx.send into the bounded writer queue; once the reader has gone the writer
\* thread stops at its first failing write and what is queued goes nowhere.
Emit(m) ==
  \/ rpc # "done" /\ Len(out) < OutCap /\ out' = Append(out, m)
  \/ rpc = "done" /\ UNCHANGED out

WorkerReady ==
  /\ wproc = "boot"
  /\ wproc' = "up"
  /\ Emit([type |-> "ready"])
  /\ UNCHANGED <<client, reader, owner, stdin, events>>

WorkerEvent ==
  /\ wproc = "up" /\ events < MaxEvents
  /\ events' = events + 1
  /\ Emit([type |-> "event"])
  /\ UNCHANGED <<client, reader, owner, stdin, wproc>>

\* One query of the command loop.  If the writer is gone its reply cannot be
\* queued and the loop breaks (or the last write swallows it).
WorkerServe ==
  /\ wproc = "up" /\ stdin # <<>> /\ Head(stdin).type = "query"
  /\ stdin' = Tail(stdin)
  /\ Emit([type |-> "reply", id |-> Head(stdin).id, kind |-> Head(stdin).kind])
  /\ wproc' \in IF rpc = "done" THEN {"up", "teardown"} ELSE {"up"}
  /\ UNCHANGED <<client, reader, owner, events>>

WorkerShutdown ==
  /\ wproc = "up" /\ stdin # <<>> /\ Head(stdin).type = "shutdown"
  /\ wproc' = "teardown"
  /\ UNCHANGED <<client, reader, owner, stdin, out, events>>

\* The writer is joined before the process returns: nothing queued is lost.
WorkerExit ==
  /\ wproc = "teardown"
  /\ wproc' = "gone"
  /\ stdin' = <<>>
  /\ UNCHANGED <<client, reader, owner, out, events>>

WorkerCrash ==
  /\ wproc # "gone"
  /\ Killed
  /\ UNCHANGED <<client, reader, owner>>

WorkerHang ==
  /\ MayHang
  /\ wproc \in {"boot", "up", "teardown"}
  /\ wproc' = "hung"
  /\ UNCHANGED <<client, reader, owner, stdin, out, events>>

Terminated ==
  /\ rpc = "done"
  /\ spawn = "failed" \/ drop_pc = "done"
  /\ UNCHANGED vars

-----------------------------------------------------------------------------
QueryStep(c) ==
  \/ \E k \in Kinds : QueryCall(c, k)
  \/ QueryCheck(c) \/ QueryRegister(c) \/ QuerySend(c)
  \/ QueryReply(c) \/ QueryClosed(c) \/ QueryTimeout(c) \/ QueryExpire(c)

Reader == ReadReady \/ ReadEvent \/ ReadReply \/ ReadEof \/ DrainBegin \/ DrainEnd

Owner ==
  \/ SpawnOk \/ SpawnFail \/ DropReceiver \/ RequestShutdown
  \/ DropBegin \/ DropSend \/ DropReaped \/ DropKill

Worker ==
  \/ WorkerReady \/ WorkerEvent \/ WorkerServe \/ WorkerShutdown
  \/ WorkerExit \/ WorkerCrash \/ WorkerHang

Next == (\E c \in Callers : QueryStep(c)) \/ Reader \/ Owner \/ Worker \/ Terminated

Spec == Init /\ [][Next]_vars

(***************************************************************************)
(* Fairness.  Every thread that can run eventually does; the worker's      *)
(* command loop makes progress unless it hangs.  Time passes too, but the  *)
(* three timeouts are relied on only against a hung worker: a spawn, a     *)
(* query or a drop that waits on a live or a dead one must end without.    *)
(***************************************************************************)
Fairness ==
  /\ \A c \in Callers :
       /\ WF_vars(QueryCheck(c) \/ QueryRegister(c) \/ QuerySend(c)
                    \/ QueryReply(c) \/ QueryClosed(c) \/ QueryExpire(c))
       /\ WF_vars(wproc = "hung" /\ QueryTimeout(c))
  /\ WF_vars(Reader)
  /\ WF_vars(SpawnOk)
  /\ WF_vars(ready_ch = "closed" /\ SpawnFail)
  /\ WF_vars(wproc = "hung" /\ SpawnFail)
  /\ WF_vars(DropSend \/ DropReaped)
  /\ WF_vars(wproc = "hung" /\ DropKill)
  /\ WF_vars(WorkerReady \/ WorkerServe \/ WorkerShutdown \/ WorkerExit)

FairSpec == Spec /\ Fairness
-----------------------------------------------------------------------------
(* Properties.                                                             *)

\* Once the reader has drained, no query waits on a channel nobody will ever
\* answer or close: the race of query() with the death of the worker is shut
\* by the second test of `dead' under the pending lock (client.rs 321-331).
NoStrandedQuery ==
  dead /\ ~locked =>
    \A c \in Callers : pc[c] \in {"send", "wait"} => chan[c] # "open"

\* A reply is handed to the query it answers, whatever timed out, was
\* withdrawn or was asked concurrently before: ids are never shared.
RepliesMatch ==
  \A c \in Callers : pc[c] = "wait" /\ chan[c] = "value" => got[c] = qkind[c]

\* The pending map holds the waiters of queries in progress and nothing else:
\* a query that timed out leaves no entry behind.
PendingIsLive ==
  \A p \in pending :
    pc[p.to] \in {"send", "wait", "expire"} /\ qid[p.to] = p.id /\ chan[p.to] = "open"

\* However spawn() fails and however the client is dropped, no worker process
\* is left running (a still-registered agent would go on taking calls).
NoProcessLeftBehind ==
  spawn = "failed" \/ drop_pc = "done" => wproc = "gone"

\* The one thing no timeout covers: a message to a worker that hangs, behind a
\* stdin pipe that is full.
PipeStuck == wproc = "hung" /\ Len(stdin) = InCap

\* Every query returns.  Only a hung worker costs it its timeout: the worker's
\* death, its shutdown or a full pipe in either direction never do.
QueryReturns == \A c \in Callers : pc[c] = "check" ~> pc[c] = "idle" \/ PipeStuck

\* "Dropping it deregisters and reaps the worker" (client.rs 79-80), and kills
\* it only if it hangs.
DropReaps == drop_pc = "sending" ~> wproc = "gone" \/ PipeStuck

\* The client keeps the promise of AgentRpc.
doomed(c) ==
  dead /\ \/ pc[c] \in {"check", "register", "expire"}
          \/ pc[c] \in {"send", "wait"} /\ chan[c] = "closed"

Rpc == INSTANCE AgentRpc WITH
  phase  <- [c \in Callers |->
               IF pc[c] = "idle" THEN "idle" ELSE IF doomed(c) THEN "doomed" ELSE "asked"],
  asked  <- qkind,
  answer <- res,
  lost   <- dead

RefinesRpc == Rpc!Spec
=============================================================================
