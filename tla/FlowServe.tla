----------------------------- MODULE FlowServe ------------------------------
(***************************************************************************)
(* The monitor server `ringo-flow serve' (serve/{mod,api,runner,metrics}): *)
(* cron schedulers and POST /run put requests in one bounded queue, one    *)
(* worker takes them, runs each as a child process under a timeout, folds  *)
(* the child's NDJSON lines into an outcome, records it and replies.       *)
(*                                                                         *)
(* The senders blocked on a full queue, which tokio serves in turn, are    *)
(* the elements of `queue' beyond the first QueueSize.                     *)
(***************************************************************************)
EXTENDS Naturals, Sequences, FiniteSets

CONSTANTS
  Clients,    \* callers of POST /run, one request each
  Monitors,   \* configured monitors
  Scheduled,  \* those with a cron schedule
  Scenarios,  \* scenarios the children report on
  QueueSize,  \* capacity of the queue (64)
  MaxTicks,   \* bound: cron occurrences in a behaviour
  MaxLines    \* bound: NDJSON lines of one child

ASSUME FlowServeAssumption ==
  /\ Scheduled \subseteq Monitors /\ Clients \cap Monitors = {}
  /\ QueueSize \in Nat \ {0}
  /\ MaxTicks \in Nat /\ MaxLines \in Nat

VARIABLES
  client,     \* each caller: idle, its request under way, or how it ended
  asked,      \* the monitor it asked for, and whether it waits for the result
  cron,       \* each scheduler: asleep or sending
  ticks,      \* cron occurrences so far
  queue,      \* requests in the queue, then those whose send() waits
  worker,     \* where the worker is
  request,    \* the request it runs
  run,        \* how many it has run
  alive,      \* child processes, by the number of their run
  status,     \* whether the last child to end exited with 0
  pipe,       \* lines of its stdout that were not read yet
  output,     \* its stdout or stderr is open, in it or in a worker it started
  lines,      \* how many it has written
  timed_out,  \* whether the timeout of the current run went off
  collected,  \* Collected: what the lines read so far say of each scenario
  store,      \* MetricsStore
  accepted    \* history: requests sent per monitor, and not withdrawn

senders == <<client, asked, cron, ticks, accepted>>
child   == <<alive, status, pipe, output, lines>>
serving == <<senders, queue, worker, request, run, child, timed_out, collected, store>>

None == [monitor |-> "none", sender |-> "none", respond |-> FALSE]
Request == [monitor : Monitors, sender : Clients \cup Monitors, respond : BOOLEAN]
Call == [monitor : Monitors, run_async : BOOLEAN]
NotAsked == [monitor |-> "none", run_async |-> FALSE]
Line == [event : {"metric"}, scenario : Scenarios]
          \cup [event : {"scenario_finished"}, scenario : Scenarios, passed : BOOLEAN]

\* What is known of a scenario: nothing, that it ran, or how it ended.
Collection == [Scenarios -> {"absent", "noted", "passed", "failed"}]
Nothing == [s \in Scenarios |-> "absent"]

MaxRuns == Cardinality(Clients) + MaxTicks

\* The types; and beyond its capacity the queue holds only what senders that
\* still wait brought.
TypeOK ==
  /\ client \in [Clients -> {"idle", "sent", "gone", "accepted", "ok", "bad"}]
  /\ asked \in [Clients -> Call \cup {NotAsked}]
  /\ cron \in [Scheduled -> {"sleep", "send"}]
  /\ ticks \in 0 .. MaxTicks
  /\ queue \in Seq(Request)
  /\ Len(queue) <= QueueSize + Cardinality({c \in Clients : client[c] = "sent"})
                             + Cardinality({m \in Scheduled : cron[m] = "send"})
  /\ worker \in {"recv", "spawn", "wait", "collect", "kill", "record", "reply"}
  /\ request \in Request \cup {None}
  /\ run \in 0 .. MaxRuns
  /\ alive \subseteq 1 .. MaxRuns
  /\ status \in BOOLEAN /\ timed_out \in BOOLEAN
  /\ pipe \in Seq(Line) /\ output \in BOOLEAN
  /\ lines \in 0 .. MaxLines
  /\ collected \in Collection
  /\ \A m \in Monitors :
       /\ {store[m].runs_pass, store[m].runs_fail, store[m].runs_timeout} \subseteq 0 .. MaxRuns
       /\ store[m].last_success \in BOOLEAN
       /\ store[m].scenarios \in Collection
  /\ accepted \in [Monitors -> 0 .. MaxRuns]

ServeInit ==
  /\ client = [c \in Clients |-> "idle"]
  /\ asked = [c \in Clients |-> NotAsked]
  /\ cron = [m \in Scheduled |-> "sleep"]
  /\ ticks = 0
  /\ queue = <<>>
  /\ worker = "recv" /\ request = None /\ run = 0
  /\ alive = {} /\ status = FALSE
  /\ pipe = <<>> /\ output = FALSE /\ lines = 0
  /\ timed_out = FALSE
  /\ collected = Nothing
  /\ store = [m \in Monitors |->
       [runs_pass |-> 0, runs_fail |-> 0, runs_timeout |-> 0,
        last_success |-> FALSE, scenarios |-> Nothing]]
  /\ accepted = [m \in Monitors |-> 0]
-----------------------------------------------------------------------------
(* Callers and schedulers.                                                 *)

Blocked(x) == \E i \in QueueSize + 1 .. Len(queue) : queue[i].sender = x

Enqueue(m, x, respond) ==
  /\ queue' = Append(queue, [monitor |-> m, sender |-> x, respond |-> respond])
  /\ accepted' = [accepted EXCEPT ![m] = @ + 1]

\* run_handler, for a monitor that exists.
Post(c, call) ==
  /\ client[c] = "idle"
  /\ client' = [client EXCEPT ![c] = "sent"]
  /\ asked' = [asked EXCEPT ![c] = call]
  /\ Enqueue(call.monitor, c, ~call.run_async)
  /\ UNCHANGED <<cron, ticks, worker, request, run, child, timed_out, collected, store>>

\* `?async=true': 202 once the request is in the queue.
Accepted(c) ==
  /\ client[c] = "sent" /\ asked[c].run_async /\ ~Blocked(c)
  /\ client' = [client EXCEPT ![c] = "accepted"]
  /\ UNCHANGED <<asked, cron, ticks, accepted, queue, worker, request, run,
                 child, timed_out, collected, store>>

\* The caller hangs up: its handler is dropped, and with it a send() that waits.
Disconnect(c) ==
  LET mine == {i \in QueueSize + 1 .. Len(queue) : queue[i].sender = c} IN
  /\ client[c] = "sent"
  /\ client' = [client EXCEPT ![c] = "gone"]
  /\ IF mine = {}
     THEN UNCHANGED <<queue, accepted>>
     ELSE \E i \in mine :
            /\ queue' = SubSeq(queue, 1, i - 1) \o SubSeq(queue, i + 1, Len(queue))
            /\ accepted' = [accepted EXCEPT ![asked[c].monitor] = @ - 1]
  /\ UNCHANGED <<asked, cron, ticks, worker, request, run, child, timed_out, collected, store>>

\* scheduler(): an occurrence; it sleeps again when the queue has taken it.
Tick(m) ==
  /\ cron[m] = "sleep" /\ ticks < MaxTicks
  /\ ticks' = ticks + 1
  /\ cron' = [cron EXCEPT ![m] = "send"]
  /\ Enqueue(m, m, FALSE)
  /\ UNCHANGED <<client, asked, worker, request, run, child, timed_out, collected, store>>

TickSent(m) ==
  /\ cron[m] = "send" /\ ~Blocked(m)
  /\ cron' = [cron EXCEPT ![m] = "sleep"]
  /\ UNCHANGED <<client, asked, ticks, accepted, queue, worker, request, run,
                 child, timed_out, collected, store>>
-----------------------------------------------------------------------------
(* The child process.                                                      *)

\* Collected::fold_line.
FoldLine(report, line) ==
  [report EXCEPT ![line.scenario] =
     IF line.event = "metric" THEN (IF @ = "absent" THEN "noted" ELSE @)
     ELSE IF line.passed THEN "passed" ELSE "failed"]

ChildLine(line) ==
  /\ run \in alive /\ lines < MaxLines
  /\ lines' = lines + 1
  /\ pipe' = Append(pipe, line)
  /\ UNCHANGED <<senders, queue, worker, request, run, alive, status, output,
                 timed_out, collected, store>>

ChildExit(ok) ==
  /\ run \in alive
  /\ alive' = alive \ {run}
  /\ status' = ok
  /\ UNCHANGED <<senders, queue, worker, request, run, pipe, output, lines,
                 timed_out, collected, store>>

\* Its agents' workers inherit its stderr (ringo-agent client.rs 108) and may
\* hold it a while longer, or for good.
OutputEnds ==
  /\ output /\ run \notin alive
  /\ output' = FALSE
  /\ UNCHANGED <<senders, queue, worker, request, run, alive, status, pipe, lines,
                 timed_out, collected, store>>
-----------------------------------------------------------------------------
(* The worker, runner::run and its two collector tasks.                    *)

WorkerRecv ==
  /\ worker = "recv" /\ queue # <<>>
  /\ request' = Head(queue)
  /\ queue' = Tail(queue)
  /\ run' = run + 1
  /\ worker' = "spawn"
  /\ UNCHANGED <<senders, child, timed_out, collected, store>>

Spawn ==
  /\ worker = "spawn"
  /\ alive' = alive \cup {run}
  /\ output' = TRUE
  /\ worker' = "wait"
  /\ UNCHANGED <<senders, queue, request, run, status, pipe, lines,
                 timed_out, collected, store>>

SpawnError ==
  /\ worker = "spawn"
  /\ worker' = "record"
  /\ UNCHANGED <<senders, queue, request, run, child, timed_out, collected, store>>

\* collect(): reads as soon as there is something to read.
CollectLine ==
  /\ worker \in {"wait", "collect"} /\ pipe # <<>>
  /\ pipe' = Tail(pipe)
  /\ collected' = FoldLine(collected, Head(pipe))
  /\ UNCHANGED <<senders, queue, worker, request, run, alive, status, output,
                 lines, timed_out, store>>

\* timeout(child.wait()): the child has ended, or the time is up.
Waited ==
  /\ worker = "wait" /\ run \notin alive
  /\ worker' = "collect"
  /\ UNCHANGED <<senders, queue, request, run, child, timed_out, collected, store>>

\* Fault: a run that timed out is reported and its child left alone.
TimeoutLeave ==
  /\ worker = "wait" /\ run \in alive
  /\ timed_out' = TRUE
  /\ worker' = "record"
  /\ UNCHANGED <<senders, queue, request, run, child, collected, store>>

Timeout ==
  /\ worker = "wait" /\ run \in alive
  /\ timed_out' = TRUE
  /\ worker' = "collect"
  /\ UNCHANGED <<senders, queue, request, run, child, collected, store>>

\* collector.await, errors.await: the end of the child's output, without a bound
\* and before the kill, even when the time is up.
CollectEnd ==
  /\ worker = "collect" /\ pipe = <<>> /\ ~output
  /\ worker' = IF timed_out THEN "kill" ELSE "record"
  /\ UNCHANGED <<senders, queue, request, run, child, timed_out, collected, store>>

Kill ==
  /\ worker = "kill"
  /\ alive' = alive \ {run}
  /\ worker' = "record"
  /\ UNCHANGED <<senders, queue, request, run, status, pipe, output, lines,
                 timed_out, collected, store>>

Passed == status /\ ~timed_out

\* Collected::into_scenarios.
IntoScenarios(report, overall) ==
  [s \in Scenarios |->
     IF report[s] # "noted" THEN report[s] ELSE IF overall THEN "passed" ELSE "failed"]

\* Fault: a timeout is counted instead of a failure.
RecordTimeoutOnly ==
  /\ worker = "record"
  /\ store' = [store EXCEPT ![request.monitor] =
       [runs_pass    |-> IF Passed THEN @.runs_pass + 1 ELSE @.runs_pass,
        runs_fail    |-> IF Passed \/ timed_out THEN @.runs_fail ELSE @.runs_fail + 1,
        runs_timeout |-> IF timed_out THEN @.runs_timeout + 1 ELSE @.runs_timeout,
        last_success |-> Passed,
        scenarios    |-> IntoScenarios(collected, Passed)]]
  /\ worker' = "reply"
  /\ UNCHANGED <<senders, queue, request, run, child, timed_out, collected>>

\* MetricsStore::record.
Record ==
  /\ worker = "record"
  /\ store' = [store EXCEPT ![request.monitor] =
       [runs_pass    |-> IF Passed THEN @.runs_pass + 1 ELSE @.runs_pass,
        runs_fail    |-> IF Passed THEN @.runs_fail ELSE @.runs_fail + 1,
        runs_timeout |-> IF timed_out THEN @.runs_timeout + 1 ELSE @.runs_timeout,
        last_success |-> Passed,
        scenarios    |-> IntoScenarios(collected, Passed)]]
  /\ worker' = "reply"
  /\ UNCHANGED <<senders, queue, request, run, child, timed_out, collected>>

\* The locals of a run end with it.
Forget ==
  /\ request' = None
  /\ collected' = Nothing
  /\ pipe' = <<>> /\ output' = FALSE /\ lines' = 0 /\ status' = FALSE
  /\ timed_out' = FALSE

\* Fault: nobody is told of a run that timed out.
ReplyInTime ==
  /\ worker = "reply"
  /\ worker' = "recv"
  /\ client' = IF request.respond /\ ~timed_out
                 THEN [client EXCEPT ![request.sender] = IF Passed THEN "ok" ELSE "bad"]
                 ELSE client
  /\ Forget
  /\ UNCHANGED <<asked, cron, ticks, accepted, queue, run, alive, store>>

\* 200 or 502 for a caller that still waits.
Reply ==
  /\ worker = "reply"
  /\ worker' = "recv"
  /\ IF request.respond /\ client[request.sender] = "sent"
     THEN client' = [client EXCEPT ![request.sender] = IF Passed THEN "ok" ELSE "bad"]
     ELSE UNCHANGED client
  /\ Forget
  /\ UNCHANGED <<asked, cron, ticks, accepted, queue, run, alive, store>>
-----------------------------------------------------------------------------
Worker ==
  \/ WorkerRecv \/ Spawn \/ SpawnError \/ Waited \/ Timeout \/ CollectEnd
  \/ Kill \/ Record \/ Reply

ServeNext ==
  \/ \E c \in Clients : (\E call \in Call : Post(c, call)) \/ Accepted(c) \/ Disconnect(c)
  \/ \E m \in Scheduled : Tick(m) \/ TickSent(m)
  \/ (\E line \in Line : ChildLine(line)) \/ (\E ok \in BOOLEAN : ChildExit(ok))
  \/ OutputEnds \/ CollectLine \/ Worker

\* tokio runs every task that can go on, and the timer goes off.  Nothing is
\* assumed of the children: they may run, or hold their output, for ever.
ServeFairness ==
  /\ WF_serving(Worker) /\ WF_serving(CollectLine)
  /\ \A c \in Clients : WF_serving(Accepted(c))
  /\ \A m \in Scheduled : WF_serving(TickSent(m))

ServeSpec == ServeInit /\ [][ServeNext]_serving /\ ServeFairness
-----------------------------------------------------------------------------
Waiting(m) == {i \in DOMAIN queue : queue[i].monitor = m}
Running(m) == worker \notin {"recv", "reply"} /\ request.monitor = m

\* Runs are serialised (mod.rs 9-10): two at once would collide.
Serialised ==
  /\ alive \subseteq {run}
  /\ alive # {} => worker \in {"wait", "collect", "kill"}

\* No request is lost or counted twice: those sent are in the queue, running, or
\* in the counters as passed or failed, and a timeout is a failure.
Ledger ==
  \A m \in Monitors :
    /\ accepted[m] = store[m].runs_pass + store[m].runs_fail + Cardinality(Waiting(m))
                       + (IF Running(m) THEN 1 ELSE 0)
    /\ store[m].runs_timeout <= store[m].runs_fail

\* A child is over its time, or gone, and its output is still open.
Hung == worker = "collect" /\ output

\* Every caller is answered, also of a child that never ends by itself, as long
\* as no output stays open for ever.  That case is excepted, not assumed away: the
\* worker then hangs before its kill, against "kill the child, keep serving"
\* (runner.rs 8-9).
Answered == <>[]Hung \/ \A c \in Clients : client[c] = "sent" ~> client[c] # "sent"

=============================================================================
