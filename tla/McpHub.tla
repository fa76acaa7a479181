------------------------------- MODULE McpHub -------------------------------
(***************************************************************************)
(* One agent slot of the ringo-mcp hub (hub.rs Hub, Slot, Agent::connect): *)
(* concurrent tool calls start its worker on demand, stop it, respawn it   *)
(* after a crash, and the server's end shuts it down.                      *)
(*                                                                         *)
(* The slot's async mutex is held across the spawn of a worker.  A worker  *)
(* is reaped by the drop of its ProcessClient, which happens with the last *)
(* reference: the Agent is shared by the slot and by tool calls, and the   *)
(* bridge thread has a reference of its own until the event stream closes. *)
(***************************************************************************)
EXTENDS Naturals, FiniteSets

CONSTANTS
  Tools,       \* concurrent tool calls
  None,        \* nobody holds the slot's lock
  MaxWorkers,  \* bound: worker processes in a behaviour
  MayHang      \* whether a worker can get stuck

ASSUME McpHubAssumption ==
  /\ None \notin Tools
  /\ MaxWorkers \in Nat
  /\ MayHang \in BOOLEAN

VARIABLES
  lock,     \* the tool that holds the slot's async mutex
  slot,     \* the generation of the Agent in the slot, 0 = empty
  pc,       \* where each tool call is
  held,     \* the Agent each tool call holds, 0 = none
  gens,     \* workers spawned so far
  worker,   \* each worker process
  spawned,  \* the outcome of its ProcessClient::spawn
  told,     \* it was asked to shut down
  bridge,   \* its bridge thread
  dead,     \* AgentState.worker_dead
  dropper,  \* a blocking thread is to drop the Agent that agent_stop took out
  server    \* main(): serving, transport closed, hub shut down, runtime, exit

slots   == <<lock, slot, gens>>
tools   == <<pc, held>>
workers == <<worker, spawned, told>>
threads == <<bridge, dead, dropper>>
vars    == <<slots, tools, workers, threads, server>>

Gens == 1 .. MaxWorkers

\* Types; and the lock is held exactly by the call that spawns.
TypeOK ==
  /\ lock \in Tools \cup {None}
  /\ slot \in 0 .. MaxWorkers
  /\ pc \in [Tools -> {"idle", "get", "stop", "spawning", "use"}]
  /\ held \in [Tools -> 0 .. MaxWorkers]
  /\ gens \in 0 .. MaxWorkers
  /\ worker \in [Gens -> {"none", "boot", "up", "hung", "gone"}]
  /\ spawned \in [Gens -> {"no", "ok", "failed"}]
  /\ told \in [Gens -> BOOLEAN]
  /\ bridge \in [Gens -> {"none", "run", "ended"}]
  /\ dead \in [Gens -> BOOLEAN]
  /\ dropper \in [Gens -> BOOLEAN]
  /\ server \in {"serving", "closing", "closed", "draining", "exited"}
  /\ \A t \in Tools : lock = t <=> pc[t] = "spawning"

Init ==
  /\ lock = None
  /\ slot = 0
  /\ pc = [t \in Tools |-> "idle"]
  /\ held = [t \in Tools |-> 0]
  /\ gens = 0
  /\ worker = [g \in Gens |-> "none"]
  /\ spawned = [g \in Gens |-> "no"]
  /\ told = [g \in Gens |-> FALSE]
  /\ bridge = [g \in Gens |-> "none"]
  /\ dead = [g \in Gens |-> FALSE]
  /\ dropper = [g \in Gens |-> FALSE]
  /\ server = "serving"

\* The references that keep an Agent, and a worker's ProcessClient, alive.
Agents(g)  == slot = g \/ dropper[g] \/ \E t \in Tools : held[t] = g
Clients(g) == Agents(g) \/ bridge[g] = "run"

-----------------------------------------------------------------------------
(* Tool calls.                                                             *)

\* Tool calls run until the runtime is shut down, also while the hub closes.
Running == server \in {"serving", "closing", "closed"}

Call(t) ==
  /\ server = "serving" /\ pc[t] = "idle"
  /\ \E op \in {"get", "stop"} : pc' = [pc EXCEPT ![t] = op]
  /\ UNCHANGED <<slots, held, workers, threads, server>>

\* Hub::get on a live agent: lock, clone the Arc, unlock.
GetRunning(t) ==
  /\ Running /\ pc[t] = "get" /\ lock = None
  /\ slot # 0 /\ ~dead[slot]
  /\ held' = [held EXCEPT ![t] = slot]
  /\ pc' = [pc EXCEPT ![t] = "use"]
  /\ UNCHANGED <<slots, workers, threads, server>>

\* ... on an empty slot or a dead agent: spawn, holding the lock.  The new
\* generation is noted in `held' (the call's, from here to its return).
GetSpawn(t) ==
  /\ Running /\ pc[t] = "get" /\ lock = None
  /\ \A g \in Gens : g = slot => dead[g]
  /\ gens < MaxWorkers
  /\ lock' = t
  /\ gens' = gens + 1
  /\ worker' = [worker EXCEPT ![gens + 1] = "boot"]
  /\ held' = [held EXCEPT ![t] = gens + 1]
  /\ pc' = [pc EXCEPT ![t] = "spawning"]
  /\ UNCHANGED <<slot, spawned, told, threads, server>>

\* The awaited spawn is there: start the bridge and fill the slot.  Whatever
\* dead Agent was in the slot loses that reference.
SpawnTaken(t) ==
  /\ Running /\ pc[t] = "spawning" /\ spawned[held[t]] = "ok"
  /\ bridge' = [bridge EXCEPT ![held[t]] = "run"]
  /\ slot' = held[t]
  /\ lock' = None
  /\ pc' = [pc EXCEPT ![t] = "use"]
  /\ UNCHANGED <<gens, held, workers, dead, dropper, server>>

SpawnFailed(t) ==
  /\ Running /\ pc[t] = "spawning" /\ spawned[held[t]] = "failed"
  /\ lock' = None
  /\ held' = [held EXCEPT ![t] = 0]
  /\ pc' = [pc EXCEPT ![t] = "idle"]
  /\ UNCHANGED <<slot, gens, workers, threads, server>>

\* The tool is done with the agent.
Done(t) ==
  /\ Running /\ pc[t] = "use"
  /\ held' = [held EXCEPT ![t] = 0]
  /\ pc' = [pc EXCEPT ![t] = "idle"]
  /\ UNCHANGED <<slots, workers, threads, server>>

\* Fault: the Agent is dropped without asking its worker to go.
StopSilent(t) ==
  /\ Running /\ pc[t] = "stop" /\ lock = None
  /\ pc' = [pc EXCEPT ![t] = "idle"]
  /\ slot' = 0
  /\ dropper' = [g \in Gens |-> dropper[g] \/ g = slot]
  /\ UNCHANGED <<lock, gens, held, workers, bridge, dead, server>>

\* Hub::stop: take the Agent out of the slot, ask its worker to go, and leave
\* the reference to a blocking thread.
Stop(t) ==
  /\ Running /\ pc[t] = "stop" /\ lock = None
  /\ pc' = [pc EXCEPT ![t] = "idle"]
  /\ slot' = 0
  /\ told' = [g \in Gens |-> told[g] \/ g = slot]
  /\ dropper' = [g \in Gens |-> dropper[g] \/ g = slot]
  /\ UNCHANGED <<lock, gens, held, worker, spawned, bridge, dead, server>>

-----------------------------------------------------------------------------
(* Blocking threads: the spawn, the bridge, drops.                         *)

SpawnOk(g) ==
  /\ worker[g] = "boot"
  /\ worker' = [worker EXCEPT ![g] = "up"]
  /\ spawned' = [spawned EXCEPT ![g] = "ok"]
  /\ UNCHANGED <<slots, tools, told, threads, server>>

\* A failed spawn has killed its worker.
SpawnError(g) ==
  /\ worker[g] = "boot"
  /\ worker' = [worker EXCEPT ![g] = "gone"]
  /\ spawned' = [spawned EXCEPT ![g] = "failed"]
  /\ UNCHANGED <<slots, tools, told, threads, server>>

\* Fault: the bridge ends without a note in the agent's state.
BridgeEndUnnoted(g) ==
  /\ bridge[g] = "run" /\ worker[g] = "gone"
  /\ bridge' = [bridge EXCEPT ![g] = "ended"]
  /\ UNCHANGED <<slots, tools, workers, dead, dropper, server>>

\* The event stream closed.
BridgeEnd(g) ==
  /\ bridge[g] = "run" /\ worker[g] = "gone"
  /\ bridge' = [bridge EXCEPT ![g] = "ended"]
  /\ dead' = [dead EXCEPT ![g] = TRUE]
  /\ UNCHANGED <<slots, tools, workers, dropper, server>>

\* agent_stop's drop of the Agent.
DropAgent(g) ==
  /\ dropper[g]
  /\ dropper' = [dropper EXCEPT ![g] = FALSE]
  /\ UNCHANGED <<slots, tools, workers, bridge, dead, server>>

\* Nothing refers to the ProcessClient any more: its Drop runs, asks the worker
\* to go (once) and kills one that overstays its grace (AgentQuery's Drop).
Reap(g) ==
  /\ ~Clients(g) /\ worker[g] \in {"up", "hung"}
  /\ \/ ~told[g] /\ told' = [told EXCEPT ![g] = TRUE] /\ UNCHANGED worker
     \/ told[g] /\ worker' = [worker EXCEPT ![g] = "gone"] /\ UNCHANGED told
  /\ UNCHANGED <<slots, tools, spawned, threads, server>>

-----------------------------------------------------------------------------
(* Worker processes.                                                       *)

\* On Shutdown; or with the server's process (its stdin ends; PR_SET_PDEATHSIG).
WorkerExit(g) ==
  /\ \/ worker[g] = "up" /\ told[g]
     \/ worker[g] \in {"up", "hung"} /\ server = "exited"
  /\ worker' = [worker EXCEPT ![g] = "gone"]
  /\ UNCHANGED <<slots, tools, spawned, told, threads, server>>

WorkerCrash(g) ==
  /\ worker[g] = "up"
  /\ worker' = [worker EXCEPT ![g] = "gone"]
  /\ UNCHANGED <<slots, tools, spawned, told, threads, server>>

WorkerHang(g) ==
  /\ MayHang /\ worker[g] = "up"
  /\ worker' = [worker EXCEPT ![g] = "hung"]
  /\ UNCHANGED <<slots, tools, spawned, told, threads, server>>

-----------------------------------------------------------------------------
(* The end of the server (main.rs).                                        *)

\* The MCP client closed the transport; calls in flight go on.
ClientGone ==
  /\ server = "serving"
  /\ server' = "closing"
  /\ UNCHANGED <<slots, tools, workers, threads>>

\* Hub::shutdown: a slot whose lock is taken is skipped.
Shutdown ==
  /\ server = "closing"
  /\ told' = [g \in Gens |-> told[g] \/ (g = slot /\ lock = None)]
  /\ server' = "closed"
  /\ UNCHANGED <<slots, tools, worker, spawned, threads>>

\* Runtime::shutdown_timeout: tool calls are dropped at their next await, with
\* the lock and the references they hold; blocking threads go on.
RuntimeShutdown ==
  /\ server = "closed"
  /\ server' = "draining"
  /\ lock' = None
  /\ pc' = [t \in Tools |-> "idle"]
  /\ held' = [t \in Tools |-> 0]
  /\ UNCHANGED <<slot, gens, workers, threads>>

\* The blocking threads are done, or the 35 s are over: long enough for every
\* spawn, de-REGISTER and grace period, but not for a worker that is stuck, or
\* one that nobody told while the hub, which lives on in main(), has it.
Exit ==
  /\ server = "draining"
  /\ \A g \in Gens :
       \/ worker[g] \in {"none", "gone"}
       \/ Clients(g) /\ (worker[g] = "hung" \/ (worker[g] = "up" /\ ~told[g]))
  /\ server' = "exited"
  /\ UNCHANGED <<slots, tools, workers, threads>>

Terminated == server = "exited" /\ UNCHANGED vars
-----------------------------------------------------------------------------
Tool(t) ==
  \/ GetRunning(t) \/ GetSpawn(t) \/ SpawnTaken(t) \/ SpawnFailed(t)
  \/ Done(t) \/ Stop(t)

Thread(g) == BridgeEnd(g) \/ DropAgent(g) \/ Reap(g)

Main == Shutdown \/ RuntimeShutdown \/ Exit

Next ==
  \/ \E t \in Tools : Call(t) \/ Tool(t)
  \/ \E g \in Gens :
       \/ SpawnOk(g) \/ SpawnError(g) \/ Thread(g)
       \/ WorkerExit(g) \/ WorkerCrash(g) \/ WorkerHang(g)
  \/ ClientGone \/ Main \/ Terminated

Spec == Init /\ [][Next]_vars

\* The mutex is fair (tokio queues its waiters), threads that can run do, a
\* spawn ends by its readiness timeout, and a worker that was told to go and is
\* not stuck goes.  Calls, crashes and hangs are left to chance.
Fairness ==
  /\ \A t \in Tools : SF_vars(Tool(t))
  /\ \A g \in Gens :
       /\ WF_vars(SpawnOk(g) \/ SpawnError(g))
       /\ WF_vars(BridgeEnd(g)) /\ WF_vars(DropAgent(g)) /\ WF_vars(Reap(g))
       /\ WF_vars(WorkerExit(g))
  /\ WF_vars(Main)

FairSpec == Spec /\ Fairness
-----------------------------------------------------------------------------
\* "Concurrent calls don't double-spawn" (hub.rs 8): at any time at most one
\* worker of the agent is there that nobody has asked to go, so at most one
\* that means to keep the registration.
OneOwner ==
  Cardinality({g \in Gens : worker[g] \in {"boot", "up", "hung"} /\ ~told[g]}) <= 1

\* The worker of an agent that was stopped ends, unless it is stuck.
StoppedEnds == \A g \in Gens : dropper[g] ~> worker[g] \in {"gone", "hung"}

\* A crash is noticed: the slot does not keep a dead worker as a live agent.
CrashNoticed ==
  \A g \in Gens : (slot = g /\ worker[g] = "gone") ~> (slot # g \/ dead[g])

=============================================================================
