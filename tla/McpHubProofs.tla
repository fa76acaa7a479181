---------------------------- MODULE McpHubProofs ----------------------------
(***************************************************************************)
(* No two workers of one agent mean to stay, for any number of tool calls  *)
(* and of workers (OneOwner of McpHub).                                    *)
(*                                                                         *)
(* While tool calls run, a worker that nobody has asked to go is the one   *)
(* in the slot or the one whose spawn holds the lock; the spawn only       *)
(* begins on a slot that is empty or whose worker is gone, so the two do   *)
(* not meet.  Once the runtime goes down no worker is spawned any more.    *)
(***************************************************************************)
EXTENDS McpHub, FiniteSetTheorems, TLAPS

Own(g) == worker[g] \in {"boot", "up", "hung"} /\ ~ told[g]

\* The holder of the lock is the call that spawns, and notes what it spawns.
Locked ==
  /\ lock \in Tools \cup {None}
  /\ \A t \in Tools : lock = t <=> pc[t] = "spawning"
  /\ \A t \in Tools : pc[t] = "spawning" => held[t] \in 1 .. gens

Types ==
  /\ slot \in 0 .. gens
  /\ pc \in [Tools -> {"idle", "get", "stop", "spawning", "use"}]
  /\ held \in [Tools -> 0 .. MaxWorkers]
  /\ gens \in 0 .. MaxWorkers
  /\ worker \in [Gens -> {"none", "boot", "up", "hung", "gone"}]
  /\ spawned \in [Gens -> {"no", "ok", "failed"}]
  /\ told \in [Gens -> BOOLEAN]
  /\ dead \in [Gens -> BOOLEAN]

\* What is noted of a worker is true of it for good.
Noted ==
  \A g \in Gens : /\ g > gens => worker[g] = "none"
                  /\ dead[g] \/ spawned[g] = "failed" => worker[g] = "gone"

Owned ==
  /\ lock # None => \A g \in Gens : g = slot => dead[g]
  /\ Running => \A g \in Gens : Own(g) => slot = g \/ \E t \in Tools : lock = t /\ held[t] = g

AtMostOne == \A g, h \in Gens : Own(g) /\ Own(h) => g = h

IInv == Types /\ Locked /\ Noted /\ Owned /\ AtMostOne

-----------------------------------------------------------------------------
LEMMA InitIInv == Init => IInv
BY McpHubAssumption DEF Init, IInv, Types, Locked, Noted, Owned, AtMostOne, Own, Gens

\* The tools, the slot and the lock are as they were, and no worker is one that
\* means to stay unless it was: the argument is not disturbed.
LEMMA Fewer ==
  ASSUME IInv, UNCHANGED <<slots, tools>>, Running' => Running,
         Types', Noted',
         \A g \in Gens : dead[g] => dead'[g],
         \A g \in Gens : Own(g)' => Own(g)
  PROVE  IInv'
<1>1. Locked'
  BY DEF IInv, Locked, slots, tools
<1>2. Owned'
  BY DEF IInv, Owned, slots, tools
<1>3. AtMostOne'
  BY DEF IInv, AtMostOne
<1>4. QED
  BY <1>1, <1>2, <1>3 DEF IInv

\* A call that begins or ends, or takes the running agent.
LEMMA ToolSteps ==
  ASSUME IInv, NEW t \in Tools, Call(t) \/ GetRunning(t) \/ Done(t)
  PROVE  IInv'
<1>1. lock # t /\ pc' \in [Tools -> {"idle", "get", "stop", "spawning", "use"}]
      /\ \A x \in Tools : pc'[x] = "spawning" <=> pc[x] = "spawning"
  BY DEF IInv, Locked, Types, Call, GetRunning, Done
<1>m. slot \in 0 .. MaxWorkers /\ 0 \in 0 .. MaxWorkers
  BY McpHubAssumption DEF IInv, Types
<1>2. held' \in [Tools -> 0 .. MaxWorkers] /\ \A x \in Tools \ {t} : held'[x] = held[x]
  BY <1>m DEF IInv, Types, Call, GetRunning, Done, tools
<1>3. UNCHANGED <<slots, workers, bridge, dead, server>>
  BY DEF Call, GetRunning, Done, threads
<1>4. QED
  BY <1>1, <1>2, <1>3
  DEF IInv, Types, Locked, Noted, Owned, AtMostOne, Own, Running, slots, workers

LEMMA GetSpawnStep ==
  ASSUME IInv, NEW t \in Tools, GetSpawn(t)
  PROVE  IInv'
<1> DEFINE n == gens + 1
<1>n. n \in Gens /\ n \in 1 .. gens' /\ gens' = n /\ worker[n] = "none"
      /\ ~ dead[n] /\ spawned[n] # "failed"
  BY McpHubAssumption DEF GetSpawn, IInv, Types, Noted, Gens
<1>s. /\ UNCHANGED <<slot, spawned, told, dead, server>> /\ Running
      /\ lock = None /\ lock' = t
      /\ worker' = [worker EXCEPT ![n] = "boot"]
      /\ held' = [held EXCEPT ![t] = n]
      /\ pc' = [pc EXCEPT ![t] = "spawning"]
      /\ \A g \in Gens : g = slot => dead[g]
  BY DEF GetSpawn, threads
<1>o. \A g \in Gens : ~ Own(g)
  BY <1>s, McpHubAssumption DEF IInv, Owned, Own, Noted, Types
<1>1. Types'
  BY <1>n, <1>s DEF IInv, Types, Gens
<1>2. Locked'
  BY <1>n, <1>s, McpHubAssumption DEF IInv, Types, Locked
<1>3. Noted'
  <2>1. ASSUME NEW g \in Gens
        PROVE  /\ g > gens' => worker'[g] = "none"
               /\ dead'[g] \/ spawned'[g] = "failed" => worker'[g] = "gone"
    <3>1. CASE g = n
      BY <3>1, <1>n, <1>s DEF IInv, Types
    <3>2. CASE g # n
      <4>1. worker'[g] = worker[g] /\ dead'[g] = dead[g] /\ spawned'[g] = spawned[g]
        BY <3>2, <1>s DEF IInv, Types
      <4>2. g > gens' => g > gens
        BY <1>n DEF IInv, Types, Gens
      <4>3. QED
        BY <4>1, <4>2 DEF IInv, Noted
    <3>3. QED
      BY <3>1, <3>2
  <2>2. QED
    BY <2>1 DEF Noted
<1>g. \A g \in Gens : Own(g)' => g = n
  BY <1>s, <1>o DEF IInv, Types, Own
<1>4. Owned'
  <2>1. lock'  = t /\ held'[t] = n
    BY <1>s DEF IInv, Types
  <2>2. QED
    BY <2>1, <1>g, <1>s DEF Owned
<1>5. AtMostOne'
  BY <1>g DEF AtMostOne
<1>6. QED
  BY <1>1, <1>2, <1>3, <1>4, <1>5 DEF IInv

LEMMA SpawnTakenStep ==
  ASSUME IInv, NEW t \in Tools, SpawnTaken(t)
  PROVE  IInv'
<1>s. /\ UNCHANGED <<gens, held, worker, spawned, told, dead, server>> /\ Running
      /\ slot' = held[t] /\ lock' = None /\ pc' = [pc EXCEPT ![t] = "use"]
      /\ pc[t] = "spawning"
  BY DEF SpawnTaken, workers
<1>l. lock = t /\ held[t] \in 1 .. gens
  BY <1>s DEF IInv, Locked
<1>1. Types'
  BY <1>s, <1>l DEF IInv, Types
<1>2. Locked'
  BY <1>s, <1>l, McpHubAssumption DEF IInv, Types, Locked
<1>3. Noted'
  BY <1>s DEF IInv, Noted
<1>4. Owned'
  <2>1. ASSUME NEW g \in Gens, Own(g)'  PROVE slot' = g
    <3>1. Own(g)
      BY <2>1, <1>s DEF Own
    <3>2. slot # g
      BY <3>1, <1>l, McpHubAssumption DEF IInv, Owned, Noted, Own, Types
    <3>3. \E x \in Tools : lock = x /\ held[x] = g
      BY <3>1, <3>2, <1>s DEF IInv, Owned
    <3>4. QED
      BY <3>3, <1>l, <1>s
  <2>2. QED
    BY <2>1, <1>s DEF Owned
<1>5. AtMostOne'
  BY <1>s DEF IInv, AtMostOne, Own
<1>6. QED
  BY <1>1, <1>2, <1>3, <1>4, <1>5 DEF IInv

LEMMA SpawnFailedStep ==
  ASSUME IInv, NEW t \in Tools, SpawnFailed(t)
  PROVE  IInv'
<1>s. /\ UNCHANGED <<slot, gens, worker, spawned, told, dead, server>> /\ Running
      /\ held' = [held EXCEPT ![t] = 0] /\ lock' = None /\ pc' = [pc EXCEPT ![t] = "idle"]
      /\ pc[t] = "spawning" /\ spawned[held[t]] = "failed"
  BY DEF SpawnFailed, workers, threads
<1>l. lock = t /\ held[t] \in Gens
  BY <1>s DEF IInv, Locked, Types, Gens
<1>1. Types'
  BY <1>s, McpHubAssumption DEF IInv, Types
<1>2. Locked'
  BY <1>s, <1>l, McpHubAssumption DEF IInv, Types, Locked
<1>3. Noted'
  BY <1>s DEF IInv, Noted
<1>4. Owned'
  <2>1. ASSUME NEW g \in Gens, Own(g)'  PROVE slot' = g
    <3>1. Own(g)
      BY <2>1, <1>s DEF Own
    <3>2. g # held[t]
      BY <3>1, <1>l, <1>s DEF IInv, Noted, Own
    <3>3. QED
      BY <3>1, <3>2, <1>l, <1>s DEF IInv, Owned
  <2>2. QED
    BY <2>1, <1>s DEF Owned
<1>5. AtMostOne'
  BY <1>s DEF IInv, AtMostOne, Own
<1>6. QED
  BY <1>1, <1>2, <1>3, <1>4, <1>5 DEF IInv

LEMMA StopStep ==
  ASSUME IInv, NEW t \in Tools, Stop(t)
  PROVE  IInv'
<1>s. /\ UNCHANGED <<lock, gens, held, worker, spawned, dead, server>> /\ Running
      /\ lock = None /\ slot' = 0 /\ pc[t] = "stop" /\ pc' = [pc EXCEPT ![t] = "idle"]
      /\ told' = [g \in Gens |-> told[g] \/ g = slot]
  BY DEF Stop
<1>o. \A g \in Gens : Own(g) => slot = g
  BY <1>s, McpHubAssumption DEF IInv, Owned
<1>g. \A g \in Gens : ~ Own(g)'
  BY <1>s, <1>o DEF Own
<1>1. Types'
  BY <1>s, McpHubAssumption DEF IInv, Types
<1>2. Locked'
  BY <1>s DEF IInv, Types, Locked
<1>3. Noted'
  BY <1>s DEF IInv, Noted
<1>4. Owned' /\ AtMostOne'
  BY <1>s, <1>g DEF Owned, AtMostOne
<1>5. QED
  BY <1>1, <1>2, <1>3, <1>4 DEF IInv

\* Blocking threads and worker processes.
LEMMA WorkerSteps ==
  ASSUME IInv, NEW g \in Gens,
         \/ SpawnOk(g) \/ SpawnError(g) \/ Thread(g)
         \/ WorkerExit(g) \/ WorkerCrash(g) \/ WorkerHang(g)
  PROVE  IInv'
<1>1. UNCHANGED <<slots, tools, server>>
  BY DEF SpawnOk, SpawnError, Thread, BridgeEnd, DropAgent, Reap, WorkerExit, WorkerCrash,
    WorkerHang
<1>2. CASE SpawnOk(g)
  <2>1. Types' /\ Noted' /\ \A h \in Gens : (dead[h] => dead'[h]) /\ (Own(h)' => Own(h))
    BY <1>1, <1>2 DEF SpawnOk, IInv, Types, Noted, Own, slots, tools, threads
  <2>2. QED
    BY <1>1, <2>1, Fewer DEF Running
<1>3. CASE SpawnError(g)
  <2>1. Types' /\ Noted' /\ \A h \in Gens : (dead[h] => dead'[h]) /\ (Own(h)' => Own(h))
    BY <1>1, <1>3 DEF SpawnError, IInv, Types, Noted, Own, slots, tools, threads
  <2>2. QED
    BY <1>1, <2>1, Fewer DEF Running
<1>4. CASE BridgeEnd(g) \/ DropAgent(g)
  <2>1. Types' /\ Noted' /\ \A h \in Gens : (dead[h] => dead'[h]) /\ (Own(h)' => Own(h))
    BY <1>1, <1>4 DEF BridgeEnd, DropAgent, IInv, Types, Noted, Own, slots, tools, workers
  <2>2. QED
    BY <1>1, <2>1, Fewer DEF Running
<1>5. CASE Reap(g)
  <2>1. Types' /\ Noted' /\ \A h \in Gens : (dead[h] => dead'[h]) /\ (Own(h)' => Own(h))
    BY <1>1, <1>5 DEF Reap, IInv, Types, Noted, Own, slots, tools, threads
  <2>2. QED
    BY <1>1, <2>1, Fewer DEF Running
<1>6. CASE WorkerExit(g) \/ WorkerCrash(g) \/ WorkerHang(g)
  <2>1. Types' /\ Noted' /\ \A h \in Gens : (dead[h] => dead'[h]) /\ (Own(h)' => Own(h))
    BY <1>1, <1>6 DEF WorkerExit, WorkerCrash, WorkerHang, IInv, Types, Noted, Own, slots,
      tools, threads
  <2>2. QED
    BY <1>1, <2>1, Fewer DEF Running
<1>7. QED
  BY <1>2, <1>3, <1>4, <1>5, <1>6 DEF Thread

\* The end of the server.
LEMMA ServerSteps ==
  ASSUME IInv, ClientGone \/ Main \/ UNCHANGED vars
  PROVE  IInv'
<1>1. CASE ClientGone \/ Exit \/ UNCHANGED vars
  <2>1. UNCHANGED <<slots, tools, workers, dead>> /\ (Running' => Running)
    BY <1>1 DEF ClientGone, Exit, Running, vars, threads
  <2>2. Types' /\ Noted' /\ \A h \in Gens : Own(h)' => Own(h)
    BY <2>1 DEF IInv, Types, Noted, Own, slots, tools, workers
  <2>3. QED
    BY <2>1, <2>2, Fewer
<1>2. CASE Shutdown
  <2>1. UNCHANGED <<slots, tools, worker, spawned, dead>> /\ (Running' => Running)
        /\ told' = [g \in Gens |-> told[g] \/ (g = slot /\ lock = None)]
    BY <1>2 DEF Shutdown, Running, threads
  <2>2. Types' /\ Noted' /\ \A h \in Gens : Own(h)' => Own(h)
    BY <2>1 DEF IInv, Types, Noted, Own, slots, tools
  <2>3. QED
    BY <2>1, <2>2, Fewer
<1>3. CASE RuntimeShutdown
  <2>1. /\ UNCHANGED <<slot, gens, worker, spawned, told, dead>> /\ ~ Running'
        /\ lock' = None /\ pc' = [t \in Tools |-> "idle"] /\ held' = [t \in Tools |-> 0]
    BY <1>3 DEF RuntimeShutdown, Running, workers, threads
  <2>2. Types' /\ Noted' /\ AtMostOne'
    BY <2>1, McpHubAssumption DEF IInv, Types, Noted, AtMostOne, Own
  <2>3. Locked' /\ Owned'
    BY <2>1, McpHubAssumption DEF Locked, Owned
  <2>4. QED
    BY <2>2, <2>3 DEF IInv
<1>4. QED
  BY <1>1, <1>2, <1>3 DEF Main

LEMMA Step == ASSUME IInv, [Next]_vars PROVE IInv'
BY ToolSteps, GetSpawnStep, SpawnTakenStep, SpawnFailedStep, StopStep, WorkerSteps, ServerSteps
DEF Next, Tool, Terminated

-----------------------------------------------------------------------------
\* At any time at most one worker of the agent is there that nobody has asked to
\* go (Hub::get, Hub::stop): concurrent calls do not double-spawn.
THEOREM SingleOwner == Spec => []OneOwner
<1>1. ASSUME AtMostOne  PROVE OneOwner
  <2> DEFINE S == {g \in Gens : worker[g] \in {"boot", "up", "hung"} /\ ~told[g]}
  <2>1. \A g, h \in S : g = h
    BY <1>1 DEF AtMostOne, Own
  <2>2. CASE S = {}
    BY <2>2, FS_EmptySet DEF OneOwner
  <2>3. CASE S # {}
    <3>1. PICK g \in S : TRUE
      BY <2>3
    <3>2. S = {g}
      BY <3>1, <2>1
    <3>3. Cardinality(S) = 1
      BY <3>2, FS_Singleton
    <3>4. QED
      BY <3>3 DEF OneOwner
  <2>4. QED
    BY <2>2, <2>3
<1>2. QED
  BY InitIInv, Step, <1>1, PTL DEF Spec, IInv

=============================================================================
