------------------------------ MODULE FlowScenario ------------------------------
(***************************************************************************)
(* One scenario: the thread that runs its script, next to its agents, its  *)
(* mock server and the system under test.                                  *)
(*                                                                         *)
(* Most verbs return at once.  `wait` holds for a time and fails when a    *)
(* call that was up drops (runtime/wait.rs), `until` polls a condition and *)
(* lets the JavaScript responders run, `http` waits for an answer.  In     *)
(* JavaScript several of these may be awaited together.  When the script   *)
(* has ended its sessions and its server are taken down, with the thread   *)
(* held until the server has let go of its port.                           *)
(***************************************************************************)
EXTENDS FlowAgents, FlowMock

CONSTANTS
  MaxVerbs,     \* bound: verbs of the script
  MaxOutside,   \* bound: what the network and the system under test begin
  TargetsUsed, ConditionsUsed,   \* bound: whom the script calls, what it polls
  Awaits,       \* bound: what it awaits together, sets of "wait", "until", "http"
  Stagings      \* bound: the routes it stages, [method, path, kind]

VARIABLES
  language,  \* the script's language
  at,        \* "runs", "resets", "waits" (for the server's task), "ended"
  verbs,     \* verbs so far
  doing,     \* what the thread awaits: "wait", "until", "http"
  until,     \* the condition until polls
  wait,      \* the wait under way, or the last one
  outside    \* what has begun outside so far

scene == <<connected, sent, calls, armed, emitted, pushed, view,
           server, routes, staged, recorded, phase, chosen, queues,
           language, at, verbs, doing, until, wait, outside>>
thread == <<language, at, verbs, doing, until, wait>>

NoWait == [guards |-> [a \in Agents |-> {}], dropped |-> {}, slept |-> FALSE, end |-> "none"]
NoCondition == <<"none">>

ScenarioInit ==
  /\ AgentsInit
  /\ MockInit
  /\ language \in {"rhai", "js"}
  /\ at = "runs"
  /\ verbs = 0
  /\ doing = {}
  /\ until = NoCondition
  /\ wait = NoWait
  /\ outside = 0

-----------------------------------------------------------------------------
(* Verbs that return at once                                               *)

\* The script comes to its next verb; what it knew of the last wait is past.
Verb ==
  /\ at = "runs"
  /\ doing = {}
  /\ verbs < MaxVerbs
  /\ verbs' = verbs + 1
  /\ wait' = NoWait
  /\ UNCHANGED <<language, outside>>

Returns == UNCHANGED <<at, doing, until>>

\* An error of a verb ends the script, unless the script catches it.
Throws == at' \in {"runs", "resets"} /\ UNCHANGED <<doing, until>>

\* What may be wrong with a new agent: an option nobody knows, one that must be
\* there and is not, a header's name, the type of an optional value.
Faults == {"unknown key", "missing", "bad header", "wrong type", "no worker"}

\* Rhai takes an optional value of the wrong type for one that is not there ...
RhaiMinds(fault) == fault # "wrong type"
\* ... and JavaScript does not.
JsMinds(fault) == fault \in Faults
Minds(fault) == IF language = "rhai" THEN RhaiMinds(fault) ELSE JsMinds(fault)

NewAgent(a) ==
  /\ Verb
  /\ \/ \E deflects \in BOOLEAN : Connect(a, deflects)
     \/ (\E fault \in Faults : ~Minds(fault)) /\ Connect(a, FALSE)
  /\ Returns
  /\ UNCHANGED mock

AgentRefused ==
  /\ Verb
  /\ \E fault \in Faults : Minds(fault)
  /\ Throws
  /\ UNCHANGED <<agents, mock>>

Tell(a) ==
  /\ Verb
  /\ \/ CallControl(a) \/ StopDeflect(a) \/ RespondIncoming(a)
     \/ \E t \in TargetsUsed : Dial(a, t) \/ Transfer(a, t) \/ Deflect(a, t)
  /\ Returns
  /\ UNCHANGED mock

\* A verb of, or to, an agent that is not connected.
NoSession ==
  /\ Verb
  /\ connected # Agents
  /\ Throws
  /\ UNCHANGED <<agents, mock>>

NewServer ==
  /\ Verb
  /\ StartServer
  /\ Returns
  /\ UNCHANGED agents

StopServer ==
  /\ Verb
  /\ server # "off"
  /\ Shutdown
  /\ Returns
  /\ UNCHANGED agents

\* Rhai has a verb for responses and one for closures.
AddStatic == \E t \in Stagings : t.kind = "static" /\ Respond(t)
AddDynamic == \E t \in Stagings : t.kind = "dynamic" /\ Respond(t)
RhaiResponds ==
  /\ language = "rhai"
  /\ Verb
  /\ AddStatic \/ AddDynamic
  /\ Returns
  /\ UNCHANGED agents

\* In JavaScript a function is kept for the scenario's thread.
JsResponds ==
  /\ language = "js"
  /\ Verb
  /\ \E t \in Stagings : t.kind \in {"static", "bridged"} /\ Respond(t)
  /\ Returns
  /\ UNCHANGED agents

-----------------------------------------------------------------------------
(* Verbs that hold the thread                                              *)

\* What a getter of an agent says, of the fold of its events so far.
AgentSays(v, c) ==
  \/ c[1] = "state" /\ CallState(v) = c[3]
  \/ c[1] = "registered" /\ v.registered
  \/ c[1] = "reason" /\ Reason(v)
  \/ c[1] = "peer" /\ PeerKnown(v)
  \/ c[1] = "header" /\ HeaderSeen(v)
  \/ c[1] = "info" /\ AgentInfo(v) = c[3]

\* ... and of a server, of the requests it has recorded.
ServerSays(c) == c[1] = "requests" /\ RequestCount(c[2]) > 0

\* The condition as it stands now: <<"state", agent, state>>, <<"requests",
\* path>>, ...  A getter of an agent that is not connected is an error.
Holds(c) ==
  \/ ServerSays(c)
  \/ c[1] # "requests" /\ c[2] \in connected /\ AgentSays(view[c[2]], c)

\* The calls a wait guards: those its agents' views show as established.
GuardsAll(v) == CallIdsOf(v)
Guards(v) == EstablishedIds(v)

Await ==
  /\ at = "runs"
  /\ doing = {}
  /\ verbs < MaxVerbs
  /\ verbs' = verbs + 1
  /\ wait' = IF "wait" \in doing'
             THEN [NoWait EXCEPT !.guards = [a \in Agents |-> IF a \in connected THEN Guards(view[a]) ELSE {}]]
             ELSE NoWait
  /\ IF "until" \in doing' THEN until' \in ConditionsUsed ELSE until' = NoCondition
  /\ UNCHANGED <<language, at, outside, agents, mock>>

\* Rhai waits for one thing, JavaScript for several if the script wants to.
RhaiAwaits == language = "rhai" /\ (\E what \in {"wait", "until", "http"} : doing' = {what}) /\ Await
JsAwaits == language = "js" /\ doing' \in Awaits /\ Await

\* One of the things awaited is done; when it has failed, so has the script,
\* and what it awaits besides is left, unless the script catches it.
Done(what, well) ==
  \/ doing' = doing \ {what} /\ UNCHANGED at
  \/ ~well /\ doing' = {} /\ at' = "resets"

\* A guard sees one of its calls gone from the view.
GuardReports(a) ==
  /\ "wait" \in doing
  /\ wait.guards[a] \ CallIdsOf(view[a]) # {}
  /\ a \notin wait.dropped
  /\ wait' = [wait EXCEPT !.dropped = @ \cup {a}]
  /\ UNCHANGED <<language, at, verbs, doing, until, outside, agents, mock>>

SleepEnds ==
  /\ "wait" \in doing
  /\ ~wait.slept
  /\ wait' = [wait EXCEPT !.slept = TRUE]
  /\ UNCHANGED <<language, at, verbs, doing, until, outside, agents, mock>>

Unguarded == \A a \in Agents : wait.guards[a] = {}

\* The first of: the time is over, a guard has reported, there is no guard.
WaitEnds ==
  /\ "wait" \in doing
  /\ \/ /\ wait.slept \/ Unguarded
        /\ wait' = [wait EXCEPT !.end = "ok"]
        /\ Done("wait", TRUE)
     \/ /\ wait.dropped # {}
        /\ wait' = [wait EXCEPT !.end = "dropped"]
        /\ Done("wait", FALSE)
  /\ UNCHANGED <<language, verbs, until, outside, agents, mock>>

\* A tick of until: the requests that wait for the script are answered, then
\* the condition is tried; it may have run out of time.
UntilTicks ==
  /\ "until" \in doing
  /\ IF language = "js" THEN PumpBridged ELSE UNCHANGED mock
  /\ \/ Holds(until) /\ Done("until", TRUE) /\ until' = NoCondition
     \/ ~Holds(until) /\ Done("until", FALSE) /\ until' = NoCondition
     \/ ~Holds(until) /\ mock' # mock /\ UNCHANGED <<at, doing, until>>
  /\ UNCHANGED <<language, verbs, wait, outside, agents>>

\* The system under test answers, or thirty seconds are over.
HttpEnds ==
  /\ "http" \in doing
  /\ \E well \in BOOLEAN : Done("http", well)
  /\ UNCHANGED <<language, verbs, until, wait, outside, agents, mock>>

-----------------------------------------------------------------------------
(* The end of the scenario                                                 *)

ScriptReturns ==
  /\ at = "runs"
  /\ doing = {}
  /\ at' = "resets"
  /\ UNCHANGED <<language, verbs, doing, until, wait, outside, agents, mock>>

\* reset_sessions: the server is told to stop, the sessions are hung up ...
Reset ==
  /\ at = "resets"
  /\ Shutdown
  /\ DropSessions
  /\ at' = IF server = "off" THEN "ended" ELSE "waits"
  /\ verbs' = MaxVerbs /\ doing' = {} /\ until' = NoCondition /\ wait' = NoWait
  /\ outside' = MaxOutside /\ UNCHANGED language

\* ... and the thread waits for the server's task.
ResetEnds ==
  /\ at = "waits"
  /\ server = "down"
  /\ at' = "ended"
  /\ UNCHANGED <<language, verbs, doing, until, wait, outside, agents, mock>>

-----------------------------------------------------------------------------

ScriptStep ==
  \/ \E a \in Agents : NewAgent(a) \/ Tell(a)
  \/ AgentRefused \/ NoSession \/ NewServer \/ StopServer \/ RhaiResponds \/ JsResponds
  \/ RhaiAwaits \/ JsAwaits \/ ScriptReturns
ResetStep == Reset \/ ResetEnds

AgentsRun == AgentsStep /\ UNCHANGED <<mock, thread, outside>>
MockRuns == MockStep /\ UNCHANGED <<agents, thread, outside>>

\* What others begin or end: calls, registrations, requests.
Begins ==
  /\ outside < MaxOutside
  /\ outside' = outside + 1
  /\ \/ (\E a \in Agents : InviteComes(a) \/ RegistrarAnswers(a)) /\ UNCHANGED mock
     \/ (\E r \in RequestIds : Receive(r)) /\ UNCHANGED agents
  /\ UNCHANGED thread
Others ==
  /\ \/ (\E a \in Agents : PeerAnswers(a) \/ PeerCloses(a)) /\ UNCHANGED mock
     \/ (\E r \in RequestIds : ClientGone(r)) /\ UNCHANGED agents
  /\ UNCHANGED <<thread, outside>>

ScenarioNext ==
  \/ ScriptStep \/ ResetStep
  \/ SleepEnds \/ WaitEnds \/ UntilTicks \/ HttpEnds
  \/ \E a \in Agents : GuardReports(a)
  \/ AgentsRun \/ MockRuns \/ Begins \/ Others

\* The script's thread goes on, timers fire, the tasks of the runtime are
\* scheduled.  Nothing is assumed of the network or the system under test.
ScenarioFairness ==
  /\ WF_scene(ScriptStep) /\ WF_scene(ResetStep)
  /\ WF_scene(SleepEnds) /\ WF_scene(WaitEnds) /\ WF_scene(UntilTicks) /\ WF_scene(HttpEnds)
  /\ \A r \in RequestIds :
       /\ WF_scene(LookUp(r) /\ UNCHANGED <<agents, thread, outside>>)
       /\ WF_scene(DynamicAnswers(r) /\ UNCHANGED <<agents, thread, outside>>)
       /\ WF_scene(HandOver(r) /\ UNCHANGED <<agents, thread, outside>>)
       /\ WF_scene(BridgeTimesOut(r) /\ UNCHANGED <<agents, thread, outside>>)
  /\ WF_scene(ServerEnds /\ UNCHANGED <<agents, thread, outside>>)

ScenarioSpec == ScenarioInit /\ [][ScenarioNext]_scene /\ ScenarioFairness

-----------------------------------------------------------------------------
(* Properties                                                              *)

\* The view after the events q.
Folded(v, q) ==
  LET f[i \in 0 .. Len(q)] == IF i = 0 THEN v ELSE Reduce(f[i - 1], q[i])
  IN  f[Len(q)]

\* Once the events under way are folded, the getters say what the worker has:
\* each of its calls once, in its phase, and no other.
FoldsToTruth ==
  \A a \in connected :
    LET v == Folded(view[a], emitted[a])
    IN /\ Len(v.calls) = Cardinality(Current(a))
       /\ CallIdsOf(v) = Current(a)
       /\ EstablishedIds(v) = {c \in CallIds : calls[a][c] = "established"}

\* A wait that fails for a dropped call tells the truth: a call of that agent
\* that had been up is over.
WaitTells ==
  \A a \in wait.dropped : \E c \in wait.guards[a] : calls[a][c] = "done"

\* What keeps a request waiting for good: its responder's queue is full, and
\* only the script could empty it.
Stuck(r) == phase[r] = "sending" /\ Len(queues[chosen[r]]) = QueueCap

\* A request that has come in is answered, whatever the script does: also when
\* the thread that would answer it is blocked or never polls. The one exception
\* is a request that finds its responder's queue full.
AllAnswered == \A r \in RequestIds : phase[r] = "recorded" ~> phase[r] \in {"answered", "gone"} \/ Stuck(r)

\* Every scenario comes to its end, with its server taken down, unless a request
\* stays before a full queue: the server's task waits for it.
ScenarioConcludes == <>(at = "ended") \/ <>[](\E r \in RequestIds : Stuck(r))

=============================================================================
