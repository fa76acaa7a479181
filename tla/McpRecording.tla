---------------------------- MODULE McpRecording ----------------------------
(***************************************************************************)
(* Full-call recording of one ringo-mcp agent (hub.rs RecordingState): the *)
(* tools that arm and disarm it, the event bridge that does so per call,   *)
(* and the worker, at the other end of a command pipe and an event stream. *)
(*                                                                         *)
(* The flags and the worker are told apart: who changes a recording sets   *)
(* the atomics first and sends the worker its command afterwards.  Calls   *)
(* begin and end in the worker and reach the bridge later.                 *)
(* `play' and its reset to silence use the same pipe and are left out.     *)
(***************************************************************************)
EXTENDS Naturals, Sequences

CONSTANTS
  Tools,      \* concurrent tool calls
  MaxOps,     \* bound: tool calls in a behaviour
  MaxCalls    \* bound: SIP calls in a behaviour

ASSUME McpRecordingAssumption == MaxOps \in Nat /\ MaxCalls \in Nat

VARIABLES
  record_default,  \* record_audio of the agent's configuration
  current,         \* generation of the armed recording, 0 = not armed
  reserved,        \* generation kept for the next dialed call, 0 = none
  next_generation,
  pc, op, mine,    \* each tool call: where it is, what it does, its generation
  ops,             \* tool calls so far
  commands,        \* to the worker
  events,          \* from the worker
  bridge,          \* where the bridge is in its loop
  known,           \* AgentState.calls
  loaded,          \* the generation the bridge works with
  calls, ncalls,   \* the worker's calls, and how many there have been
  armed,           \* the generation the worker records, 0 = none
  dialed,          \* history: the generation each call was dialed with, 0 for none
  open,            \* history: generations of recorded dials that wait for their event
  wanted,          \* history: generations of recorded dials that met nothing else
  clash            \* history: the flags were last set amid an opposite change

flags == <<current, reserved, next_generation>>
tools == <<pc, op, mine, ops>>
loop  == <<bridge, known, loaded>>
calling == <<calls, ncalls, armed>>
history == <<dialed, open, wanted, clash>>
vars  == <<record_default, flags, tools, commands, events, loop, calling, history>>

Ops == {"record_start", "record_stop", "dial", "dial_record"}
Calls == 1 .. MaxCalls

Command == [type : {"arm", "disarm", "dial", "dial_record"}, gen : Nat]
Event   == [type : {"incoming", "outgoing", "closed"}, call : Calls]

\* Types; a reservation is one of a generation that was handed out.
TypeOK ==
  /\ record_default \in BOOLEAN
  /\ next_generation \in Nat
  /\ current \in 0 .. next_generation - 1
  /\ reserved \in 0 .. next_generation - 1
  /\ pc \in [Tools -> {"idle", "gen", "reserve", "current", "unreserve", "send", "dial"}]
  /\ op \in [Tools -> Ops]
  /\ mine \in [Tools -> Nat]
  /\ ops \in Nat
  /\ commands \in Seq(Command)
  /\ events \in Seq(Event)
  /\ bridge \in {"recv", "gen", "current", "load", "check", "cas", "arm", "disarm"}
  /\ known \subseteq Calls
  /\ loaded \in Nat
  /\ calls \subseteq Calls
  /\ ncalls \in 0 .. MaxCalls
  /\ armed \in 0 .. next_generation - 1
  /\ dialed \in [Calls -> Nat]
  /\ open \subseteq 1 .. next_generation - 1 /\ wanted \subseteq 1 .. next_generation - 1
  /\ clash \in BOOLEAN

Init ==
  /\ record_default \in BOOLEAN
  /\ current = IF record_default THEN 1 ELSE 0
  /\ reserved = 0
  /\ next_generation = 2
  /\ pc = [t \in Tools |-> "idle"]
  /\ op = [t \in Tools |-> "dial"]
  /\ mine = [t \in Tools |-> 0]
  /\ ops = 0
  /\ commands = <<>> /\ events = <<>>
  /\ bridge = "recv" /\ known = {} /\ loaded = 0
  /\ calls = {} /\ ncalls = 0
  /\ armed = current
  /\ dialed = [c \in Calls |-> 0] /\ open = {} /\ wanted = {} /\ clash = FALSE

-----------------------------------------------------------------------------
(* The tools: record_start, record_stop, dial, and accept, which with      *)
(* `record' does what record_start does.                                   *)

Goto(t, where) == pc' = [pc EXCEPT ![t] = where]

\* The tool call returns; its locals end with it.
Return(t) ==
  /\ Goto(t, "idle")
  /\ op' = [op EXCEPT ![t] = "dial"] /\ mine' = [mine EXCEPT ![t] = 0]

\* Who has set the flags and not sent the worker its command yet.
MidArm == bridge = "arm" \/ \E t \in Tools : pc[t] = "send" /\ op[t] # "record_stop"
MidDisarm ==
  \/ bridge = "disarm"
  \/ \E t \in Tools : pc[t] \in {"unreserve", "send"} /\ op[t] = "record_stop"

ToolCall(t, o) ==
  /\ pc[t] = "idle" /\ ops < MaxOps
  /\ ops' = ops + 1
  /\ op' = [op EXCEPT ![t] = o]
  /\ Goto(t, CASE o = "dial" -> "dial" [] o = "record_stop" -> "current" [] OTHER -> "gen")
  /\ UNCHANGED <<record_default, flags, mine, commands, events, loop, calling, history>>

\* RecordingState::arm: a fresh generation ...
ArmGen(t) ==
  /\ pc[t] = "gen"
  /\ next_generation' = next_generation + 1
  /\ mine' = [mine EXCEPT ![t] = next_generation]
  /\ Goto(t, IF op[t] = "dial_record" THEN "reserve" ELSE "current")
  /\ UNCHANGED <<record_default, current, reserved, op, ops, commands, events,
                 loop, calling, history>>

\* ... reserved for the call that is about to be dialed ...
ArmReserve(t) ==
  /\ pc[t] = "reserve"
  /\ reserved' = mine[t]
  /\ Goto(t, "current")
  /\ wanted' = IF open = {} THEN wanted \cup {mine[t]} ELSE wanted \ open
  /\ open' = open \cup {mine[t]}
  /\ UNCHANGED <<record_default, current, next_generation, op, mine, ops,
                 commands, events, loop, calling, dialed, clash>>

\* ... becomes the current one.
ArmCurrent(t) ==
  /\ pc[t] = "current" /\ op[t] # "record_stop"
  /\ current' = mine[t]
  /\ Goto(t, "send")
  /\ wanted' = wanted \ (IF op[t] = "record_start" THEN open
                         ELSE IF bridge = "disarm" THEN {mine[t]} ELSE {})
  /\ clash' = MidDisarm
  /\ UNCHANGED <<record_default, reserved, next_generation, op, mine, ops,
                 commands, events, loop, calling, dialed, open>>

\* RecordingState::disarm.
DisarmCurrent(t) ==
  /\ pc[t] = "current" /\ op[t] = "record_stop"
  /\ current' = 0
  /\ Goto(t, "unreserve")
  /\ wanted' = {} /\ clash' = MidArm
  /\ UNCHANGED <<record_default, reserved, next_generation, op, mine, ops,
                 commands, events, loop, calling, dialed, open>>

DisarmReserved(t) ==
  /\ pc[t] = "unreserve"
  /\ reserved' = 0
  /\ Goto(t, "send")
  /\ wanted' = {}
  /\ UNCHANGED <<record_default, current, next_generation, op, mine, ops,
                 commands, events, loop, calling, dialed, open, clash>>

\* Flags before the command.
Send(t) ==
  /\ pc[t] = "send"
  /\ commands' = Append(commands,
       IF op[t] = "record_stop" THEN [type |-> "disarm", gen |-> 0]
       ELSE [type |-> "arm", gen |-> mine[t]])
  /\ IF op[t] = "dial_record" THEN Goto(t, "dial") /\ UNCHANGED <<op, mine>> ELSE Return(t)
  /\ wanted' = IF op[t] = "record_stop" THEN {} ELSE wanted
  /\ UNCHANGED <<record_default, flags, ops, events, loop, calling, dialed, open, clash>>

Dial(t) ==
  /\ pc[t] = "dial"
  /\ commands' = Append(commands, [type |-> op[t], gen |-> IF op[t] = "dial" THEN 0 ELSE mine[t]])
  /\ Return(t)
  /\ UNCHANGED <<record_default, flags, ops, events, loop, calling, history>>

-----------------------------------------------------------------------------
(* The event bridge.                                                       *)

\* What the bridge does after on_event's first step, for a call event whose
\* call was the first, or the last, the agent's state knows.
Decision(started, ended) ==
  CASE started /\ record_default -> "gen"
    [] ended /\ ~record_default  -> "load"
    [] OTHER                     -> "recv"

\* The event is dealt with; the locals of on_event end with it.
Handled == bridge' = "recv" /\ loaded' = 0

\* Fold the event into the agent's state.  A dialed call claims the reservation.
BridgeRecv ==
  /\ bridge = "recv" /\ events # <<>>
  /\ events' = Tail(events)
  /\ LET e == Head(events)
     IN  /\ known' = IF e.type = "closed" THEN known \ {e.call} ELSE known \cup {e.call}
         /\ reserved' = IF e.type = "outgoing" THEN 0 ELSE reserved
         /\ IF e.type = "outgoing"
            THEN open' = open \ {dialed[e.call]} /\ wanted' = wanted \ open'
            ELSE UNCHANGED <<open, wanted>>
         /\ bridge' = Decision(e.type # "closed" /\ known = {},
                               e.type = "closed" /\ known' = {})
  /\ UNCHANGED <<record_default, current, next_generation, tools, commands,
                 loaded, calling, dialed, clash>>

\* record_default: each call from idle is a fresh recording.
BridgeGen ==
  /\ bridge = "gen"
  /\ loaded' = next_generation
  /\ next_generation' = next_generation + 1
  /\ bridge' = "current"
  /\ UNCHANGED <<record_default, current, reserved, tools, commands, events,
                 known, calling, history>>

BridgeCurrent ==
  /\ bridge = "current"
  /\ current' = loaded
  /\ bridge' = "arm"
  /\ clash' = MidDisarm
  /\ UNCHANGED <<record_default, reserved, next_generation, tools, commands,
                 events, known, loaded, calling, dialed, open, wanted>>

\* The last call ended: the recording that belonged to it is to be disarmed.
BridgeLoad ==
  /\ bridge = "load"
  /\ loaded' = current
  /\ bridge' = "check"
  /\ UNCHANGED <<record_default, flags, tools, commands, events, known,
                 calling, history>>

\* Fault: a reservation does not protect the recording.
BridgeCheckAny ==
  /\ bridge = "check"
  /\ IF loaded # 0 THEN bridge' = "cas" /\ UNCHANGED loaded ELSE Handled
  /\ UNCHANGED <<record_default, flags, tools, commands, events, known, calling, history>>

BridgeCheck ==
  /\ bridge = "check"
  /\ IF loaded # 0 /\ loaded # reserved THEN bridge' = "cas" /\ UNCHANGED loaded ELSE Handled
  /\ UNCHANGED <<record_default, flags, tools, commands, events, known, calling, history>>

\* Fault: the flags are cleared and the worker is not told.
BridgeCasMute ==
  /\ bridge = "cas"
  /\ IF current = loaded
     THEN current' = 0 /\ clash' = MidArm
     ELSE UNCHANGED <<current, clash>>
  /\ Handled
  /\ UNCHANGED <<record_default, reserved, next_generation, tools, commands,
                 events, known, calling, dialed, open, wanted>>

\* compare_exchange: a tool that re-armed since it looked wins.
BridgeCas ==
  /\ bridge = "cas"
  /\ IF current = loaded
     THEN current' = 0 /\ bridge' = "disarm" /\ loaded' = 0 /\ clash' = MidArm
     ELSE Handled /\ UNCHANGED <<current, clash>>
  /\ UNCHANGED <<record_default, reserved, next_generation, tools, commands,
                 events, known, calling, dialed, open, wanted>>

BridgeSend ==
  /\ bridge \in {"arm", "disarm"}
  /\ commands' = Append(commands, [type |-> bridge, gen |-> loaded])
  /\ Handled
  /\ UNCHANGED <<record_default, flags, tools, events, known, calling, history>>

-----------------------------------------------------------------------------
(* The worker: its command loop, and the calls it reports.                 *)

WorkerRecord ==
  /\ commands # <<>> /\ Head(commands).type \in {"arm", "disarm"}
  /\ commands' = Tail(commands)
  /\ armed' = Head(commands).gen
  /\ UNCHANGED <<record_default, flags, tools, events, loop, calls, ncalls, history>>

NewCall(type) ==
  /\ ncalls < MaxCalls
  /\ ncalls' = ncalls + 1
  /\ calls' = calls \cup {ncalls + 1}
  /\ events' = Append(events, [type |-> type, call |-> ncalls + 1])

WorkerDial ==
  /\ commands # <<>> /\ Head(commands).type \in {"dial", "dial_record"}
  /\ commands' = Tail(commands)
  /\ \/ /\ NewCall("outgoing")
        /\ dialed' = [dialed EXCEPT ![ncalls + 1] = Head(commands).gen]
        /\ UNCHANGED <<open, wanted>>
     \/ /\ open' = open \ {Head(commands).gen} /\ wanted' = wanted \ {Head(commands).gen}
        /\ UNCHANGED <<calls, ncalls, events, dialed>>
  /\ UNCHANGED <<record_default, flags, tools, loop, armed, clash>>

WorkerIncoming ==
  /\ NewCall("incoming")
  /\ UNCHANGED <<record_default, flags, tools, commands, loop, armed, history>>

WorkerClose(c) ==
  /\ c \in calls
  /\ calls' = calls \ {c}
  /\ events' = Append(events, [type |-> "closed", call |-> c])
  /\ wanted' = wanted \ {dialed[c]}
  /\ UNCHANGED <<record_default, flags, tools, commands, loop, ncalls, armed, dialed, open,
                 clash>>

-----------------------------------------------------------------------------
Tool(t) ==
  \/ \E o \in Ops : ToolCall(t, o)
  \/ ArmGen(t) \/ ArmReserve(t) \/ ArmCurrent(t)
  \/ DisarmCurrent(t) \/ DisarmReserved(t)
  \/ Send(t) \/ Dial(t)

Bridge ==
  \/ BridgeRecv \/ BridgeGen \/ BridgeCurrent
  \/ BridgeLoad \/ BridgeCheck \/ BridgeCas \/ BridgeSend

Worker ==
  \/ WorkerRecord \/ WorkerDial \/ WorkerIncoming
  \/ \E c \in Calls : WorkerClose(c)

Next == (\E t \in Tools : Tool(t)) \/ Bridge \/ Worker

Spec == Init /\ [][Next]_vars
-----------------------------------------------------------------------------
\* Nothing is under way.
Quiet ==
  /\ \A t \in Tools : pc[t] = "idle"
  /\ commands = <<>> /\ events = <<>> /\ bridge = "recv"

\* The flags and the worker agree on whether a recording runs, once every command has
\* arrived (a save would find nothing, or too much, otherwise), whichever tools and
\* bridge changed it at once.  One exception: an arm and a disarm crossed, the flags of
\* one set between the flags and the command of the other, and nothing since.  Then the
\* commands may arrive in the other order, the bridge's disarm after the arm of a tool
\* that `wins the compare-exchange' (hub.rs 1041) included.
FlagsAgree == Quiet /\ ~clash => (armed = 0 <=> current = 0)

\* A call dialed to be recorded is recorded while it is up: "a close of the previous
\* call that is still in flight won't disarm it" (hub.rs 861-862), whatever tools run
\* beside it.  Exceptions, each told by what happened: a record_stop; before the bridge
\* heard of the call, a record_start, another recorded dial, or another dialed call's
\* event (there is one reservation, claimed by whichever comes first, 952 and 1026); and
\* an arm that fell between the bridge's compare-exchange and its command.
DialedIsRecorded == (\E c \in calls : dialed[c] \in wanted) => armed # 0

=============================================================================
