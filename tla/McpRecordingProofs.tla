------------------------- MODULE McpRecordingProofs -------------------------
(***************************************************************************)
(* The recording flags and the worker agree when nothing is under way, and *)
(* a call that was dialed to be recorded is recorded while it is up        *)
(* (FlagsAgree and DialedIsRecorded of McpRecording), for any number of    *)
(* tool calls, made at once, and of calls, with the exceptions the two     *)
(* name and no assumption about the client.                                *)
(*                                                                         *)
(* The first holds since every flag that was set is followed by its        *)
(* command: unless two that are opposite crossed, the last command in the  *)
(* pipe says what the flags say.  For the second a generation is followed  *)
(* from the tool that drew it over the pipe to the call: until the bridge  *)
(* hears of the call, current = reserved = its generation keeps the bridge *)
(* from disarming, and from then on the call is one it knows.              *)
(***************************************************************************)
EXTENDS McpRecording, SequenceTheorems, TLAPS

IsDial(i) == commands[i].type = "dial_record"
DialsRecorded(t) == op[t] = "dial_record" /\ pc[t] \in {"current", "send", "dial"}

Types ==
  /\ current \in Nat /\ reserved \in Nat /\ next_generation \in Nat \ {0} /\ loaded \in Nat
  /\ pc \in [Tools -> {"idle", "gen", "reserve", "current", "unreserve", "send", "dial"}]
  /\ op \in [Tools -> Ops]
  /\ mine \in [Tools -> Nat]
  /\ commands \in Seq(Command) /\ events \in Seq(Event)
  /\ bridge \in {"recv", "gen", "current", "load", "check", "cas", "arm", "disarm"}
  /\ known \subseteq Calls /\ calls \subseteq 1 .. ncalls /\ ncalls \in 0 .. MaxCalls
  /\ armed \in Nat /\ dialed \in [Calls -> Nat]
  /\ open \subseteq Nat \ {0} /\ wanted \subseteq Nat \ {0}
  /\ record_default \in BOOLEAN

\* Where a tool is, or the bridge, says what it does and what it holds.
Places ==
  /\ \A t \in Tools :
       /\ pc[t] \in {"idle", "gen"} \/ op[t] \in {"dial", "record_stop"} => mine[t] = 0
       /\ pc[t] \in {"reserve", "current", "send", "dial"}
            /\ op[t] \in {"record_start", "dial_record"} => mine[t] # 0
       /\ pc[t] = "gen" => op[t] \in {"record_start", "dial_record"}
       /\ pc[t] = "reserve" => op[t] = "dial_record"
       /\ pc[t] = "unreserve" => op[t] = "record_stop"
       /\ pc[t] = "dial" => op[t] \in {"dial", "dial_record"}
       /\ op[t] = "dial" => pc[t] \in {"idle", "dial"}
  /\ bridge \in {"current", "arm"} => loaded # 0
  /\ bridge = "disarm" => loaded = 0
  /\ bridge \in {"gen", "current", "arm"} => record_default
  /\ bridge \in {"load", "check", "cas", "disarm"} => ~ record_default

\* What a command carries.
Carried ==
  \A i \in 1 .. Len(commands) : commands[i].gen = 0 <=> commands[i].type \in {"disarm", "dial"}

\* No generation is in use before it was drawn.
Drawn ==
  /\ current < next_generation /\ loaded < next_generation
  /\ \A t \in Tools : mine[t] < next_generation
  /\ \A c \in Calls : dialed[c] < next_generation /\ (c > ncalls => dialed[c] = 0)
  /\ \A g \in open \cup wanted : g < next_generation
  /\ \A i \in 1 .. Len(commands) : commands[i].gen < next_generation

\* A worker that holds a, with q in its pipe, records when it comes to place j.
Record == {"arm", "disarm"}
Records(q, a, j) ==
  \/ a # 0 /\ \A i \in 1 .. j - 1 : q[i].type \notin Record
  \/ \E i \in 1 .. j - 1 : q[i].type = "arm" /\ \A k \in i + 1 .. j - 1 : q[k].type \notin Record

\* Unless someone who set the flags is about to send, the worker will have them.
Told ==
  ~ clash =>
    /\ MidArm => current # 0
    /\ MidDisarm => current = 0
    /\ ~ MidArm /\ ~ MidDisarm => (Records(commands, armed, Len(commands) + 1) <=> current # 0)

-----------------------------------------------------------------------------
\* A generation is with one tool, one command or one call.
Unique ==
  /\ \A t, u \in Tools : mine[t] = mine[u] /\ mine[t] # 0 => t = u
  /\ \A t \in Tools : mine[t] # 0 => \A c \in Calls : dialed[c] # mine[t]
  /\ \A t \in Tools : mine[t] # 0 =>
       \A i \in 1 .. Len(commands) : IsDial(i) => commands[i].gen # mine[t]
  /\ \A i, j \in 1 .. Len(commands) :
       IsDial(i) /\ IsDial(j) /\ commands[j].gen = commands[i].gen => j = i
  /\ \A i \in 1 .. Len(commands) : IsDial(i) => \A c \in Calls : dialed[c] # commands[i].gen
  /\ \A c, d \in Calls : dialed[c] = dialed[d] /\ dialed[c] # 0 => c = d

\* A recorded dial is open until its event; one that is still wanted is the only one.
Opened ==
  /\ \A t \in Tools : DialsRecorded(t) => mine[t] \in open
  /\ \A i \in 1 .. Len(commands) : IsDial(i) => commands[i].gen \in open
  /\ \A t \in Tools : pc[t] = "reserve" => mine[t] \notin open /\ mine[t] \notin wanted
  /\ \A g \in wanted \cap open : open = {g}

\* Nobody else has a generation before its tool makes it the current one.
Unset ==
  \A t \in Tools : pc[t] \in {"reserve", "current"} /\ mine[t] # 0 =>
    current # mine[t] /\ loaded # mine[t]

\* A wanted call that the bridge has not heard of keeps its reservation, and the
\* bridge does not disarm it.
Pending ==
  \A g \in wanted \cap open :
    /\ reserved = g
    /\ ~ record_default => \/ \E t \in Tools : mine[t] = g /\ pc[t] = "current"
                           \/ current = g /\ bridge # "disarm" /\ (bridge = "cas" => loaded # g)

\* A call that has closed is not up, and the bridge only looks at the flags when
\* it knows of no call.
EventInv ==
  /\ \A i \in 1 .. Len(events) : events[i].call <= ncalls
                                 /\ (events[i].type = "closed" => events[i].call \notin calls)
  /\ known \subseteq 1 .. ncalls
  /\ bridge \in {"load", "check", "cas", "disarm"} => known = {}

\* The bridge knows of a wanted call, or its dial is open.
Known == \A c \in calls : dialed[c] \in wanted => dialed[c] \in open \/ c \in known

\* A wanted dial finds the worker recording, and nothing behind it stops that.
ForDial ==
  /\ \A j \in 1 .. Len(commands) : IsDial(j) /\ commands[j].gen \in wanted =>
       Records(commands, armed, j) /\ \A i \in j + 1 .. Len(commands) : commands[i].type # "disarm"
  /\ \A t \in Tools : pc[t] = "dial" /\ mine[t] \in wanted => Records(commands, armed, Len(commands) + 1)

Held ==
  (\E c \in calls : dialed[c] \in wanted) =>
    armed # 0 /\ \A i \in 1 .. Len(commands) : commands[i].type # "disarm"

-----------------------------------------------------------------------------
LEMMA Appended ==
  ASSUME NEW S, NEW q \in Seq(S), NEW e \in S
  PROVE  /\ Append(q, e) \in Seq(S) /\ Len(q) \in Nat /\ Len(Append(q, e)) = Len(q) + 1
         /\ \A i \in 1 .. Len(q) : Append(q, e)[i] = q[i]
         /\ Append(q, e)[Len(q) + 1] = e
BY AppendProperties

LEMMA Popped ==
  ASSUME NEW S, NEW q \in Seq(S), q # <<>>
  PROVE  /\ Tail(q) \in Seq(S) /\ Len(q) \in Nat \ {0} /\ Len(Tail(q)) = Len(q) - 1
         /\ \A i \in 1 .. Len(q) - 1 : Tail(q)[i] = q[i + 1]
         /\ Head(q) = q[1] /\ Head(q) \in S
BY HeadTailProperties, EmptySeq

\* The command pipe and the event stream as their places, before and after a step.
CommandPops ==
  /\ Len(commands) \in Nat /\ Len(commands') \in Nat /\ Len(commands) = Len(commands') + 1
  /\ Head(commands) = commands[1] /\ commands[1] \in Command /\ 1 \in 1 .. Len(commands)
  /\ \A i \in 1 .. Len(commands') : i + 1 \in 1 .. Len(commands) /\ i + 1 # 1 /\ commands'[i] = commands[i + 1]
  /\ \A i \in 1 .. Len(commands) : i # 1 => i - 1 \in 1 .. Len(commands') /\ commands'[i - 1] = commands[i]

CommandPushes(e) ==
  /\ e \in Command
  /\ Len(commands) \in Nat /\ Len(commands') = Len(commands) + 1
  /\ \A i \in 1 .. Len(commands) : i \in 1 .. Len(commands') /\ commands'[i] = commands[i]
  /\ commands'[Len(commands')] = e /\ Len(commands') \in 1 .. Len(commands')
  /\ \A i \in 1 .. Len(commands') : i \in 1 .. Len(commands) \/ i = Len(commands')

EventPops ==
  /\ Len(events) \in Nat /\ Len(events') \in Nat /\ Len(events) = Len(events') + 1
  /\ Head(events) = events[1] /\ events[1] \in Event /\ 1 \in 1 .. Len(events)
  /\ \A i \in 1 .. Len(events') : i + 1 \in 1 .. Len(events) /\ i + 1 # 1 /\ events'[i] = events[i + 1]
  /\ \A i \in 1 .. Len(events) : i # 1 => i - 1 \in 1 .. Len(events') /\ events'[i - 1] = events[i]

EventPushes(e) ==
  /\ e \in Event
  /\ Len(events) \in Nat /\ Len(events') = Len(events) + 1
  /\ \A i \in 1 .. Len(events) : i \in 1 .. Len(events') /\ events'[i] = events[i]
  /\ events'[Len(events')] = e /\ Len(events') \in 1 .. Len(events')
  /\ \A i \in 1 .. Len(events') : i \in 1 .. Len(events) \/ i = Len(events')

LEMMA CommandPopped == ASSUME Types, commands # <<>>, commands' = Tail(commands) PROVE CommandPops
<1>1. commands \in Seq(Command)
  BY DEF Types
<1>2. /\ Len(commands) \in Nat \ {0} /\ Len(commands') = Len(commands) - 1
      /\ \A i \in 1 .. Len(commands) - 1 : commands'[i] = commands[i + 1]
      /\ Head(commands) = commands[1] /\ Head(commands) \in Command
  BY <1>1, Popped
<1>3. QED
  BY <1>2 DEF CommandPops

LEMMA CommandPushed == ASSUME Types, NEW e \in Command, commands' = Append(commands, e) PROVE CommandPushes(e)
<1>1. commands \in Seq(Command)
  BY DEF Types
<1>2. QED
  BY <1>1, Appended DEF CommandPushes

LEMMA Numbers ==
  ASSUME Types
  PROVE  /\ next_generation \in Nat /\ 0 < next_generation /\ current \in Nat /\ loaded \in Nat
         /\ ncalls \in Nat /\ armed \in Nat
         /\ \A t \in Tools : mine[t] \in Nat
         /\ \A c \in Calls : dialed[c] \in Nat /\ c \in Nat
         /\ \A i \in 1 .. Len(commands) : commands[i].gen \in Nat
         /\ \A g \in open \cup wanted : g \in Nat /\ g # 0
<1>1. commands \in Seq(Command)
  BY DEF Types
<1>2. \A i \in 1 .. Len(commands) : commands[i] \in Command
  BY <1>1, ElementOfSeq
<1>3. \A i \in 1 .. Len(commands) : commands[i].gen \in Nat
  BY <1>2 DEF Command
<1>4. next_generation \in Nat /\ 0 < next_generation /\ current \in Nat /\ loaded \in Nat /\ armed \in Nat
  BY DEF Types
<1>5. ncalls \in Nat /\ (\A c \in Calls : dialed[c] \in Nat /\ c \in Nat) /\ (\A t \in Tools : mine[t] \in Nat)
  BY McpRecordingAssumption DEF Types, Calls
<1>6. \A g \in open \cup wanted : g \in Nat /\ g # 0
  BY DEF Types
<1>7. QED
  BY <1>3, <1>4, <1>5, <1>6

LEMMA EventPopped == ASSUME Types, events # <<>>, events' = Tail(events) PROVE EventPops
<1>1. events \in Seq(Event)
  BY DEF Types
<1>2. /\ Len(events) \in Nat \ {0} /\ Len(events') = Len(events) - 1
      /\ \A i \in 1 .. Len(events) - 1 : events'[i] = events[i + 1]
      /\ Head(events) = events[1] /\ Head(events) \in Event
  BY <1>1, Popped
<1>3. QED
  BY <1>2 DEF EventPops

LEMMA EventPushed == ASSUME Types, NEW e \in Event, events' = Append(events, e) PROVE EventPushes(e)
<1>1. events \in Seq(Event)
  BY DEF Types
<1>2. QED
  BY <1>1, Appended DEF EventPushes

LEMMA SendPushes ==
  ASSUME NEW t \in Tools, Types, Send(t)
  PROVE  CommandPushes(IF op[t] = "record_stop" THEN [type |-> "disarm", gen |-> 0]
                       ELSE [type |-> "arm", gen |-> mine[t]])
BY CommandPushed DEF Send, Types, Command

LEMMA DialPushes ==
  ASSUME NEW t \in Tools, Types, Places, Dial(t)
  PROVE  CommandPushes([type |-> op[t], gen |-> IF op[t] = "dial" THEN 0 ELSE mine[t]])
<1>1. [type |-> op[t], gen |-> IF op[t] = "dial" THEN 0 ELSE mine[t]] \in Command
  BY DEF Dial, Types, Places, Command, Ops
<1>2. QED
  BY <1>1, CommandPushed DEF Dial

LEMMA BridgeSendPushes ==
  ASSUME Types, BridgeSend
  PROVE  CommandPushes([type |-> bridge, gen |-> loaded])
BY CommandPushed DEF BridgeSend, Types, Command

LEMMA NewCallPushes ==
  ASSUME NEW type \in {"incoming", "outgoing"}, Types, NewCall(type)
  PROVE  /\ EventPushes([type |-> type, call |-> ncalls + 1])
         /\ ncalls + 1 \in Calls /\ ncalls \in Nat /\ ncalls' = ncalls + 1
         /\ calls' = calls \cup {ncalls + 1}
         /\ ncalls + 1 \notin calls
<1>1. /\ ncalls + 1 \in Calls /\ ncalls \in Nat /\ ncalls' = ncalls + 1
      /\ calls' = calls \cup {ncalls + 1}
      /\ ncalls + 1 \notin calls
  BY McpRecordingAssumption DEF NewCall, Types, Calls
<1>2. [type |-> type, call |-> ncalls + 1] \in Event
  BY <1>1 DEF Event
<1>3. EventPushes([type |-> type, call |-> ncalls + 1])
  BY <1>2, EventPushed DEF NewCall
<1>4. QED
  BY <1>1, <1>3

LEMMA ClosePushes ==
  ASSUME NEW c \in Calls, Types, WorkerClose(c)
  PROVE  EventPushes([type |-> "closed", call |-> c])
BY EventPushed DEF WorkerClose, Event

-----------------------------------------------------------------------------
LEMMA TypesStep ==
  ASSUME Types, Places, [Next]_vars
  PROVE  Types'
<1> USE McpRecordingAssumption
<1>1. ASSUME UNCHANGED vars
      PROVE  Types'
  <2>1. UNCHANGED <<current, reserved, next_generation, loaded, pc, op, mine, commands, events, bridge, known, calls, ncalls, armed, dialed, open, wanted, record_default>>
    BY <1>1 DEF vars, flags, tools, loop, calling, history
  <2>2. QED
    BY <2>1 DEF Types, Calls, Command, Event, Ops
<1>2. ASSUME NEW t \in Tools, NEW o \in Ops, ToolCall(t, o) PROVE Types'
  BY <1>2 DEF ToolCall, Types, Calls, Command, Event, Ops, flags, tools, loop, calling, history,
    Goto, Return
<1>3. ASSUME NEW t \in Tools, ArmGen(t) PROVE Types'
  BY <1>3 DEF ArmGen, Types, Calls, Command, Event, Ops, flags, tools, loop, calling, history,
    Goto, Return
<1>4. ASSUME NEW t \in Tools, ArmReserve(t) PROVE Types'
  <2>1. mine[t] \in Nat \ {0}
    BY <1>4 DEF ArmReserve, Types, Places
  <2>2. wanted' \subseteq Nat \ {0} /\ open' \subseteq Nat \ {0} /\ reserved' \in Nat
    BY <1>4, <2>1 DEF ArmReserve, Types
  <2>3. QED
    BY <1>4, <2>2 DEF ArmReserve, Types, Goto, loop, calling
<1>5. ASSUME NEW t \in Tools, ArmCurrent(t) PROVE Types'
  BY <1>5 DEF ArmCurrent, Types, Calls, Command, Event, Ops, flags, tools, loop, calling, history,
    Goto, Return
<1>6. ASSUME NEW t \in Tools, DisarmCurrent(t) PROVE Types'
  BY <1>6 DEF DisarmCurrent, Types, Calls, Command, Event, Ops, flags, tools, loop, calling,
    history, Goto, Return
<1>7. ASSUME NEW t \in Tools, DisarmReserved(t) PROVE Types'
  BY <1>7 DEF DisarmReserved, Types, Calls, Command, Event, Ops, flags, tools, loop, calling,
    history, Goto, Return
<1>8. ASSUME NEW t \in Tools, Send(t) PROVE Types'
  <2>1. commands' \in Seq(Command)
    BY <1>8, Appended DEF Send, Types, Command
  <2>2. wanted' \subseteq wanted
    BY <1>8 DEF Send
  <2>3. /\ pc' \in [Tools -> {"idle", "gen", "reserve", "current", "unreserve", "send", "dial"}]
        /\ op' \in [Tools -> Ops] /\ mine' \in [Tools -> Nat]
    <3>1. CASE op[t] = "dial_record"
      BY <1>8, <3>1 DEF Send, Types, Goto
    <3>2. CASE op[t] # "dial_record"
      <4>1. pc' = [pc EXCEPT ![t] = "idle"] /\ op' = [op EXCEPT ![t] = "dial"] /\ mine' = [mine EXCEPT ![t] = 0]
        BY <1>8, <3>2 DEF Send, Return, Goto
      <4>2. QED
        BY <4>1 DEF Types, Ops
    <3>3. QED
      BY <3>1, <3>2
  <2>4. QED
    BY <1>8, <2>1, <2>2, <2>3 DEF Send, Types, Goto, Return, loop, calling, flags
<1>9. ASSUME NEW t \in Tools, Dial(t) PROVE Types'
  <2>1. [type |-> op[t], gen |-> IF op[t] = "dial" THEN 0 ELSE mine[t]] \in Command
    BY <1>9 DEF Dial, Types, Places, Command, Ops
  <2>2. commands' \in Seq(Command)
    BY <1>9, <2>1, Appended DEF Dial, Types
  <2>3. QED
    BY <1>9, <2>2 DEF Dial, Types, Goto, Return, Ops, flags, calling, history, loop
<1>10. ASSUME BridgeRecv PROVE Types'
  <2>1. events # <<>> /\ events \in Seq(Event) /\ events' = Tail(events)
    BY <1>10 DEF BridgeRecv, Types
  <2>2. events' \in Seq(Event) /\ Head(events) \in Event
    BY <2>1, Popped
  <2>3. known' \subseteq Calls /\ reserved' \in Nat /\ open' \subseteq open /\ wanted' \subseteq wanted
    BY <1>10, <2>2 DEF BridgeRecv, Types, Event
  <2>4. bridge' \in {"recv", "gen", "load"}
    BY <1>10 DEF BridgeRecv, Decision
  <2>5. QED
    BY <1>10, <2>2, <2>3, <2>4 DEF BridgeRecv, Types, tools, calling
<1>11. ASSUME BridgeGen PROVE Types'
  BY <1>11 DEF BridgeGen, Types, Calls, Command, Event, Ops, flags, tools, loop, calling, history,
    Handled, Decision
<1>12. ASSUME BridgeCurrent PROVE Types'
  BY <1>12 DEF BridgeCurrent, Types, Calls, Command, Event, Ops, flags, tools, loop, calling,
    history, Handled, Decision
<1>13. ASSUME BridgeLoad PROVE Types'
  BY <1>13 DEF BridgeLoad, Types, Calls, Command, Event, Ops, flags, tools, loop, calling,
    history, Handled, Decision
<1>14. ASSUME BridgeCheck PROVE Types'
  BY <1>14 DEF BridgeCheck, Types, Calls, Command, Event, Ops, flags, tools, loop, calling,
    history, Handled, Decision
<1>15. ASSUME BridgeCas PROVE Types'
  <2>1. current' \in Nat /\ loaded' \in Nat /\ bridge' \in {"recv", "disarm"}
    BY <1>15 DEF BridgeCas, Types, Handled
  <2>2. QED
    BY <1>15, <2>1 DEF BridgeCas, Types, tools, calling
<1>16. ASSUME BridgeSend PROVE Types'
  <2>1. commands' \in Seq(Command)
    BY <1>16, Appended DEF BridgeSend, Types, Command
  <2>2. QED
    BY <1>16, <2>1 DEF BridgeSend, Types, Handled, flags, tools, calling, history
<1>17. ASSUME WorkerRecord PROVE Types'
  <2>1. commands # <<>> /\ commands \in Seq(Command) /\ commands' = Tail(commands)
    BY <1>17 DEF WorkerRecord, Types
  <2>2. commands' \in Seq(Command) /\ Head(commands) \in Command
    BY <2>1, Popped
  <2>3. armed' \in Nat
    BY <1>17, <2>2 DEF WorkerRecord, Command
  <2>4. QED
    BY <1>17, <2>2, <2>3 DEF WorkerRecord, Types, flags, tools, history, loop
<1>18. ASSUME WorkerDial PROVE Types'
  <2>1. commands # <<>> /\ commands \in Seq(Command) /\ commands' = Tail(commands)
    BY <1>18 DEF WorkerDial, Types
  <2>2. commands' \in Seq(Command) /\ Head(commands) \in Command
    BY <2>1, Popped
  <2>a. Head(commands).gen \in Nat
    BY <2>2 DEF Command
  <2>3. CASE NewCall("outgoing") /\ dialed' = [dialed EXCEPT ![ncalls + 1] = Head(commands).gen]
             /\ UNCHANGED <<open, wanted>>
    <3>1. ncalls + 1 \in Calls /\ ncalls' = ncalls + 1 /\ ncalls \in Nat
      BY <2>3 DEF NewCall, Types, Calls
    <3>2. events' \in Seq(Event)
      BY <2>3, <3>1, Appended DEF NewCall, Types, Event
    <3>3. calls' \subseteq 1 .. ncalls' /\ ncalls' \in 0 .. MaxCalls
      BY <2>3, <3>1 DEF NewCall, Types, Calls
    <3>4. dialed' \in [Calls -> Nat]
      BY <2>a, <2>3, <3>1 DEF Types
    <3>5. QED
      BY <1>18, <2>2, <2>3, <3>2, <3>3, <3>4 DEF WorkerDial, Types, flags, tools, loop
  <2>4. CASE open' \subseteq open /\ wanted' \subseteq wanted /\ UNCHANGED <<calls, ncalls, events, dialed>>
    BY <1>18, <2>2, <2>4 DEF WorkerDial, Types, flags, tools, loop
  <2>5. QED
    BY <1>18, <2>3, <2>4 DEF WorkerDial
<1>19. ASSUME WorkerIncoming PROVE Types'
  <2>1. ncalls + 1 \in Calls /\ ncalls' = ncalls + 1 /\ ncalls \in Nat
    BY <1>19 DEF WorkerIncoming, NewCall, Types, Calls
  <2>2. events' \in Seq(Event)
    BY <1>19, <2>1, Appended DEF WorkerIncoming, NewCall, Types, Event
  <2>3. calls' \subseteq 1 .. ncalls' /\ ncalls' \in 0 .. MaxCalls
    BY <1>19, <2>1 DEF WorkerIncoming, NewCall, Types, Calls
  <2>4. QED
    BY <1>19, <2>2, <2>3 DEF WorkerIncoming, Types, flags, tools, loop, history
<1>20. ASSUME NEW c \in Calls, WorkerClose(c) PROVE Types'
  <2>1. events' \in Seq(Event)
    BY <1>20, Appended DEF WorkerClose, Types, Event
  <2>2. QED
    BY <1>20, <2>1 DEF WorkerClose, Types, flags, tools, loop
<1>21. QED
  BY <1>1, <1>2, <1>3, <1>4, <1>5, <1>6, <1>7, <1>8, <1>9, <1>10, <1>11, <1>12, <1>13, <1>14,
    <1>15, <1>16, <1>17, <1>18, <1>19, <1>20 DEF Next, Tool, Bridge, Worker

LEMMA PlacesStep ==
  ASSUME Types, Places, [Next]_vars
  PROVE  Places'
<1> USE McpRecordingAssumption
<1>1. ASSUME UNCHANGED vars \/ WorkerRecord \/ WorkerDial \/ WorkerIncoming
               \/ (\E c \in Calls : WorkerClose(c))
      PROVE  Places'
  <2>1. UNCHANGED <<pc, op, mine, bridge, loaded, record_default>>
    BY <1>1 DEF vars, WorkerRecord, WorkerDial, WorkerIncoming, WorkerClose, flags, tools, loop,
      calling, history
  <2>2. QED
    BY <2>1 DEF Places
<1>2. ASSUME NEW t \in Tools, NEW o \in Ops, ToolCall(t, o) PROVE Places'
  <2>1. mine[t] = 0 /\ pc[t] = "idle"
    BY <1>2 DEF ToolCall, Places
  <2>2. /\ \A u \in Tools : u # t => pc'[u] = pc[u] /\ op'[u] = op[u]
        /\ op'[t] = o /\ mine' = mine
        /\ pc'[t] = CASE o = "dial" -> "dial" [] o = "record_stop" -> "current" [] OTHER -> "gen"
    BY <1>2 DEF ToolCall, Types, Goto
  <2>3. UNCHANGED <<bridge, loaded, record_default>>
    BY <1>2 DEF ToolCall, loop
  <2>4. QED
    BY <2>1, <2>2, <2>3 DEF Places, Ops
<1>3. ASSUME NEW t \in Tools, ArmGen(t) PROVE Places'
  BY <1>3 DEF ArmGen, Types, Places, flags, tools, loop, calling, history, Goto, Return
<1>4. ASSUME NEW t \in Tools, ArmReserve(t) PROVE Places'
  BY <1>4 DEF ArmReserve, Types, Places, flags, tools, loop, calling, history, Goto, Return
<1>5. ASSUME NEW t \in Tools, ArmCurrent(t) PROVE Places'
  BY <1>5 DEF ArmCurrent, Types, Places, flags, tools, loop, calling, history, Goto, Return
<1>6. ASSUME NEW t \in Tools, DisarmCurrent(t) PROVE Places'
  BY <1>6 DEF DisarmCurrent, Types, Places, flags, tools, loop, calling, history, Goto, Return
<1>7. ASSUME NEW t \in Tools, DisarmReserved(t) PROVE Places'
  BY <1>7 DEF DisarmReserved, Types, Places, flags, tools, loop, calling, history, Goto, Return
<1>8. ASSUME NEW t \in Tools, Send(t) PROVE Places'
  <2>1. CASE op[t] = "dial_record"
    BY <1>8, <2>1 DEF Send, Types, Places, Goto, loop
  <2>2. CASE op[t] # "dial_record"
    BY <1>8, <2>2 DEF Send, Types, Places, Goto, Return, loop
  <2>3. QED
    BY <2>1, <2>2
<1>9. ASSUME NEW t \in Tools, Dial(t) PROVE Places'
  BY <1>9 DEF Dial, Types, Places, Goto, Return, loop
<1>10. ASSUME BridgeRecv PROVE Places'
  BY <1>10 DEF BridgeRecv, Types, Places, Decision, tools
<1>11. ASSUME BridgeGen PROVE Places'
  BY <1>11 DEF BridgeGen, Types, Places, flags, tools, loop, calling, history, Handled, Decision
<1>12. ASSUME BridgeCurrent PROVE Places'
  BY <1>12 DEF BridgeCurrent, Types, Places, flags, tools, loop, calling, history, Handled, Decision
<1>13. ASSUME BridgeLoad PROVE Places'
  BY <1>13 DEF BridgeLoad, Types, Places, flags, tools, loop, calling, history, Handled, Decision
<1>14. ASSUME BridgeCheck PROVE Places'
  BY <1>14 DEF BridgeCheck, Types, Places, flags, tools, loop, calling, history, Handled, Decision
<1>15. ASSUME BridgeCas PROVE Places'
  BY <1>15 DEF BridgeCas, Types, Places, flags, tools, loop, calling, history, Handled, Decision
<1>16. ASSUME BridgeSend PROVE Places'
  BY <1>16 DEF BridgeSend, Types, Places, Handled, tools
<1>17. QED
  BY <1>1, <1>2, <1>3, <1>4, <1>5, <1>6, <1>7, <1>8, <1>9, <1>10, <1>11, <1>12, <1>13, <1>14,
    <1>15, <1>16 DEF Next, Tool, Bridge, Worker

LEMMA CarriedStep ==
  ASSUME Types, Places, Carried, [Next]_vars
  PROVE  Carried'
<1> USE McpRecordingAssumption
<1>1. ASSUME UNCHANGED vars \/ (\E t \in Tools, o \in Ops : ToolCall(t, o))
               \/ (\E t \in Tools : ArmGen(t)) \/ (\E t \in Tools : ArmReserve(t))
               \/ (\E t \in Tools : ArmCurrent(t))
               \/ (\E t \in Tools : DisarmCurrent(t))
               \/ (\E t \in Tools : DisarmReserved(t)) \/ BridgeRecv \/ BridgeGen
               \/ BridgeCurrent \/ BridgeLoad \/ BridgeCheck \/ BridgeCas
               \/ WorkerIncoming \/ (\E c \in Calls : WorkerClose(c))
      PROVE  Carried'
  <2>1. UNCHANGED <<commands>>
    BY <1>1 DEF vars, ToolCall, ArmGen, ArmReserve, ArmCurrent, DisarmCurrent, DisarmReserved,
      BridgeRecv, BridgeGen, BridgeCurrent, BridgeLoad, BridgeCheck, BridgeCas, WorkerIncoming,
      WorkerClose, flags, tools, loop, calling, history
  <2>2. QED
    BY <2>1 DEF Carried
<1>2. ASSUME NEW t \in Tools, Send(t) PROVE Carried'
  <2>1. CommandPushes(IF op[t] = "record_stop" THEN [type |-> "disarm", gen |-> 0]
                      ELSE [type |-> "arm", gen |-> mine[t]])
    BY <1>2, SendPushes
  <2>2. op[t] # "record_stop" => mine[t] # 0
    BY <1>2 DEF Send, Places, Types, Ops
  <2>3. QED
    BY <2>1, <2>2 DEF Carried, CommandPushes
<1>3. ASSUME NEW t \in Tools, Dial(t) PROVE Carried'
  <2>1. CommandPushes([type |-> op[t], gen |-> IF op[t] = "dial" THEN 0 ELSE mine[t]])
    BY <1>3, DialPushes
  <2>2. op[t] \in {"dial", "dial_record"} /\ (op[t] = "dial_record" => mine[t] # 0)
    BY <1>3 DEF Dial, Places
  <2>3. QED
    BY <2>1, <2>2 DEF Carried, CommandPushes
<1>4. ASSUME BridgeSend PROVE Carried'
  <2>1. CommandPushes([type |-> bridge, gen |-> loaded])
    BY <1>4, BridgeSendPushes
  <2>2. (bridge = "arm" /\ loaded # 0) \/ (bridge = "disarm" /\ loaded = 0)
    BY <1>4 DEF BridgeSend, Places
  <2>3. QED
    BY <2>1, <2>2 DEF Carried, CommandPushes
<1>5. ASSUME WorkerRecord PROVE Carried'
  <2>1. CommandPops
    BY <1>5, CommandPopped DEF WorkerRecord
  <2>2. QED
    BY <2>1 DEF Carried, CommandPops
<1>6. ASSUME WorkerDial PROVE Carried'
  <2>1. CommandPops
    BY <1>6, CommandPopped DEF WorkerDial
  <2>2. QED
    BY <2>1 DEF Carried, CommandPops
<1>7. QED
  BY <1>1, <1>2, <1>3, <1>4, <1>5, <1>6 DEF Next, Tool, Bridge, Worker

LEMMA DrawnStep ==
  ASSUME Types, Types', Places, Carried, Drawn, [Next]_vars
  PROVE  Drawn'
<1> USE McpRecordingAssumption
<1>1. ASSUME UNCHANGED vars \/ (\E t \in Tools, o \in Ops : ToolCall(t, o))
      PROVE  Drawn'
  <2>1. UNCHANGED <<current, loaded, next_generation, mine, dialed, ncalls, open, wanted, commands>>
    BY <1>1 DEF vars, ToolCall, flags, tools, loop, calling, history
  <2>2. QED
    BY <2>1 DEF Drawn
<1>2. ASSUME NEW t \in Tools, ArmGen(t) PROVE Drawn'
  <2>1. UNCHANGED <<current, loaded, dialed, ncalls, open, wanted, commands>>
    BY <1>2 DEF ArmGen, loop, calling, history
  <2>2. next_generation' = next_generation + 1
    BY <1>2 DEF ArmGen
  <2>3. \A u \in Tools : mine'[u] < next_generation'
    BY <1>2 DEF ArmGen, Types, Drawn
  <2>4. \A i \in 1 .. Len(commands) : commands[i].gen \in Nat
    BY Numbers
  <2>5. QED
    BY <2>1, <2>2, <2>3, <2>4 DEF Drawn, Types
<1>3. ASSUME NEW t \in Tools, ArmReserve(t) PROVE Drawn'
  BY <1>3 DEF ArmReserve, Types, Drawn, flags, tools, loop, calling, history, Goto, Return
<1>4. ASSUME NEW t \in Tools, ArmCurrent(t) PROVE Drawn'
  BY <1>4 DEF ArmCurrent, Types, Drawn, flags, tools, loop, calling, history, Goto, Return
<1>5. ASSUME NEW t \in Tools, DisarmCurrent(t) PROVE Drawn'
  BY <1>5 DEF DisarmCurrent, Types, Drawn, flags, tools, loop, calling, history, Goto, Return
<1>6. ASSUME NEW t \in Tools, DisarmReserved(t) PROVE Drawn'
  BY <1>6 DEF DisarmReserved, Types, Drawn, flags, tools, loop, calling, history, Goto, Return
<1>7. ASSUME NEW t \in Tools, Send(t) PROVE Drawn'
  <2>1. CommandPushes(IF op[t] = "record_stop" THEN [type |-> "disarm", gen |-> 0]
                      ELSE [type |-> "arm", gen |-> mine[t]])
    BY <1>7, SendPushes
  <2>2. /\ UNCHANGED <<current, loaded, next_generation, dialed, ncalls, open>> /\ wanted' \subseteq wanted
        /\ \A u \in Tools : mine'[u] \in {mine[u], 0}
    BY <1>7 DEF Send, Types, Return, flags, loop, calling
  <2>3. \A i \in 1 .. Len(commands') : commands'[i].gen < next_generation
    <3>1. \A i \in 1 .. Len(commands') : i \in 1 .. Len(commands) \/ commands'[i].gen \in {0, mine[t]}
      BY <2>1 DEF CommandPushes
    <3>2. QED
      BY <2>1, <3>1, Numbers DEF Drawn, CommandPushes
  <2>4. \A u \in Tools : mine'[u] < next_generation
    BY <2>2, Numbers DEF Drawn
  <2>5. QED
    BY <2>2, <2>3, <2>4 DEF Drawn
<1>8. ASSUME NEW t \in Tools, Dial(t) PROVE Drawn'
  <2>1. CommandPushes([type |-> op[t], gen |-> IF op[t] = "dial" THEN 0 ELSE mine[t]])
    BY <1>8, DialPushes
  <2>2. QED
    BY <1>8, <2>1 DEF Dial, Types, Drawn, flags, tools, loop, calling, history, Goto, Return,
      CommandPushes
<1>9. ASSUME BridgeRecv PROVE Drawn'
  <2>1. EventPops
    BY <1>9, EventPopped DEF BridgeRecv
  <2>2. QED
    BY <1>9, <2>1 DEF BridgeRecv, Types, Drawn, flags, tools, loop, calling, history, Handled,
      Decision, EventPops
<1>10. ASSUME BridgeGen PROVE Drawn'
  <2>1. UNCHANGED <<current, mine, dialed, ncalls, open, wanted, commands>>
    BY <1>10 DEF BridgeGen, tools, calling, history
  <2>2. next_generation' = next_generation + 1 /\ loaded' = next_generation
    BY <1>10 DEF BridgeGen
  <2>3. \A i \in 1 .. Len(commands) : commands[i].gen \in Nat
    BY Numbers
  <2>4. QED
    BY <2>1, <2>2, <2>3, Numbers DEF Drawn
<1>11. ASSUME BridgeCurrent PROVE Drawn'
  BY <1>11 DEF BridgeCurrent, Types, Drawn, flags, tools, loop, calling, history, Handled, Decision
<1>12. ASSUME BridgeLoad PROVE Drawn'
  BY <1>12 DEF BridgeLoad, Types, Drawn, flags, tools, loop, calling, history, Handled, Decision
<1>13. ASSUME BridgeCheck PROVE Drawn'
  BY <1>13 DEF BridgeCheck, Types, Drawn, flags, tools, loop, calling, history, Handled, Decision
<1>14. ASSUME BridgeCas PROVE Drawn'
  BY <1>14 DEF BridgeCas, Types, Drawn, flags, tools, loop, calling, history, Handled, Decision
<1>15. ASSUME BridgeSend PROVE Drawn'
  <2>1. CommandPushes([type |-> bridge, gen |-> loaded])
    BY <1>15, BridgeSendPushes
  <2>2. QED
    BY <1>15, <2>1 DEF BridgeSend, Types, Drawn, flags, tools, loop, calling, history, Handled,
      Decision, CommandPushes
<1>16. ASSUME WorkerRecord PROVE Drawn'
  <2>1. CommandPops
    BY <1>16, CommandPopped DEF WorkerRecord
  <2>2. QED
    BY <1>16, <2>1 DEF WorkerRecord, Types, Drawn, flags, tools, loop, calling, history, CommandPops
<1>17. ASSUME WorkerDial PROVE Drawn'
  <2>1. CommandPops
    BY <1>17, CommandPopped DEF WorkerDial
  <2>2. UNCHANGED <<current, loaded, next_generation, mine>> /\ open' \subseteq open /\ wanted' \subseteq wanted
    BY <1>17 DEF WorkerDial, flags, tools, loop
  <2>3. \A i \in 1 .. Len(commands') : commands'[i].gen < next_generation
    BY <2>1 DEF Drawn, CommandPops
  <2>4. \A c \in Calls : dialed'[c] < next_generation /\ (c > ncalls' => dialed'[c] = 0)
    <3>1. CASE NewCall("outgoing") /\ dialed' = [dialed EXCEPT ![ncalls + 1] = Head(commands).gen]
      <4>1. ncalls' = ncalls + 1 /\ ncalls \in Nat /\ Head(commands).gen < next_generation
        BY <2>1, <3>1 DEF NewCall, Types, Drawn, CommandPops
      <4>2. QED
        BY <3>1, <4>1 DEF Drawn, Types, Calls
    <3>2. CASE UNCHANGED <<ncalls, dialed>>
      BY <3>2 DEF Drawn
    <3>3. QED
      BY <1>17, <3>1, <3>2 DEF WorkerDial
  <2>5. QED
    BY <2>2, <2>3, <2>4 DEF Drawn
<1>18. ASSUME WorkerIncoming PROVE Drawn'
  <2>1. ncalls' = ncalls + 1 /\ ncalls \in Nat
    BY <1>18 DEF WorkerIncoming, NewCall, Types
  <2>2. UNCHANGED <<current, loaded, next_generation, mine, dialed, open, wanted, commands>>
    BY <1>18 DEF WorkerIncoming, flags, tools, loop, history
  <2>3. \A c \in Calls : c > ncalls' => dialed[c] = 0
    BY <2>1 DEF Drawn, Calls
  <2>4. QED
    BY <2>2, <2>3 DEF Drawn
<1>19. ASSUME NEW c \in Calls, WorkerClose(c) PROVE Drawn'
  <2>1. EventPushes([type |-> "closed", call |-> c])
    BY <1>19, ClosePushes
  <2>2. QED
    BY <1>19, <2>1 DEF WorkerClose, Types, Drawn, flags, tools, loop, calling, history, EventPushes
<1>20. QED
  BY <1>1, <1>2, <1>3, <1>4, <1>5, <1>6, <1>7, <1>8, <1>9, <1>10, <1>11, <1>12, <1>13, <1>14,
    <1>15, <1>16, <1>17, <1>18, <1>19 DEF Next, Tool, Bridge, Worker

-----------------------------------------------------------------------------
(* What the worker will record, as commands come and go.                   *)

LEMMA RecordsPop ==
  ASSUME Types, Carried, CommandPops,
         armed' = IF commands[1].type \in Record THEN commands[1].gen ELSE armed
  PROVE  \A j \in 1 .. Len(commands') + 1 :
           Records(commands', armed', j) <=> Records(commands, armed, j + 1)
<1> SUFFICES ASSUME NEW j \in 1 .. Len(commands') + 1
             PROVE  Records(commands', armed', j) <=> Records(commands, armed, j + 1)
  OBVIOUS
<1> DEFINE q == commands  r == commands'
<1>1. /\ Len(r) \in Nat /\ j \in Nat /\ (j + 1) - 1 = j /\ 1 \in 1 .. j
      /\ \A i \in 1 .. j - 1 : r[i] = q[i + 1] /\ i + 1 \in 2 .. j
      /\ \A i \in 2 .. j : i - 1 \in 1 .. j - 1 /\ r[i - 1] = q[i]
  BY DEF CommandPops
<1>2. /\ q[1].type \in Record => (armed' # 0 <=> q[1].type = "arm")
      /\ q[1].type \notin Record => armed' = armed
  BY DEF Carried, CommandPops, Record
<1> HIDE DEF q, r
<1>3. ASSUME Records(r, armed', j) PROVE Records(q, armed, j + 1)
  <2>1. CASE armed' # 0 /\ \A i \in 1 .. j - 1 : r[i].type \notin Record
    <3>1. \A i \in 2 .. j : q[i].type \notin Record
      BY <1>1, <2>1
    <3>2. CASE q[1].type \in Record
      BY <1>1, <1>2, <2>1, <3>1, <3>2 DEF Records
    <3>3. CASE q[1].type \notin Record
      BY <1>1, <1>2, <2>1, <3>1, <3>3 DEF Records
    <3>4. QED
      BY <3>2, <3>3
  <2>2. ASSUME NEW i \in 1 .. j - 1, r[i].type = "arm", \A k \in i + 1 .. j - 1 : r[k].type \notin Record
        PROVE  Records(q, armed, j + 1)
    <3>1. i + 1 \in 1 .. (j + 1) - 1 /\ q[i + 1].type = "arm"
      BY <1>1, <2>2
    <3>2. ASSUME NEW k \in (i + 1) + 1 .. (j + 1) - 1 PROVE q[k].type \notin Record
      <4>1. k \in 2 .. j /\ k - 1 \in i + 1 .. j - 1
        BY <1>1
      <4>2. QED
        BY <1>1, <2>2, <4>1
    <3>3. QED
      BY <3>1, <3>2 DEF Records
  <2>3. QED
    BY <1>3, <2>1, <2>2 DEF Records
<1>4. ASSUME Records(q, armed, j + 1) PROVE Records(r, armed', j)
  <2>1. CASE armed # 0 /\ \A i \in 1 .. (j + 1) - 1 : q[i].type \notin Record
    BY <1>1, <1>2, <2>1 DEF Records
  <2>2. ASSUME NEW i \in 1 .. (j + 1) - 1, q[i].type = "arm",
               \A k \in i + 1 .. (j + 1) - 1 : q[k].type \notin Record
        PROVE  Records(r, armed', j)
    <3>1. CASE i = 1
      <4>1. armed' # 0
        BY <1>2, <2>2, <3>1 DEF Record
      <4>2. ASSUME NEW k \in 1 .. j - 1 PROVE r[k].type \notin Record
        <5>1. k + 1 \in i + 1 .. (j + 1) - 1 /\ r[k] = q[k + 1]
          BY <1>1, <3>1
        <5>2. QED
          BY <2>2, <5>1
      <4>3. QED
        BY <4>1, <4>2 DEF Records
    <3>2. CASE i # 1
      <4>1. i \in 2 .. j /\ i - 1 \in 1 .. j - 1 /\ r[i - 1].type = "arm"
        BY <1>1, <2>2, <3>2
      <4>2. ASSUME NEW k \in (i - 1) + 1 .. j - 1 PROVE r[k].type \notin Record
        <5>1. k \in 1 .. j - 1 /\ k + 1 \in i + 1 .. (j + 1) - 1
          BY <1>1, <4>1
        <5>2. QED
          BY <1>1, <2>2, <5>1
      <4>3. QED
        BY <4>1, <4>2 DEF Records
    <3>3. QED
      BY <3>1, <3>2
  <2>3. QED
    BY <1>4, <2>1, <2>2 DEF Records
<1>5. QED
  BY <1>3, <1>4 DEF q, r

LEMMA RecordsPush ==
  ASSUME NEW e, CommandPushes(e)
  PROVE  /\ \A j \in 1 .. Len(commands) + 1 :
              Records(commands', armed, j) <=> Records(commands, armed, j)
         /\ e.type = "arm" => Records(commands', armed, Len(commands') + 1)
         /\ e.type = "disarm" => ~ Records(commands', armed, Len(commands') + 1)
         /\ e.type \notin Record =>
              (Records(commands', armed, Len(commands') + 1)
                 <=> Records(commands, armed, Len(commands) + 1))
<1> DEFINE q == commands  r == commands'  n == Len(commands)
<1>1. /\ n \in Nat /\ Len(r) = n + 1 /\ r[n + 1] = e
      /\ \A i \in 1 .. n : r[i] = q[i]
  BY DEF CommandPushes
<1> HIDE DEF q, r, n
<1>2. \A j \in 1 .. n + 1 : Records(r, armed, j) <=> Records(q, armed, j)
  BY <1>1 DEF Records
<1>3. (n + 2) - 1 = n + 1 /\ Len(r) + 1 = n + 2 /\ n + 1 \in 1 .. n + 1
  BY <1>1
<1>4. ASSUME e.type = "arm" PROVE Records(r, armed, n + 2)
  BY <1>1, <1>3, <1>4 DEF Records
<1>5. ASSUME e.type = "disarm" PROVE ~ Records(r, armed, n + 2)
  BY <1>1, <1>3, <1>5 DEF Records, Record
<1>6. ASSUME e.type \notin Record PROVE Records(r, armed, n + 2) <=> Records(q, armed, n + 1)
  <2>1. \A k \in 1 .. n + 1 : k \in 1 .. n \/ k = n + 1
    BY <1>1
  <2>2. Records(q, armed, n + 1) => Records(r, armed, n + 2)
    BY <1>1, <1>3, <1>6, <2>1 DEF Records, Record
  <2>3. Records(r, armed, n + 2) => Records(q, armed, n + 1)
    BY <1>1, <1>3, <1>6, <2>1 DEF Records, Record
  <2>4. QED
    BY <2>2, <2>3
<1>7. QED
  BY <1>2, <1>3, <1>4, <1>5, <1>6 DEF q, r, n

LEMMA ToldStep ==
  ASSUME Types, Places, Carried, Told, [Next]_vars
  PROVE  Told'
<1> USE McpRecordingAssumption
<1>1. ASSUME UNCHANGED vars \/ WorkerIncoming \/ (\E c \in Calls : WorkerClose(c))
      PROVE  Told'
  <2>1. UNCHANGED <<clash, current, bridge, pc, op, commands, armed>>
    BY <1>1 DEF vars, WorkerIncoming, WorkerClose, flags, tools, loop, calling, history
  <2>2. QED
    BY <2>1 DEF Told, MidArm, MidDisarm
<1>2. ASSUME NEW t \in Tools, NEW o \in Ops, ToolCall(t, o) PROVE Told'
  BY <1>2 DEF ToolCall, Types, Told, MidArm, MidDisarm, flags, tools, loop, calling, history,
    Goto, Return
<1>3. ASSUME NEW t \in Tools, ArmGen(t) PROVE Told'
  BY <1>3 DEF ArmGen, Types, Told, MidArm, MidDisarm, flags, tools, loop, calling, history, Goto,
    Return
<1>4. ASSUME NEW t \in Tools, ArmReserve(t) PROVE Told'
  BY <1>4 DEF ArmReserve, Types, Told, MidArm, MidDisarm, flags, tools, loop, calling, history,
    Goto, Return
<1>5. ASSUME NEW t \in Tools, ArmCurrent(t) PROVE Told'
  <2>1. current' # 0 /\ MidArm'
    <3>1. op[t] \in {"record_start", "dial_record"}
      BY <1>5 DEF ArmCurrent, Places, Types, Ops
    <3>2. QED
      BY <1>5, <3>1 DEF ArmCurrent, Places, MidArm, Goto, Types
  <2>2. MidDisarm' <=> MidDisarm
    BY <1>5 DEF ArmCurrent, MidDisarm, Goto, Types, loop
  <2>3. clash' <=> MidDisarm
    BY <1>5 DEF ArmCurrent
  <2>4. QED
    BY <2>1, <2>2, <2>3 DEF Told
<1>6. ASSUME NEW t \in Tools, DisarmCurrent(t) PROVE Told'
  BY <1>6 DEF DisarmCurrent, Types, Told, MidArm, MidDisarm, flags, tools, loop, calling, history,
    Goto, Return
<1>7. ASSUME NEW t \in Tools, DisarmReserved(t) PROVE Told'
  <2>1. op[t] = "record_stop" /\ UNCHANGED <<commands, armed, current, clash, bridge>>
    BY <1>7 DEF DisarmReserved, Places, loop, calling
  <2>2. (MidDisarm' <=> MidDisarm) /\ (MidArm' <=> MidArm)
    BY <1>7, <2>1 DEF DisarmReserved, MidArm, MidDisarm, Goto, Types
  <2>3. QED
    BY <2>1, <2>2 DEF Told
<1>8. ASSUME NEW t \in Tools, Send(t) PROVE Told'
  <2> DEFINE e == IF op[t] = "record_stop" THEN [type |-> "disarm", gen |-> 0]
                  ELSE [type |-> "arm", gen |-> mine[t]]
  <2>1. CommandPushes(e) /\ e.type = IF op[t] = "record_stop" THEN "disarm" ELSE "arm"
    BY <1>8, SendPushes
  <2> HIDE DEF e
  <2>2. UNCHANGED <<armed, current, bridge, clash>>
    BY <1>8 DEF Send, flags, loop, calling
  <2>3. Records(commands', armed', Len(commands') + 1) <=> op[t] # "record_stop"
    BY <2>1, <2>2, RecordsPush
  <2>4. (MidArm' => MidArm) /\ (MidDisarm' => MidDisarm)
    <3>1. /\ \A u \in Tools : pc'[u] \in {"unreserve", "send"} => u # t
          /\ \A u \in Tools : u # t => pc'[u] = pc[u] /\ op'[u] = op[u]
      BY <1>8 DEF Send, Goto, Return, Types
    <3>2. QED
      BY <2>2, <3>1 DEF MidArm, MidDisarm
  <2>5. IF op[t] = "record_stop" THEN MidDisarm ELSE MidArm
    BY <1>8 DEF Send, MidArm, MidDisarm
  <2>6. QED
    BY <2>2, <2>3, <2>4, <2>5 DEF Told
<1>9. ASSUME NEW t \in Tools, Dial(t) PROVE Told'
  <2>1. CommandPushes([type |-> op[t], gen |-> IF op[t] = "dial" THEN 0 ELSE mine[t]])
    BY <1>9, DialPushes
  <2>2. op[t] \in {"dial", "dial_record"} /\ UNCHANGED <<armed, current, bridge, clash>>
    BY <1>9 DEF Dial, Places, flags, loop, calling, history
  <2>3. Records(commands', armed', Len(commands') + 1) <=> Records(commands, armed, Len(commands) + 1)
    BY <2>1, <2>2, RecordsPush DEF Record
  <2>4. (MidArm' <=> MidArm) /\ (MidDisarm' <=> MidDisarm)
    BY <1>9, <2>2 DEF Dial, MidArm, MidDisarm, Goto, Return, Types
  <2>5. QED
    BY <2>2, <2>3, <2>4 DEF Told
<1>10. ASSUME BridgeRecv PROVE Told'
  <2>1. EventPops
    BY <1>10, EventPopped DEF BridgeRecv
  <2>2. QED
    BY <1>10, <2>1 DEF BridgeRecv, Types, Told, MidArm, MidDisarm, flags, tools, loop, calling,
      history, Handled, Decision, EventPops
<1>11. ASSUME BridgeGen PROVE Told'
  BY <1>11 DEF BridgeGen, Types, Told, MidArm, MidDisarm, flags, tools, loop, calling, history,
    Handled, Decision
<1>12. ASSUME BridgeCurrent PROVE Told'
  <2>1. current' # 0 /\ MidArm'
    BY <1>12 DEF BridgeCurrent, Places, MidArm
  <2>2. MidDisarm' <=> MidDisarm
    BY <1>12 DEF BridgeCurrent, MidDisarm, tools
  <2>3. clash' <=> MidDisarm
    BY <1>12 DEF BridgeCurrent
  <2>4. QED
    BY <2>1, <2>2, <2>3 DEF Told
<1>13. ASSUME BridgeLoad PROVE Told'
  BY <1>13 DEF BridgeLoad, Types, Told, MidArm, MidDisarm, flags, tools, loop, calling, history,
    Handled, Decision
<1>14. ASSUME BridgeCheck PROVE Told'
  BY <1>14 DEF BridgeCheck, Types, Told, MidArm, MidDisarm, flags, tools, loop, calling, history,
    Handled, Decision
<1>15. ASSUME BridgeCas PROVE Told'
  BY <1>15 DEF BridgeCas, Types, Told, MidArm, MidDisarm, flags, tools, loop, calling, history,
    Handled, Decision
<1>16. ASSUME BridgeSend PROVE Told'
  <2>1. CommandPushes([type |-> bridge, gen |-> loaded]) /\ bridge \in {"arm", "disarm"}
    BY <1>16, BridgeSendPushes DEF BridgeSend
  <2>2. UNCHANGED <<armed, current, pc, op, clash>> /\ bridge' = "recv"
    BY <1>16 DEF BridgeSend, Handled, flags, tools, calling, history
  <2>3. Records(commands', armed', Len(commands') + 1) <=> bridge = "arm"
    BY <2>1, <2>2, RecordsPush
  <2>4. (MidArm' => MidArm) /\ (MidDisarm' => MidDisarm)
    BY <2>2 DEF MidArm, MidDisarm
  <2>5. IF bridge = "disarm" THEN MidDisarm ELSE MidArm
    BY <2>1 DEF MidArm, MidDisarm
  <2>6. QED
    BY <2>1, <2>2, <2>3, <2>4, <2>5 DEF Told
<1>17. ASSUME WorkerRecord PROVE Told'
  <2>1. CommandPops
    BY <1>17, CommandPopped DEF WorkerRecord
  <2>2. /\ armed' = IF commands[1].type \in Record THEN commands[1].gen ELSE armed
        /\ UNCHANGED <<current, bridge, pc, op, clash>>
    BY <1>17, <2>1 DEF WorkerRecord, CommandPops, Record, flags, tools, loop, history
  <2>3. Len(commands') + 1 \in 1 .. Len(commands') + 1 /\ Len(commands) = Len(commands') + 1
    BY <2>1 DEF CommandPops
  <2>4. Records(commands', armed', Len(commands') + 1) <=> Records(commands, armed, Len(commands) + 1)
    BY <2>1, <2>2, <2>3, RecordsPop
  <2>5. QED
    BY <2>2, <2>4 DEF Told, MidArm, MidDisarm
<1>18. ASSUME WorkerDial PROVE Told'
  <2>1. CommandPops
    BY <1>18, CommandPopped DEF WorkerDial
  <2>2. /\ armed' = IF commands[1].type \in Record THEN commands[1].gen ELSE armed
        /\ UNCHANGED <<current, bridge, pc, op, clash>>
    BY <1>18, <2>1 DEF WorkerDial, CommandPops, Record, flags, tools, loop, history
  <2>3. Len(commands') + 1 \in 1 .. Len(commands') + 1 /\ Len(commands) = Len(commands') + 1
    BY <2>1 DEF CommandPops
  <2>4. Records(commands', armed', Len(commands') + 1) <=> Records(commands, armed, Len(commands) + 1)
    BY <2>1, <2>2, <2>3, RecordsPop
  <2>5. QED
    BY <2>2, <2>4 DEF Told, MidArm, MidDisarm
<1>19. QED
  BY <1>1, <1>2, <1>3, <1>4, <1>5, <1>6, <1>7, <1>8, <1>9, <1>10, <1>11, <1>12, <1>13, <1>14,
    <1>15, <1>16, <1>17, <1>18 DEF Next, Tool, Bridge, Worker

LEMMA FlagsInit == Init => Types /\ Places /\ Carried /\ Told
<1> SUFFICES ASSUME Init PROVE Types /\ Places /\ Carried /\ Told
  OBVIOUS
<1> USE McpRecordingAssumption
<1>0. commands = <<>> /\ events = <<>> /\ Len(commands) = 0 /\ Len(events) = 0
  BY DEF Init
<1>1. Types
  BY <1>0 DEF Init, Types, Calls, Ops
<1>2. Places /\ Carried
  BY <1>0 DEF Init, Places, Carried
<1>3. ~ MidArm /\ ~ MidDisarm
  BY DEF Init, MidArm, MidDisarm
<1>4. Told
  BY <1>0, <1>3 DEF Init, Told, Records
<1>5. QED
  BY <1>1, <1>2, <1>4

LEMMA FlagsInv == Spec => [](Types /\ Places /\ Carried /\ Told)
<1>1. Types /\ Places /\ Carried /\ Told /\ [Next]_vars => (Types /\ Places /\ Carried /\ Told)'
  BY TypesStep, PlacesStep, CarriedStep, ToldStep
<1>2. QED
  BY <1>1, FlagsInit, PTL DEF Spec

\* The atomics of RecordingState and the worker agree on whether it records whenever
\* nothing is under way, whichever tools and bridge changed it at once and whatever the
\* calls did meanwhile, unless an arm and a disarm crossed and nothing came after.
THEOREM FlagsAgreeSafe == Spec => []FlagsAgree
<1>1. ASSUME Types, Told PROVE FlagsAgree
  <2>1. SUFFICES ASSUME Quiet, ~ clash PROVE armed = 0 <=> current = 0
    BY DEF FlagsAgree
  <2>2. ~ MidArm /\ ~ MidDisarm /\ Len(commands) = 0
    BY <2>1 DEF Quiet, MidArm, MidDisarm
  <2>3. Records(commands, armed, 1) <=> current # 0
    BY <1>1, <2>1, <2>2 DEF Told
  <2>4. QED
    BY <2>3 DEF Records
<1>2. QED
  BY <1>1, FlagsInv, PTL

-----------------------------------------------------------------------------
LEMMA UniqueStep ==
  ASSUME Types, Places, Carried, Drawn, Unique, [Next]_vars
  PROVE  Unique'
<1> USE McpRecordingAssumption
<1>1. ASSUME UNCHANGED vars \/ (\E t \in Tools, o \in Ops : ToolCall(t, o))
               \/ (\E t \in Tools : ArmReserve(t)) \/ (\E t \in Tools : ArmCurrent(t))
               \/ (\E t \in Tools : DisarmCurrent(t))
               \/ (\E t \in Tools : DisarmReserved(t)) \/ BridgeRecv \/ BridgeGen
               \/ BridgeCurrent \/ BridgeLoad \/ BridgeCheck \/ BridgeCas
               \/ WorkerIncoming \/ (\E c \in Calls : WorkerClose(c))
      PROVE  Unique'
  <2>1. UNCHANGED <<mine, dialed, commands>>
    BY <1>1 DEF vars, ToolCall, ArmReserve, ArmCurrent, DisarmCurrent, DisarmReserved, BridgeRecv,
      BridgeGen, BridgeCurrent, BridgeLoad, BridgeCheck, BridgeCas, WorkerIncoming, WorkerClose,
      flags, tools, loop, calling, history
  <2>2. QED
    BY <2>1 DEF Unique, IsDial
<1>2. ASSUME NEW t \in Tools, ArmGen(t) PROVE Unique'
  <2>1. /\ mine' = [mine EXCEPT ![t] = next_generation]
        /\ UNCHANGED <<dialed, commands>>
    BY <1>2 DEF ArmGen, calling, history
  <2>2. /\ mine'[t] = next_generation /\ \A u \in Tools : u # t => mine'[u] = mine[u]
    BY <2>1 DEF Types
  <2>3. /\ \A u \in Tools : mine[u] # next_generation
        /\ \A c \in Calls : dialed[c] # next_generation
        /\ \A i \in 1 .. Len(commands) : commands[i].gen # next_generation
    BY Numbers DEF Drawn
  <2>4. QED
    BY <2>1, <2>2, <2>3 DEF Unique, IsDial
<1>3. ASSUME NEW t \in Tools, Send(t) PROVE Unique'
  <2>1. CommandPushes(IF op[t] = "record_stop" THEN [type |-> "disarm", gen |-> 0]
                      ELSE [type |-> "arm", gen |-> mine[t]])
    BY <1>3, SendPushes
  <2>2. UNCHANGED dialed /\ \A u \in Tools : mine'[u] \in {mine[u], 0}
    BY <1>3 DEF Send, Return, Types
  <2>3. \A i \in 1 .. Len(commands') :
          IsDial(i)' => i \in 1 .. Len(commands) /\ IsDial(i) /\ commands'[i] = commands[i]
    BY <2>1 DEF CommandPushes, IsDial
  <2>4. QED
    BY <2>2, <2>3 DEF Unique
<1>4. ASSUME NEW t \in Tools, Dial(t) PROVE Unique'
  <2>1. CommandPushes([type |-> op[t], gen |-> IF op[t] = "dial" THEN 0 ELSE mine[t]])
    BY <1>4, DialPushes
  <2>2. UNCHANGED dialed /\ mine'[t] = 0 /\ (\A u \in Tools : u # t => mine'[u] = mine[u])
    BY <1>4 DEF Dial, Return, Types, history
  <2>3. op[t] = "dial_record" => mine[t] # 0
    BY <1>4 DEF Dial, Places
  <2>4. \A i \in 1 .. Len(commands') : IsDial(i)' =>
          \/ i \in 1 .. Len(commands) /\ IsDial(i) /\ commands'[i] = commands[i]
          \/ i = Len(commands') /\ op[t] = "dial_record" /\ commands'[i].gen = mine[t]
    BY <2>1 DEF CommandPushes, IsDial
  <2>5. QED
    BY <2>2, <2>3, <2>4 DEF Unique
<1>5. ASSUME BridgeSend PROVE Unique'
  <2>1. CommandPushes([type |-> bridge, gen |-> loaded]) /\ bridge \in {"arm", "disarm"}
    BY <1>5, BridgeSendPushes DEF BridgeSend
  <2>2. UNCHANGED <<dialed, mine>>
    BY <1>5 DEF BridgeSend, tools, history
  <2>3. \A i \in 1 .. Len(commands') :
          IsDial(i)' => i \in 1 .. Len(commands) /\ IsDial(i) /\ commands'[i] = commands[i]
    BY <2>1 DEF CommandPushes, IsDial
  <2>4. QED
    BY <2>2, <2>3 DEF Unique
<1>6. ASSUME WorkerRecord PROVE Unique'
  <2>1. CommandPops
    BY <1>6, CommandPopped DEF WorkerRecord
  <2>2. UNCHANGED <<dialed, mine>>
    BY <1>6 DEF WorkerRecord, tools, history
  <2>3. \A i \in 1 .. Len(commands') : /\ i + 1 \in 1 .. Len(commands) /\ commands'[i] = commands[i + 1]
                                       /\ IsDial(i)' => IsDial(i + 1)
    BY <2>1 DEF CommandPops, IsDial
  <2>4. \A i, j \in 1 .. Len(commands') :
          IsDial(i)' /\ IsDial(j)' /\ commands'[j].gen = commands'[i].gen => j = i
    BY <2>3 DEF Unique
  <2>5. \A i \in 1 .. Len(commands') : IsDial(i)' =>
          /\ \A c \in Calls : dialed[c] # commands'[i].gen
          /\ \A u \in Tools : mine[u] # 0 => commands'[i].gen # mine[u]
    BY <2>3 DEF Unique
  <2>6. QED
    BY <2>2, <2>4, <2>5 DEF Unique
<1>7. ASSUME WorkerDial PROVE Unique'
  <2>1. CommandPops
    BY <1>7, CommandPopped DEF WorkerDial
  <2>2. UNCHANGED mine
    BY <1>7 DEF WorkerDial, tools
  <2>3. \A i \in 1 .. Len(commands') : /\ i + 1 \in 1 .. Len(commands) /\ i + 1 # 1
                                       /\ commands'[i] = commands[i + 1]
                                       /\ IsDial(i)' => IsDial(i + 1)
    BY <2>1 DEF CommandPops, IsDial
  <2>a. \A i, j \in 1 .. Len(commands') :
          IsDial(i)' /\ IsDial(j)' /\ commands'[j].gen = commands'[i].gen => j = i
    BY <2>3 DEF Unique
  <2>b. \A i \in 1 .. Len(commands') : IsDial(i)' =>
          /\ \A c \in Calls : dialed[c] # commands'[i].gen
          /\ \A u \in Tools : mine[u] # 0 => commands'[i].gen # mine[u]
    BY <2>3 DEF Unique
  <2>4. CASE UNCHANGED dialed
    BY <2>2, <2>a, <2>b, <2>4 DEF Unique
  <2>5. CASE NewCall("outgoing") /\ dialed' = [dialed EXCEPT ![ncalls + 1] = Head(commands).gen]
    <3>1. ncalls + 1 \in Calls /\ 1 \in 1 .. Len(commands) /\ Head(commands) = commands[1]
      BY <2>1, <2>5, NewCallPushes DEF CommandPops
    <3>2. dialed'[ncalls + 1] = commands[1].gen /\ \A c \in Calls : c # ncalls + 1 => dialed'[c] = dialed[c]
      BY <2>5, <3>1 DEF Types
    <3>3. CASE commands[1].type = "dial_record"
      <4>1. \A i \in 1 .. Len(commands') : IsDial(i)' => commands'[i].gen # commands[1].gen
        BY <2>3, <3>1, <3>3 DEF Unique, IsDial
      <4>2. /\ \A c \in Calls : dialed[c] # commands[1].gen
            /\ \A u \in Tools : mine[u] # 0 => commands[1].gen # mine[u]
        BY <3>1, <3>3 DEF Unique, IsDial
      <4>3. QED
        BY <2>2, <2>a, <2>b, <3>2, <4>1, <4>2 DEF Unique
    <3>4. CASE commands[1].type = "dial"
      <4>1. commands[1].gen = 0
        BY <3>1, <3>4 DEF Carried
      <4>2. \A i \in 1 .. Len(commands) : IsDial(i) => commands[i].gen # 0
        BY DEF Carried, IsDial
      <4>3. \A i \in 1 .. Len(commands') : IsDial(i)' => commands'[i].gen # 0
        BY <2>3, <4>2
      <4>4. QED
        BY <2>2, <2>a, <2>b, <3>2, <4>1, <4>3 DEF Unique
    <3>5. QED
      BY <1>7, <3>1, <3>3, <3>4 DEF WorkerDial
  <2>6. QED
    BY <1>7, <2>4, <2>5 DEF WorkerDial
<1>8. QED
  BY <1>1, <1>2, <1>3, <1>4, <1>5, <1>6, <1>7 DEF Next, Tool, Bridge, Worker

LEMMA UnsetStep ==
  ASSUME Types, Places, Drawn, Unique, Unset, [Next]_vars
  PROVE  Unset'
<1> USE McpRecordingAssumption
<1>1. ASSUME UNCHANGED vars \/ BridgeRecv \/ WorkerRecord \/ WorkerDial
               \/ WorkerIncoming \/ (\E c \in Calls : WorkerClose(c))
      PROVE  Unset'
  <2>1. UNCHANGED <<pc, mine, current, loaded>>
    BY <1>1 DEF vars, BridgeRecv, WorkerRecord, WorkerDial, WorkerIncoming, WorkerClose, flags,
      tools, loop, calling, history
  <2>2. QED
    BY <2>1 DEF Unset
<1>2. ASSUME NEW t \in Tools, NEW o \in Ops, ToolCall(t, o) PROVE Unset'
  <2>1. UNCHANGED <<mine, current, loaded>> /\ mine[t] = 0 /\ \A u \in Tools : u # t => pc'[u] = pc[u]
    BY <1>2 DEF ToolCall, Types, Places, Goto, loop, flags
  <2>2. QED
    BY <2>1 DEF Unset
<1>3. ASSUME NEW t \in Tools, ArmGen(t) PROVE Unset'
  <2>1. UNCHANGED <<current, loaded>> /\ mine'[t] = next_generation
        /\ \A u \in Tools : u # t => mine'[u] = mine[u] /\ pc'[u] = pc[u]
    BY <1>3 DEF ArmGen, Types, Goto, loop
  <2>2. current # next_generation /\ loaded # next_generation
    BY Numbers DEF Drawn
  <2>3. QED
    BY <2>1, <2>2 DEF Unset
<1>4. ASSUME NEW t \in Tools, ArmReserve(t) PROVE Unset'
  BY <1>4 DEF ArmReserve, Types, Unset, flags, tools, loop, calling, history, Goto, Return
<1>5. ASSUME NEW t \in Tools, ArmCurrent(t) PROVE Unset'
  <2>1. UNCHANGED <<mine, loaded>> /\ current' = mine[t] /\ pc'[t] = "send"
        /\ \A u \in Tools : u # t => pc'[u] = pc[u]
    BY <1>5 DEF ArmCurrent, Types, Goto, loop
  <2>2. QED
    BY <2>1 DEF Unset, Unique
<1>6. ASSUME NEW t \in Tools, DisarmCurrent(t) PROVE Unset'
  BY <1>6 DEF DisarmCurrent, Types, Unset, flags, tools, loop, calling, history, Goto, Return
<1>7. ASSUME NEW t \in Tools, DisarmReserved(t) PROVE Unset'
  BY <1>7 DEF DisarmReserved, Types, Unset, flags, tools, loop, calling, history, Goto, Return
<1>8. ASSUME NEW t \in Tools, Send(t) PROVE Unset'
  <2>1. UNCHANGED <<current, loaded>> /\ pc'[t] \in {"dial", "idle"}
        /\ \A u \in Tools : u # t => pc'[u] = pc[u] /\ mine'[u] = mine[u]
    BY <1>8 DEF Send, Types, Goto, Return, loop, flags
  <2>2. QED
    BY <2>1 DEF Unset
<1>9. ASSUME NEW t \in Tools, Dial(t) PROVE Unset'
  <2>1. CommandPushes([type |-> op[t], gen |-> IF op[t] = "dial" THEN 0 ELSE mine[t]])
    BY <1>9, DialPushes
  <2>2. QED
    BY <1>9, <2>1 DEF Dial, Types, Unset, flags, tools, loop, calling, history, Goto, Return,
      CommandPushes
<1>10. ASSUME BridgeGen PROVE Unset'
  <2>1. UNCHANGED <<current, pc, mine>> /\ loaded' = next_generation
    BY <1>10 DEF BridgeGen, tools
  <2>2. \A t \in Tools : mine[t] # next_generation
    BY Numbers DEF Drawn
  <2>3. QED
    BY <2>1, <2>2 DEF Unset
<1>11. ASSUME BridgeCurrent PROVE Unset'
  BY <1>11 DEF BridgeCurrent, Types, Unset, flags, tools, loop, calling, history, Handled, Decision
<1>12. ASSUME BridgeLoad PROVE Unset'
  BY <1>12 DEF BridgeLoad, Types, Unset, flags, tools, loop, calling, history, Handled, Decision
<1>13. ASSUME BridgeCheck PROVE Unset'
  BY <1>13 DEF BridgeCheck, Types, Unset, flags, tools, loop, calling, history, Handled, Decision
<1>14. ASSUME BridgeCas PROVE Unset'
  BY <1>14 DEF BridgeCas, Types, Unset, flags, tools, loop, calling, history, Handled, Decision
<1>15. ASSUME BridgeSend PROVE Unset'
  BY <1>15 DEF BridgeSend, Handled, Unset, flags, tools
<1>16. QED
  BY <1>1, <1>2, <1>3, <1>4, <1>5, <1>6, <1>7, <1>8, <1>9, <1>10, <1>11, <1>12, <1>13, <1>14,
    <1>15 DEF Next, Tool, Bridge, Worker

LEMMA OpenedStep ==
  ASSUME Types, Places, Carried, Drawn, Unique, Opened, [Next]_vars
  PROVE  Opened'
<1> USE McpRecordingAssumption
<1>1. ASSUME UNCHANGED vars \/ BridgeGen \/ BridgeCurrent \/ BridgeLoad \/ BridgeCheck
               \/ BridgeCas \/ WorkerIncoming
      PROVE  Opened'
  <2>1. UNCHANGED <<pc, op, mine, open, wanted, commands>>
    BY <1>1 DEF vars, BridgeGen, BridgeCurrent, BridgeLoad, BridgeCheck, BridgeCas,
      WorkerIncoming, flags, tools, loop, calling, history
  <2>2. QED
    BY <2>1 DEF Opened, DialsRecorded, IsDial
<1>2. ASSUME NEW t \in Tools, NEW o \in Ops, ToolCall(t, o) PROVE Opened'
  <2>1. UNCHANGED <<mine, open, wanted, commands>>
    BY <1>2 DEF ToolCall, history
  <2>2. pc[t] = "idle" /\ pc'[t] # "reserve" /\ (pc'[t] \in {"current", "send", "dial"} => op'[t] # "dial_record")
        /\ \A u \in Tools : u # t => pc'[u] = pc[u] /\ op'[u] = op[u]
    BY <1>2 DEF ToolCall, Types, Goto, Ops
  <2>3. QED
    BY <2>1, <2>2 DEF Opened, DialsRecorded, IsDial
<1>3. ASSUME NEW t \in Tools, ArmGen(t) PROVE Opened'
  <2>1. UNCHANGED <<open, wanted, commands, op>> /\ mine'[t] = next_generation
        /\ pc'[t] \in {"reserve", "current"} /\ (pc'[t] = "current" => op[t] # "dial_record")
        /\ \A u \in Tools : u # t => mine'[u] = mine[u] /\ pc'[u] = pc[u]
    BY <1>3 DEF ArmGen, Types, Goto, calling, history
  <2>2. \A g \in open \cup wanted : g # next_generation
    BY Numbers DEF Drawn
  <2>3. QED
    BY <2>1, <2>2 DEF Opened, DialsRecorded, IsDial
<1>4. ASSUME NEW t \in Tools, ArmReserve(t) PROVE Opened'
  <2>1. UNCHANGED <<mine, commands, op>> /\ pc'[t] = "current" /\ open' = open \cup {mine[t]}
        /\ wanted' \subseteq wanted \cup {mine[t]}
        /\ (open # {} => wanted' \subseteq wanted \ open)
        /\ \A u \in Tools : u # t => pc'[u] = pc[u]
    BY <1>4 DEF ArmReserve, Types, Goto
  <2>2. mine[t] # 0 /\ mine[t] \notin open /\ mine[t] \notin wanted
    BY <1>4 DEF ArmReserve, Places, Opened
  <2>3. \A u \in Tools : u # t /\ pc[u] = "reserve" => mine[u] # mine[t]
    BY <2>2 DEF Unique
  <2>4. \A g \in wanted' \cap open' : open' = {g}
    BY <2>1, <2>2
  <2>5. QED
    BY <2>1, <2>2, <2>3, <2>4 DEF Opened, DialsRecorded, IsDial
<1>5. ASSUME NEW t \in Tools, ArmCurrent(t) PROVE Opened'
  <2>1. UNCHANGED <<mine, open, commands, op>> /\ pc[t] = "current" /\ pc'[t] = "send" /\ wanted' \subseteq wanted
        /\ \A u \in Tools : u # t => pc'[u] = pc[u]
    BY <1>5 DEF ArmCurrent, Types, Goto
  <2>2. QED
    BY <2>1 DEF Opened, DialsRecorded, IsDial
<1>6. ASSUME NEW t \in Tools, DisarmCurrent(t) PROVE Opened'
  BY <1>6 DEF DisarmCurrent, Types, Opened, DialsRecorded, IsDial, flags, tools, loop, calling,
    history, Goto, Return
<1>7. ASSUME NEW t \in Tools, DisarmReserved(t) PROVE Opened'
  <2>1. UNCHANGED <<mine, open, commands, op>> /\ op[t] = "record_stop" /\ pc'[t] = "send" /\ wanted' = {}
        /\ \A u \in Tools : u # t => pc'[u] = pc[u]
    BY <1>7 DEF DisarmReserved, Types, Places, Goto
  <2>2. QED
    BY <2>1 DEF Opened, DialsRecorded, IsDial
<1>8. ASSUME NEW t \in Tools, Send(t) PROVE Opened'
  <2>1. CommandPushes(IF op[t] = "record_stop" THEN [type |-> "disarm", gen |-> 0]
                      ELSE [type |-> "arm", gen |-> mine[t]])
    BY <1>8, SendPushes
  <2>2. UNCHANGED open /\ wanted' \subseteq wanted
        /\ \A u \in Tools : u # t => pc'[u] = pc[u] /\ op'[u] = op[u] /\ mine'[u] = mine[u]
    BY <1>8 DEF Send, Types, Goto, Return
  <2>3. pc'[t] # "reserve" /\ (DialsRecorded(t)' => DialsRecorded(t) /\ mine'[t] = mine[t])
    BY <1>8 DEF Send, Types, Goto, Return, DialsRecorded
  <2>4. \A i \in 1 .. Len(commands') :
          IsDial(i)' => i \in 1 .. Len(commands) /\ IsDial(i) /\ commands'[i] = commands[i]
    BY <2>1 DEF CommandPushes, IsDial
  <2>5. QED
    BY <2>2, <2>3, <2>4 DEF Opened, DialsRecorded
<1>9. ASSUME NEW t \in Tools, Dial(t) PROVE Opened'
  <2>1. CommandPushes([type |-> op[t], gen |-> IF op[t] = "dial" THEN 0 ELSE mine[t]])
    BY <1>9, DialPushes
  <2>2. UNCHANGED <<open, wanted>> /\ pc'[t] = "idle"
        /\ \A u \in Tools : u # t => pc'[u] = pc[u] /\ op'[u] = op[u] /\ mine'[u] = mine[u]
    BY <1>9 DEF Dial, Types, Goto, Return, history
  <2>3. op[t] = "dial_record" => mine[t] \in open
    BY <1>9 DEF Dial, Opened, DialsRecorded
  <2>4. \A i \in 1 .. Len(commands') : IsDial(i)' =>
          \/ i \in 1 .. Len(commands) /\ IsDial(i) /\ commands'[i] = commands[i]
          \/ i = Len(commands') /\ op[t] = "dial_record" /\ commands'[i].gen = mine[t]
    BY <2>1 DEF CommandPushes, IsDial
  <2>5. QED
    BY <2>2, <2>3, <2>4 DEF Opened, DialsRecorded
<1>10. ASSUME BridgeRecv PROVE Opened'
  <2>1. EventPops
    BY <1>10, EventPopped DEF BridgeRecv
  <2>2. events[1].call \in Calls /\ Head(events) = events[1]
    BY <2>1 DEF EventPops, Event
  <2>3. UNCHANGED <<mine, commands, op, pc>>
    BY <1>10 DEF BridgeRecv, tools
  <2>4. CASE UNCHANGED <<open, wanted>>
    BY <2>3, <2>4 DEF Opened, DialsRecorded, IsDial
  <2>5. CASE open' = open \ {dialed[events[1].call]} /\ wanted' = wanted \ open'
    <3>1. \A t \in Tools : DialsRecorded(t) => mine[t] # dialed[events[1].call]
      <4>1. \A t \in Tools : DialsRecorded(t) => mine[t] # 0
        BY DEF DialsRecorded, Places
      <4>2. QED
        BY <2>2, <4>1 DEF Unique
    <3>2. \A i \in 1 .. Len(commands) : IsDial(i) => commands[i].gen # dialed[events[1].call]
      BY <2>2 DEF Unique
    <3>3. QED
      BY <2>3, <2>5, <3>1, <3>2 DEF Opened, DialsRecorded, IsDial
  <2>6. QED
    BY <1>10, <2>2, <2>4, <2>5 DEF BridgeRecv
<1>11. ASSUME BridgeSend PROVE Opened'
  <2>1. CommandPushes([type |-> bridge, gen |-> loaded]) /\ bridge \in {"arm", "disarm"}
    BY <1>11, BridgeSendPushes DEF BridgeSend
  <2>2. UNCHANGED <<mine, op, pc, open, wanted>>
    BY <1>11 DEF BridgeSend, tools, history
  <2>3. \A i \in 1 .. Len(commands') :
          IsDial(i)' => i \in 1 .. Len(commands) /\ IsDial(i) /\ commands'[i] = commands[i]
    BY <2>1 DEF CommandPushes, IsDial
  <2>4. QED
    BY <2>2, <2>3 DEF Opened, DialsRecorded
<1>12. ASSUME WorkerRecord PROVE Opened'
  <2>1. CommandPops
    BY <1>12, CommandPopped DEF WorkerRecord
  <2>2. UNCHANGED <<mine, op, pc, open, wanted>>
    BY <1>12 DEF WorkerRecord, tools, history
  <2>3. \A i \in 1 .. Len(commands') : /\ i + 1 \in 1 .. Len(commands) /\ commands'[i] = commands[i + 1]
                                       /\ IsDial(i)' => IsDial(i + 1)
    BY <2>1 DEF CommandPops, IsDial
  <2>4. QED
    BY <2>2, <2>3 DEF Opened, DialsRecorded
<1>13. ASSUME WorkerDial PROVE Opened'
  <2>1. CommandPops
    BY <1>13, CommandPopped DEF WorkerDial
  <2>2. UNCHANGED <<mine, op, pc>>
    BY <1>13 DEF WorkerDial, tools
  <2>3. \A i \in 1 .. Len(commands') : /\ i + 1 \in 1 .. Len(commands) /\ i + 1 # 1
                                       /\ commands'[i] = commands[i + 1]
                                       /\ IsDial(i)' => IsDial(i + 1)
    BY <2>1 DEF CommandPops, IsDial
  <2>4. CASE UNCHANGED <<open, wanted>>
    BY <2>2, <2>3, <2>4 DEF Opened, DialsRecorded
  <2>5. CASE open' = open \ {commands[1].gen} /\ wanted' = wanted \ {commands[1].gen}
    <3>1. 1 \in 1 .. Len(commands) /\ commands[1].type \in {"dial", "dial_record"}
      BY <1>13, <2>1 DEF CommandPops, WorkerDial
    <3>2. \A t \in Tools : DialsRecorded(t) => mine[t] # commands[1].gen
      <4>1. \A t \in Tools : DialsRecorded(t) => mine[t] # 0
        BY DEF DialsRecorded, Places
      <4>2. QED
        BY <3>1, <4>1 DEF Unique, IsDial, Carried
    <3>3. \A i \in 1 .. Len(commands) : IsDial(i) /\ i # 1 => commands[i].gen # commands[1].gen
      BY <3>1 DEF Unique, IsDial, Carried
    <3>4. \A i \in 1 .. Len(commands') : IsDial(i)' => commands'[i].gen \in open'
      BY <2>3, <2>5, <3>3 DEF Opened
    <3>5. QED
      BY <2>2, <2>5, <3>2, <3>4 DEF Opened, DialsRecorded
  <2>6. QED
    BY <1>13, <2>1, <2>4, <2>5 DEF WorkerDial, CommandPops
<1>14. ASSUME NEW c \in Calls, WorkerClose(c) PROVE Opened'
  <2>1. EventPushes([type |-> "closed", call |-> c])
    BY <1>14, ClosePushes
  <2>2. QED
    BY <1>14, <2>1 DEF WorkerClose, Types, Opened, DialsRecorded, IsDial, flags, tools, loop,
      calling, history, EventPushes
<1>15. QED
  BY <1>1, <1>2, <1>3, <1>4, <1>5, <1>6, <1>7, <1>8, <1>9, <1>10, <1>11, <1>12, <1>13,
    <1>14 DEF Next, Tool, Bridge, Worker

LEMMA PendingStep ==
  ASSUME Types, Places, Unset, Opened, Pending, [Next]_vars
  PROVE  Pending'
<1> USE McpRecordingAssumption
<1>1. ASSUME UNCHANGED vars \/ WorkerRecord \/ WorkerIncoming
      PROVE  Pending'
  <2>1. UNCHANGED <<wanted, open, reserved, record_default, pc, mine, current, bridge, loaded>>
    BY <1>1 DEF vars, WorkerRecord, WorkerIncoming, flags, tools, loop, calling, history
  <2>2. QED
    BY <2>1 DEF Pending
<1>2. ASSUME NEW t \in Tools, NEW o \in Ops, ToolCall(t, o) PROVE Pending'
  <2>1. UNCHANGED <<open, wanted, reserved, record_default, mine, current, bridge, loaded>>
        /\ mine[t] = 0 /\ \A u \in Tools : u # t => pc'[u] = pc[u]
    BY <1>2 DEF ToolCall, Types, Places, Goto, flags, loop, history
  <2>2. QED
    BY <2>1, Numbers DEF Pending
<1>3. ASSUME NEW t \in Tools, ArmGen(t) PROVE Pending'
  <2>1. UNCHANGED <<open, wanted, reserved, record_default, current, bridge, loaded>>
        /\ pc[t] = "gen" /\ \A u \in Tools : u # t => pc'[u] = pc[u] /\ mine'[u] = mine[u]
    BY <1>3 DEF ArmGen, Types, Goto, loop, history
  <2>2. QED
    BY <2>1 DEF Pending
<1>4. ASSUME NEW t \in Tools, ArmReserve(t) PROVE Pending'
  <2>1. /\ reserved' = mine[t] /\ pc'[t] = "current" /\ UNCHANGED mine
        /\ mine[t] \notin wanted
        /\ \A g \in wanted' \cap open' : g = mine[t]
    BY <1>4 DEF ArmReserve, Types, Goto, Opened
  <2>2. QED
    BY <2>1 DEF Pending
<1>5. ASSUME NEW t \in Tools, ArmCurrent(t) PROVE Pending'
  <2>1. UNCHANGED <<open, reserved, record_default, mine, bridge, loaded>>
        /\ current' = mine[t] /\ op[t] \in {"record_start", "dial_record"} /\ pc[t] = "current"
    BY <1>5 DEF ArmCurrent, Types, Places, Ops, loop
  <2>2. CASE op[t] = "record_start"
    BY <1>5, <2>1, <2>2 DEF ArmCurrent, Pending
  <2>3. CASE op[t] = "dial_record"
    <3>1. mine[t] \in open /\ wanted' \subseteq wanted /\ mine[t] # 0
      BY <1>5, <2>1, <2>3 DEF Opened, DialsRecorded, ArmCurrent, Places
    <3>2. \A g \in wanted' \cap open : g = mine[t]
      BY <3>1 DEF Opened
    <3>3. bridge = "disarm" => mine[t] \notin wanted'
      BY <1>5, <2>3 DEF ArmCurrent
    <3>4. loaded # mine[t]
      BY <2>1, <3>1 DEF Unset
    <3>5. \A g \in wanted' \cap open : reserved = g
      BY <3>1 DEF Pending
    <3>6. QED
      BY <2>1, <3>2, <3>3, <3>4, <3>5 DEF Pending
  <2>4. QED
    BY <2>1, <2>2, <2>3
<1>6. ASSUME NEW t \in Tools, DisarmCurrent(t) PROVE Pending'
  BY <1>6 DEF DisarmCurrent, Types, Pending, flags, tools, loop, calling, history, Goto, Return
<1>7. ASSUME NEW t \in Tools, DisarmReserved(t) PROVE Pending'
  BY <1>7 DEF DisarmReserved, Types, Pending, flags, tools, loop, calling, history, Goto, Return
<1>8. ASSUME NEW t \in Tools, Send(t) PROVE Pending'
  <2>1. UNCHANGED <<open, reserved, record_default, current, bridge, loaded>> /\ wanted' \subseteq wanted
        /\ pc[t] = "send" /\ \A u \in Tools : u # t => pc'[u] = pc[u] /\ mine'[u] = mine[u]
    BY <1>8 DEF Send, Types, Goto, Return, flags, loop
  <2>2. QED
    BY <2>1 DEF Pending
<1>9. ASSUME NEW t \in Tools, Dial(t) PROVE Pending'
  <2>1. UNCHANGED <<open, wanted, reserved, record_default, current, bridge, loaded>>
        /\ pc[t] = "dial" /\ \A u \in Tools : u # t => pc'[u] = pc[u] /\ mine'[u] = mine[u]
    BY <1>9 DEF Dial, Types, Goto, Return, flags, loop, history
  <2>2. QED
    BY <2>1 DEF Pending
<1>10. ASSUME BridgeRecv PROVE Pending'
  <2>1. UNCHANGED <<record_default, mine, pc, current>> /\ bridge = "recv" /\ bridge' \in {"recv", "gen", "load"}
    BY <1>10 DEF BridgeRecv, tools, Decision
  <2>2. \/ UNCHANGED <<open, wanted, reserved>>
        \/ wanted' = wanted \ open'
    BY <1>10 DEF BridgeRecv
  <2>3. QED
    BY <2>1, <2>2 DEF Pending
<1>11. ASSUME BridgeGen PROVE Pending'
  <2>1. UNCHANGED <<open, wanted, reserved, record_default, mine, pc, current>> /\ bridge' = "current"
    BY <1>11 DEF BridgeGen, tools, history
  <2>2. QED
    BY <1>11, <2>1 DEF Pending, BridgeGen
<1>12. ASSUME BridgeCurrent PROVE Pending'
  <2>1. UNCHANGED <<open, wanted, reserved, record_default, mine, pc>> /\ record_default
    BY <1>12 DEF BridgeCurrent, tools, Places
  <2>2. QED
    BY <2>1 DEF Pending
<1>13. ASSUME BridgeLoad PROVE Pending'
  <2>1. UNCHANGED <<open, wanted, reserved, record_default, mine, pc, current>> /\ bridge = "load" /\ bridge' = "check"
    BY <1>13 DEF BridgeLoad, tools, flags, history
  <2>2. QED
    BY <2>1 DEF Pending
<1>14. ASSUME BridgeCheck PROVE Pending'
  <2>1. UNCHANGED <<open, wanted, reserved, record_default, mine, pc, current>> /\ bridge = "check"
    BY <1>14 DEF BridgeCheck, tools, flags, history
  <2>2. bridge' = "recv" \/ (bridge' = "cas" /\ loaded # reserved /\ UNCHANGED loaded)
    BY <1>14 DEF BridgeCheck, Handled
  <2>3. QED
    BY <2>1, <2>2 DEF Pending
<1>15. ASSUME BridgeCas PROVE Pending'
  <2>1. UNCHANGED <<open, wanted, reserved, record_default, mine, pc>> /\ bridge = "cas"
    BY <1>15 DEF BridgeCas, tools
  <2>2. current = loaded \/ (bridge' = "recv" /\ UNCHANGED current)
    BY <1>15 DEF BridgeCas, Handled
  <2>3. QED
    BY <2>1, <2>2 DEF Pending
<1>16. ASSUME BridgeSend PROVE Pending'
  <2>1. UNCHANGED <<open, wanted, reserved, record_default, mine, pc, current>> /\ bridge' = "recv"
    BY <1>16 DEF BridgeSend, Handled, tools, flags, history
  <2>2. bridge = "disarm" \/ record_default
    BY <1>16 DEF BridgeSend, Places
  <2>3. QED
    BY <2>1, <2>2 DEF Pending
<1>17. ASSUME WorkerDial PROVE Pending'
  <2>1. UNCHANGED <<reserved, record_default, mine, pc, current, bridge, loaded>>
        /\ wanted' \subseteq wanted /\ open' \subseteq open
    BY <1>17 DEF WorkerDial, tools, flags, loop
  <2>2. QED
    BY <2>1 DEF Pending
<1>18. ASSUME NEW c \in Calls, WorkerClose(c) PROVE Pending'
  <2>1. EventPushes([type |-> "closed", call |-> c])
    BY <1>18, ClosePushes
  <2>2. QED
    BY <1>18, <2>1 DEF WorkerClose, Types, Pending, flags, tools, loop, calling, history,
      EventPushes
<1>19. QED
  BY <1>1, <1>2, <1>3, <1>4, <1>5, <1>6, <1>7, <1>8, <1>9, <1>10, <1>11, <1>12, <1>13, <1>14,
    <1>15, <1>16, <1>17, <1>18 DEF Next, Tool, Bridge, Worker

LEMMA NewCallEvents ==
  ASSUME NEW type \in {"incoming", "outgoing"}, Types, EventInv, NewCall(type), UNCHANGED <<bridge, known>>
  PROVE  EventInv'
<1>1. /\ EventPushes([type |-> type, call |-> ncalls + 1])
      /\ ncalls + 1 \in Calls /\ ncalls \in Nat /\ ncalls' = ncalls + 1
      /\ calls' = calls \cup {ncalls + 1}
  BY NewCallPushes
<1>2. \A i \in 1 .. Len(events') :
        events'[i].call <= ncalls' /\ (events'[i].type = "closed" => events'[i].call \notin calls')
  <2>1. TAKE i \in 1 .. Len(events')
  <2>2. CASE i \in 1 .. Len(events)
    <3>1. events'[i] = events[i]
      BY <1>1, <2>2 DEF EventPushes
    <3>2. events[i] \in Event
      <4>1. events \in Seq(Event)
        BY DEF Types
      <4>2. QED
        BY <2>2, <4>1, ElementOfSeq
    <3>3. events[i].call <= ncalls /\ (events[i].type = "closed" => events[i].call \notin calls)
      BY <2>2 DEF EventInv
    <3>4. events[i].call \in Nat
      BY <3>2 DEF Event, Calls
    <3>5. QED
      BY <1>1, <3>1, <3>3, <3>4
  <2>3. CASE i = Len(events')
    BY <1>1, <2>3 DEF EventPushes
  <2>4. QED
    BY <1>1, <2>2, <2>3 DEF EventPushes
<1>3. QED
  BY <1>1, <1>2 DEF EventInv

LEMMA EventInvStep ==
  ASSUME Types, EventInv, [Next]_vars
  PROVE  EventInv'
<1> USE McpRecordingAssumption
<1>1. ASSUME UNCHANGED vars \/ (\E t \in Tools, o \in Ops : ToolCall(t, o))
               \/ (\E t \in Tools : ArmGen(t)) \/ (\E t \in Tools : ArmReserve(t))
               \/ (\E t \in Tools : ArmCurrent(t))
               \/ (\E t \in Tools : DisarmCurrent(t))
               \/ (\E t \in Tools : DisarmReserved(t)) \/ (\E t \in Tools : Send(t))
               \/ (\E t \in Tools : Dial(t)) \/ WorkerRecord
      PROVE  EventInv'
  <2>1. UNCHANGED <<events, ncalls, calls, known, bridge>>
    BY <1>1 DEF vars, ToolCall, ArmGen, ArmReserve, ArmCurrent, DisarmCurrent, DisarmReserved,
      Send, Dial, WorkerRecord, flags, tools, loop, calling, history
  <2>2. QED
    BY <2>1 DEF EventInv, Event, Calls
<1>2. ASSUME BridgeRecv PROVE EventInv'
  <2>1. EventPops
    BY <1>2, EventPopped DEF BridgeRecv
  <2>2. /\ UNCHANGED <<ncalls, calls>> /\ ncalls \in Nat
        /\ known' = IF events[1].type = "closed" THEN known \ {events[1].call} ELSE known \cup {events[1].call}
        /\ bridge' \in {"recv", "gen", "load"}
        /\ bridge' = "load" => known' = {}
    BY <1>2, <2>1 DEF BridgeRecv, Decision, calling, EventPops, Types
  <2>3. events[1].call \in 1 .. ncalls
    BY <2>1, <2>2 DEF EventPops, EventInv, Event, Calls
  <2>4. \A i \in 1 .. Len(events') : i + 1 \in 1 .. Len(events) /\ events'[i] = events[i + 1]
    BY <2>1 DEF EventPops
  <2>5. QED
    BY <2>2, <2>3, <2>4 DEF EventInv
<1>3. ASSUME BridgeGen PROVE EventInv'
  BY <1>3 DEF BridgeGen, Types, EventInv, Event, Calls, flags, tools, loop, calling, history,
    Handled, Decision
<1>4. ASSUME BridgeCurrent PROVE EventInv'
  BY <1>4 DEF BridgeCurrent, Types, EventInv, Event, Calls, flags, tools, loop, calling, history,
    Handled, Decision
<1>5. ASSUME BridgeLoad PROVE EventInv'
  BY <1>5 DEF BridgeLoad, Types, EventInv, Event, Calls, flags, tools, loop, calling, history,
    Handled, Decision
<1>6. ASSUME BridgeCheck PROVE EventInv'
  BY <1>6 DEF BridgeCheck, Types, EventInv, Event, Calls, flags, tools, loop, calling, history,
    Handled, Decision
<1>7. ASSUME BridgeCas PROVE EventInv'
  BY <1>7 DEF BridgeCas, Types, EventInv, Event, Calls, flags, tools, loop, calling, history,
    Handled, Decision
<1>8. ASSUME BridgeSend PROVE EventInv'
  BY <1>8 DEF BridgeSend, Handled, EventInv, calling
<1>9. ASSUME WorkerDial PROVE EventInv'
  <2>1. UNCHANGED <<bridge, known>>
    BY <1>9 DEF WorkerDial, loop
  <2>2. CASE NewCall("outgoing")
    BY <2>1, <2>2, NewCallEvents
  <2>3. CASE UNCHANGED <<calls, ncalls, events>>
    BY <2>1, <2>3 DEF EventInv
  <2>4. QED
    BY <1>9, <2>2, <2>3 DEF WorkerDial
<1>10. ASSUME WorkerIncoming PROVE EventInv'
  BY <1>10, NewCallEvents DEF WorkerIncoming, loop
<1>11. ASSUME NEW c \in Calls, WorkerClose(c) PROVE EventInv'
  <2>1. EventPushes([type |-> "closed", call |-> c])
    BY <1>11, ClosePushes
  <2>2. UNCHANGED <<ncalls, known, bridge>> /\ calls' = calls \ {c} /\ c <= ncalls
    BY <1>11, Numbers DEF WorkerClose, Types, loop
  <2>3. \A i \in 1 .. Len(events') :
          \/ i \in 1 .. Len(events) /\ events'[i] = events[i]
          \/ events'[i].call = c
    BY <2>1 DEF EventPushes
  <2>4. QED
    BY <2>2, <2>3 DEF EventInv
<1>12. QED
  BY <1>1, <1>2, <1>3, <1>4, <1>5, <1>6, <1>7, <1>8, <1>9, <1>10, <1>11 DEF Next, Tool, Bridge,
    Worker

LEMMA KnownStep ==
  ASSUME Types, Places, Carried, Drawn, Unique, Opened, EventInv, Known, [Next]_vars
  PROVE  Known'
<1> USE McpRecordingAssumption
<1>1. ASSUME UNCHANGED vars \/ (\E t \in Tools, o \in Ops : ToolCall(t, o))
               \/ (\E t \in Tools : ArmGen(t)) \/ (\E t \in Tools : Dial(t))
               \/ BridgeGen \/ BridgeCurrent \/ BridgeLoad \/ BridgeCheck \/ BridgeCas
               \/ BridgeSend \/ WorkerRecord
      PROVE  Known'
  <2>1. UNCHANGED <<calls, dialed, wanted, open, known>>
    BY <1>1 DEF vars, ToolCall, ArmGen, Dial, BridgeGen, BridgeCurrent, BridgeLoad, BridgeCheck,
      BridgeCas, BridgeSend, WorkerRecord, flags, tools, loop, calling, history
  <2>2. QED
    BY <2>1 DEF Known
<1>2. ASSUME NEW t \in Tools, ArmReserve(t) PROVE Known'
  <2>1. UNCHANGED <<calls, dialed, known>> /\ wanted' \subseteq wanted \cup {mine[t]} /\ open' = open \cup {mine[t]}
    BY <1>2 DEF ArmReserve, calling, loop
  <2>2. mine[t] # 0
    BY <1>2 DEF ArmReserve, Places
  <2>3. \A c \in calls : dialed[c] # mine[t]
    BY <2>2 DEF Unique, Types, Calls
  <2>4. QED
    BY <2>1, <2>3 DEF Known
<1>3. ASSUME NEW t \in Tools, ArmCurrent(t) PROVE Known'
  BY <1>3 DEF ArmCurrent, Types, Known, flags, tools, loop, calling, history, Goto, Return
<1>4. ASSUME NEW t \in Tools, DisarmCurrent(t) PROVE Known'
  BY <1>4 DEF DisarmCurrent, Types, Known, flags, tools, loop, calling, history, Goto, Return
<1>5. ASSUME NEW t \in Tools, DisarmReserved(t) PROVE Known'
  BY <1>5 DEF DisarmReserved, Types, Known, flags, tools, loop, calling, history, Goto, Return
<1>6. ASSUME NEW t \in Tools, Send(t) PROVE Known'
  <2>1. CommandPushes(IF op[t] = "record_stop" THEN [type |-> "disarm", gen |-> 0]
                      ELSE [type |-> "arm", gen |-> mine[t]])
    BY <1>6, SendPushes
  <2>2. QED
    BY <1>6, <2>1 DEF Send, Types, Known, flags, tools, loop, calling, history, Goto, Return,
      CommandPushes
<1>7. ASSUME BridgeRecv PROVE Known'
  <2>1. EventPops
    BY <1>7, EventPopped DEF BridgeRecv
  <2>2. /\ UNCHANGED <<calls, dialed>> /\ Head(events) = events[1]
        /\ 1 \in 1 .. Len(events) /\ events[1].call \in Calls
    BY <1>7, <2>1 DEF BridgeRecv, calling, EventPops, Event
  <2>3. CASE events[1].type = "closed"
    BY <1>7, <2>2, <2>3 DEF BridgeRecv, Known, EventInv
  <2>4. CASE events[1].type = "incoming"
    BY <1>7, <2>2, <2>4 DEF BridgeRecv, Known
  <2>5. CASE events[1].type = "outgoing"
    <3>1. /\ known' = known \cup {events[1].call}
          /\ open' = open \ {dialed[events[1].call]} /\ wanted' = wanted \ open'
      BY <1>7, <2>2, <2>5 DEF BridgeRecv
    <3>2. SUFFICES ASSUME NEW c \in calls, dialed[c] \in wanted' PROVE c \in known'
      BY <2>2 DEF Known
    <3>3. dialed[c] \in wanted /\ dialed[c] # 0 /\ c \in Calls
      BY <3>1, <3>2 DEF Types, Calls
    <3>4. CASE c \in known
      BY <3>1, <3>4
    <3>5. CASE dialed[c] \in open
      <4>1. dialed[c] = dialed[events[1].call]
        BY <3>1, <3>2, <3>5
      <4>2. c = events[1].call
        BY <2>2, <3>3, <4>1 DEF Unique
      <4>3. QED
        BY <3>1, <4>2
    <3>6. QED
      BY <3>2, <3>3, <3>4, <3>5 DEF Known
  <2>6. QED
    BY <2>1, <2>3, <2>4, <2>5 DEF EventPops, Event
<1>8. ASSUME WorkerDial PROVE Known'
  <2>1. CommandPops
    BY <1>8, CommandPopped DEF WorkerDial
  <2>2. UNCHANGED known /\ 1 \in 1 .. Len(commands) /\ Head(commands) = commands[1]
        /\ commands[1].type \in {"dial", "dial_record"}
    BY <1>8, <2>1 DEF WorkerDial, loop, CommandPops
  <2>3. CASE NewCall("outgoing") /\ dialed' = [dialed EXCEPT ![ncalls + 1] = Head(commands).gen]
             /\ UNCHANGED <<open, wanted>>
    <3>1. ncalls + 1 \in Calls /\ calls' = calls \cup {ncalls + 1} /\ ncalls + 1 \notin calls
      BY <2>3, NewCallPushes
    <3>2. dialed'[ncalls + 1] = commands[1].gen /\ \A c \in calls : dialed'[c] = dialed[c]
      BY <2>2, <2>3, <3>1 DEF Types, Calls
    <3>3. commands[1].gen \in wanted => commands[1].gen \in open
      <4>1. commands[1].type = "dial" => commands[1].gen \notin wanted
        BY <2>2, Numbers DEF Carried
      <4>2. QED
        BY <2>2, <4>1 DEF Opened, IsDial
    <3>4. QED
      BY <2>2, <2>3, <3>1, <3>2, <3>3 DEF Known
  <2>4. CASE /\ open' = open \ {commands[1].gen} /\ wanted' = wanted \ {commands[1].gen}
             /\ UNCHANGED <<calls, dialed>>
    BY <2>2, <2>4 DEF Known
  <2>5. QED
    BY <1>8, <2>2, <2>3, <2>4 DEF WorkerDial
<1>9. ASSUME WorkerIncoming PROVE Known'
  <2>1. UNCHANGED <<dialed, known, open, wanted>> /\ calls' = calls \cup {ncalls + 1} /\ ncalls + 1 \in Calls
    BY <1>9, NewCallPushes DEF WorkerIncoming, loop, history
  <2>2. dialed[ncalls + 1] = 0
    BY <2>1, Numbers DEF Drawn
  <2>3. 0 \notin wanted
    BY Numbers
  <2>4. QED
    BY <2>1, <2>2, <2>3 DEF Known
<1>10. ASSUME NEW c \in Calls, WorkerClose(c) PROVE Known'
  <2>1. EventPushes([type |-> "closed", call |-> c])
    BY <1>10, ClosePushes
  <2>2. QED
    BY <1>10, <2>1 DEF WorkerClose, Types, Known, flags, tools, loop, calling, history, EventPushes
<1>11. QED
  BY <1>1, <1>2, <1>3, <1>4, <1>5, <1>6, <1>7, <1>8, <1>9, <1>10 DEF Next, Tool, Bridge, Worker

\* The bridge is not about to disarm what a wanted dial, or a wanted call, needs.
LEMMA NotDisarmed ==
  ASSUME Types, Places, Unique, Opened, Pending, EventInv, Known, bridge = "disarm"
  PROVE  /\ \A j \in 1 .. Len(commands) : IsDial(j) => commands[j].gen \notin wanted
         /\ \A t \in Tools : pc[t] = "dial" => mine[t] \notin wanted
         /\ \A c \in calls : dialed[c] \notin wanted
<1>1. ASSUME NEW g \in wanted \cap open PROVE \E t \in Tools : mine[t] = g /\ mine[t] # 0 /\ pc[t] = "current"
  <2>1. ~ record_default /\ g # 0
    BY Numbers DEF Places
  <2>2. QED
    BY <2>1 DEF Pending
<1>2. ASSUME NEW j \in 1 .. Len(commands), IsDial(j) PROVE commands[j].gen \notin wanted
  BY <1>1, <1>2 DEF Opened, Unique
<1>3. ASSUME NEW t \in Tools, pc[t] = "dial" PROVE mine[t] \notin wanted
  <2>1. CASE op[t] = "dial_record"
    BY <1>1, <1>3, <2>1 DEF Opened, DialsRecorded, Unique
  <2>2. CASE op[t] # "dial_record"
    BY <1>3, <2>2, Numbers DEF Places
  <2>3. QED
    BY <2>1, <2>2
<1>4. ASSUME NEW c \in calls PROVE dialed[c] \notin wanted
  <2>1. c \notin known /\ c \in Calls
    BY McpRecordingAssumption DEF EventInv, Types, Calls
  <2>2. QED
    BY <1>1, <2>1 DEF Known, Unique
<1>5. QED
  BY <1>2, <1>3, <1>4

LEMMA ForDialStep ==
  ASSUME Types, Places, Carried, Unique, Opened, Pending, EventInv, Known, ForDial, [Next]_vars
  PROVE  ForDial'
<1> USE McpRecordingAssumption
<1>1. ASSUME UNCHANGED vars \/ BridgeGen \/ BridgeCurrent \/ BridgeLoad \/ BridgeCheck
               \/ BridgeCas \/ WorkerIncoming
      PROVE  ForDial'
  <2>1. UNCHANGED <<commands, armed, pc, mine, wanted>>
    BY <1>1 DEF vars, BridgeGen, BridgeCurrent, BridgeLoad, BridgeCheck, BridgeCas,
      WorkerIncoming, flags, tools, loop, calling, history
  <2>2. QED
    BY <2>1 DEF ForDial, IsDial
<1>2. ASSUME NEW t \in Tools, NEW o \in Ops, ToolCall(t, o) PROVE ForDial'
  <2>1. UNCHANGED <<commands, armed, mine, wanted>> /\ mine[t] = 0
        /\ \A u \in Tools : u # t => pc'[u] = pc[u]
    BY <1>2 DEF ToolCall, Types, Places, Goto, calling, history
  <2>2. 0 \notin wanted
    BY Numbers
  <2>3. QED
    BY <2>1, <2>2 DEF ForDial, IsDial
<1>3. ASSUME NEW t \in Tools, ArmGen(t) PROVE ForDial'
  <2>1. UNCHANGED <<commands, armed, wanted>> /\ pc'[t] # "dial"
        /\ \A u \in Tools : u # t => pc'[u] = pc[u] /\ mine'[u] = mine[u]
    BY <1>3 DEF ArmGen, Types, Goto, calling, history
  <2>2. QED
    BY <2>1 DEF ForDial, IsDial
<1>4. ASSUME NEW t \in Tools, ArmReserve(t) PROVE ForDial'
  <2>1. UNCHANGED <<commands, armed, mine>> /\ pc'[t] # "dial" /\ wanted' \subseteq wanted \cup {mine[t]}
        /\ \A u \in Tools : u # t => pc'[u] = pc[u]
    BY <1>4 DEF ArmReserve, Types, Goto, calling
  <2>2. mine[t] # 0
    BY <1>4 DEF ArmReserve, Places
  <2>3. /\ \A j \in 1 .. Len(commands) : IsDial(j) => commands[j].gen # mine[t]
        /\ \A u \in Tools : u # t => mine[u] # mine[t]
    BY <2>2 DEF Unique
  <2>4. QED
    BY <2>1, <2>3 DEF ForDial, IsDial
<1>5. ASSUME NEW t \in Tools, ArmCurrent(t) PROVE ForDial'
  <2>1. UNCHANGED <<commands, armed, mine>> /\ wanted' \subseteq wanted /\ \A u \in Tools : pc'[u] = "dial" => pc[u] = "dial"
    BY <1>5 DEF ArmCurrent, Types, Goto, calling
  <2>2. QED
    BY <2>1 DEF ForDial, IsDial
<1>6. ASSUME NEW t \in Tools, DisarmCurrent(t) PROVE ForDial'
  <2>1. UNCHANGED <<commands, armed, mine>> /\ wanted' \subseteq wanted /\ \A u \in Tools : pc'[u] = "dial" => pc[u] = "dial"
    BY <1>6 DEF DisarmCurrent, Types, Goto, calling
  <2>2. QED
    BY <2>1 DEF ForDial, IsDial
<1>7. ASSUME NEW t \in Tools, DisarmReserved(t) PROVE ForDial'
  <2>1. UNCHANGED <<commands, armed, mine>> /\ wanted' \subseteq wanted /\ \A u \in Tools : pc'[u] = "dial" => pc[u] = "dial"
    BY <1>7 DEF DisarmReserved, Types, Goto, calling
  <2>2. QED
    BY <2>1 DEF ForDial, IsDial
<1>8. ASSUME NEW t \in Tools, Send(t) PROVE ForDial'
  <2> DEFINE e == IF op[t] = "record_stop" THEN [type |-> "disarm", gen |-> 0]
                  ELSE [type |-> "arm", gen |-> mine[t]]
  <2>1. CommandPushes(e) /\ e.type = IF op[t] = "record_stop" THEN "disarm" ELSE "arm"
    BY <1>8, SendPushes
  <2> HIDE DEF e
  <2>2. UNCHANGED armed /\ wanted' \subseteq wanted
    BY <1>8 DEF Send, calling
  <2>3. CASE e.type = "arm"
    <3>1. \A j \in 1 .. Len(commands') : IsDial(j)' =>
            j \in 1 .. Len(commands) /\ IsDial(j) /\ commands'[j] = commands[j] /\ j \in 1 .. Len(commands) + 1
      BY <2>1, <2>3 DEF CommandPushes, IsDial
    <3>2. /\ \A j \in 1 .. Len(commands) + 1 : Records(commands', armed, j) <=> Records(commands, armed, j)
          /\ Records(commands', armed, Len(commands') + 1)
      BY <2>1, <2>3, RecordsPush
    <3>3. ASSUME NEW j \in 1 .. Len(commands'), IsDial(j)', commands'[j].gen \in wanted'
          PROVE  \A i \in j + 1 .. Len(commands') : commands'[i].type # "disarm"
      <4>1. \A i \in j + 1 .. Len(commands) : commands[i].type # "disarm"
        BY <2>2, <3>1, <3>3 DEF ForDial
      <4>2. \A i \in j + 1 .. Len(commands') : (i \in j + 1 .. Len(commands) /\ commands'[i] = commands[i]) \/ i = Len(commands')
        BY <2>1 DEF CommandPushes
      <4>3. QED
        BY <2>1, <2>3, <4>1, <4>2 DEF CommandPushes
    <3>4. QED
      BY <2>2, <3>1, <3>2, <3>3 DEF ForDial
  <2>4. CASE op[t] = "record_stop"
    BY <1>8, <2>4 DEF Send, ForDial
  <2>5. QED
    BY <2>1, <2>3, <2>4
<1>9. ASSUME NEW t \in Tools, Dial(t) PROVE ForDial'
  <2> DEFINE e == [type |-> op[t], gen |-> IF op[t] = "dial" THEN 0 ELSE mine[t]]
  <2>1. CommandPushes(e) /\ e.type = op[t] /\ op[t] \in {"dial", "dial_record"}
        /\ (op[t] = "dial_record" => e.gen = mine[t])
    BY <1>9, DialPushes DEF Dial, Places
  <2> HIDE DEF e
  <2>2. UNCHANGED <<armed, wanted>> /\ pc[t] = "dial" /\ pc'[t] = "idle"
        /\ \A u \in Tools : u # t => pc'[u] = pc[u] /\ mine'[u] = mine[u]
    BY <1>9 DEF Dial, Types, Goto, Return, calling, history
  <2>3. /\ \A j \in 1 .. Len(commands) + 1 : Records(commands', armed, j) <=> Records(commands, armed, j)
        /\ Records(commands', armed, Len(commands') + 1) <=> Records(commands, armed, Len(commands) + 1)
    BY <2>1, RecordsPush DEF Record
  <2>4. ASSUME NEW j \in 1 .. Len(commands'), IsDial(j)', commands'[j].gen \in wanted'
        PROVE  Records(commands', armed', j) /\ \A i \in j + 1 .. Len(commands') : commands'[i].type # "disarm"
    <3>1. CASE j \in 1 .. Len(commands)
      <4>1. IsDial(j) /\ commands[j].gen \in wanted /\ j \in 1 .. Len(commands) + 1
        BY <2>1, <2>2, <2>4, <3>1 DEF CommandPushes, IsDial
      <4>2. \A i \in j + 1 .. Len(commands') :
              (i \in j + 1 .. Len(commands) /\ commands'[i] = commands[i]) \/ i = Len(commands')
        BY <2>1, <3>1 DEF CommandPushes
      <4>3. Records(commands, armed, j) /\ \A i \in j + 1 .. Len(commands) : commands[i].type # "disarm"
        BY <3>1, <4>1 DEF ForDial
      <4>4. Records(commands', armed', j)
        BY <2>2, <2>3, <4>1, <4>3
      <4>5. commands'[Len(commands')].type # "disarm"
        BY <2>1 DEF CommandPushes
      <4>6. QED
        BY <4>2, <4>3, <4>4, <4>5
    <3>2. CASE j = Len(commands')
      <4>1. mine[t] \in wanted /\ j = Len(commands) + 1 /\ j \in 1 .. Len(commands) + 1
            /\ \A i \in j + 1 .. Len(commands') : FALSE
        BY <2>1, <2>2, <2>4, <3>2 DEF CommandPushes, IsDial
      <4>2. QED
        BY <2>2, <2>3, <4>1 DEF ForDial
    <3>3. QED
      BY <2>1, <3>1, <3>2 DEF CommandPushes
  <2>5. \A u \in Tools : pc'[u] = "dial" /\ mine'[u] \in wanted' => Records(commands', armed', Len(commands') + 1)
    BY <2>2, <2>3 DEF ForDial
  <2>6. QED
    BY <2>4, <2>5 DEF ForDial
<1>10. ASSUME BridgeRecv PROVE ForDial'
  <2>1. UNCHANGED <<commands, armed, mine>> /\ wanted' \subseteq wanted /\ \A u \in Tools : pc'[u] = "dial" => pc[u] = "dial"
    BY <1>10 DEF BridgeRecv, tools, calling
  <2>2. QED
    BY <2>1 DEF ForDial, IsDial
<1>11. ASSUME BridgeSend PROVE ForDial'
  <2> DEFINE e == [type |-> bridge, gen |-> loaded]
  <2>1. CommandPushes(e) /\ e.type = bridge /\ bridge \in {"arm", "disarm"}
    BY <1>11, BridgeSendPushes DEF BridgeSend
  <2> HIDE DEF e
  <2>2. UNCHANGED <<armed, wanted, pc, mine>>
    BY <1>11 DEF BridgeSend, calling, tools, history
  <2>3. CASE e.type = "arm"
    <3>1. \A j \in 1 .. Len(commands') : IsDial(j)' =>
            j \in 1 .. Len(commands) /\ IsDial(j) /\ commands'[j] = commands[j] /\ j \in 1 .. Len(commands) + 1
      BY <2>1, <2>3 DEF CommandPushes, IsDial
    <3>2. /\ \A j \in 1 .. Len(commands) + 1 : Records(commands', armed, j) <=> Records(commands, armed, j)
          /\ Records(commands', armed, Len(commands') + 1)
      BY <2>1, <2>3, RecordsPush
    <3>3. ASSUME NEW j \in 1 .. Len(commands'), IsDial(j)', commands'[j].gen \in wanted'
          PROVE  \A i \in j + 1 .. Len(commands') : commands'[i].type # "disarm"
      <4>1. \A i \in j + 1 .. Len(commands) : commands[i].type # "disarm"
        BY <2>2, <3>1, <3>3 DEF ForDial
      <4>2. \A i \in j + 1 .. Len(commands') : (i \in j + 1 .. Len(commands) /\ commands'[i] = commands[i]) \/ i = Len(commands')
        BY <2>1 DEF CommandPushes
      <4>3. QED
        BY <2>1, <2>3, <4>1, <4>2 DEF CommandPushes
    <3>4. QED
      BY <2>2, <3>1, <3>2, <3>3 DEF ForDial
  <2>4. CASE bridge = "disarm"
    <3>1. \A j \in 1 .. Len(commands') : IsDial(j)' =>
            j \in 1 .. Len(commands) /\ IsDial(j) /\ commands'[j] = commands[j]
      BY <2>1, <2>4 DEF CommandPushes, IsDial
    <3>2. QED
      BY <2>2, <2>4, <3>1, NotDisarmed DEF ForDial
  <2>5. QED
    BY <2>1, <2>3, <2>4
<1>12. ASSUME WorkerRecord PROVE ForDial'
  <2>1. CommandPops
    BY <1>12, CommandPopped DEF WorkerRecord
  <2>2. /\ armed' = IF commands[1].type \in Record THEN commands[1].gen ELSE armed
        /\ UNCHANGED <<pc, mine>> /\ wanted' \subseteq wanted
    BY <1>12, <2>1 DEF WorkerRecord, CommandPops, Record, tools, history
  <2>3. \A j \in 1 .. Len(commands') + 1 :
          Records(commands', armed', j) <=> Records(commands, armed, j + 1)
    BY <2>1, <2>2, RecordsPop
  <2>4. ASSUME NEW j \in 1 .. Len(commands'), IsDial(j)', commands'[j].gen \in wanted'
        PROVE  Records(commands', armed', j) /\ \A i \in j + 1 .. Len(commands') : commands'[i].type # "disarm"
    <3>1. j + 1 \in 1 .. Len(commands) /\ IsDial(j + 1) /\ commands[j + 1].gen \in wanted /\ j \in 1 .. Len(commands') + 1
      BY <2>1, <2>2, <2>4 DEF CommandPops, IsDial
    <3>2. \A i \in j + 1 .. Len(commands') : i + 1 \in (j + 1) + 1 .. Len(commands) /\ commands'[i] = commands[i + 1]
      BY <2>1 DEF CommandPops
    <3>3. QED
      BY <2>3, <3>1, <3>2 DEF ForDial
  <2>5. ASSUME NEW t \in Tools, pc'[t] = "dial", mine'[t] \in wanted'
        PROVE  Records(commands', armed', Len(commands') + 1)
    <3>1. Len(commands) = Len(commands') + 1 /\ Len(commands') + 1 \in 1 .. Len(commands') + 1
      BY <2>1 DEF CommandPops
    <3>2. Records(commands, armed, Len(commands) + 1)
      BY <2>2, <2>5 DEF ForDial
    <3>3. QED
      BY <2>3, <3>1, <3>2
  <2>6. QED
    BY <2>4, <2>5 DEF ForDial
<1>13. ASSUME WorkerDial PROVE ForDial'
  <2>1. CommandPops
    BY <1>13, CommandPopped DEF WorkerDial
  <2>2. /\ armed' = IF commands[1].type \in Record THEN commands[1].gen ELSE armed
        /\ UNCHANGED <<pc, mine>> /\ wanted' \subseteq wanted
    BY <1>13, <2>1 DEF WorkerDial, CommandPops, Record, tools, history
  <2>3. \A j \in 1 .. Len(commands') + 1 :
          Records(commands', armed', j) <=> Records(commands, armed, j + 1)
    BY <2>1, <2>2, RecordsPop
  <2>4. ASSUME NEW j \in 1 .. Len(commands'), IsDial(j)', commands'[j].gen \in wanted'
        PROVE  Records(commands', armed', j) /\ \A i \in j + 1 .. Len(commands') : commands'[i].type # "disarm"
    <3>1. j + 1 \in 1 .. Len(commands) /\ IsDial(j + 1) /\ commands[j + 1].gen \in wanted /\ j \in 1 .. Len(commands') + 1
      BY <2>1, <2>2, <2>4 DEF CommandPops, IsDial
    <3>2. \A i \in j + 1 .. Len(commands') : i + 1 \in (j + 1) + 1 .. Len(commands) /\ commands'[i] = commands[i + 1]
      BY <2>1 DEF CommandPops
    <3>3. QED
      BY <2>3, <3>1, <3>2 DEF ForDial
  <2>5. ASSUME NEW t \in Tools, pc'[t] = "dial", mine'[t] \in wanted'
        PROVE  Records(commands', armed', Len(commands') + 1)
    <3>1. Len(commands) = Len(commands') + 1 /\ Len(commands') + 1 \in 1 .. Len(commands') + 1
      BY <2>1 DEF CommandPops
    <3>2. Records(commands, armed, Len(commands) + 1)
      BY <2>2, <2>5 DEF ForDial
    <3>3. QED
      BY <2>3, <3>1, <3>2
  <2>6. QED
    BY <2>4, <2>5 DEF ForDial
<1>14. ASSUME NEW c \in Calls, WorkerClose(c) PROVE ForDial'
  <2>1. UNCHANGED <<commands, armed, mine>> /\ wanted' \subseteq wanted /\ \A u \in Tools : pc'[u] = "dial" => pc[u] = "dial"
    BY <1>14 DEF WorkerClose, tools
  <2>2. QED
    BY <2>1 DEF ForDial, IsDial
<1>15. QED
  BY <1>1, <1>2, <1>3, <1>4, <1>5, <1>6, <1>7, <1>8, <1>9, <1>10, <1>11, <1>12, <1>13,
    <1>14 DEF Next, Tool, Bridge, Worker

LEMMA HeldStep ==
  ASSUME Types, Places, Carried, Drawn, Unique, Opened, Pending, EventInv, Known, ForDial, Held, [Next]_vars
  PROVE  Held'
<1> USE McpRecordingAssumption
<1>1. ASSUME UNCHANGED vars \/ (\E t \in Tools, o \in Ops : ToolCall(t, o))
               \/ (\E t \in Tools : ArmGen(t)) \/ BridgeGen \/ BridgeCurrent
               \/ BridgeLoad \/ BridgeCheck \/ BridgeCas
      PROVE  Held'
  <2>1. UNCHANGED <<calls, wanted, dialed, armed, commands>>
    BY <1>1 DEF vars, ToolCall, ArmGen, BridgeGen, BridgeCurrent, BridgeLoad, BridgeCheck,
      BridgeCas, flags, tools, loop, calling, history
  <2>2. QED
    BY <2>1 DEF Held
<1>2. ASSUME NEW t \in Tools, ArmReserve(t) PROVE Held'
  <2>1. UNCHANGED <<calls, armed, commands, dialed>> /\ wanted' \subseteq wanted \cup {mine[t]} /\ mine[t] # 0
    BY <1>2 DEF ArmReserve, Places, calling
  <2>2. \A c \in calls : dialed[c] # mine[t]
    BY <2>1 DEF Unique, Types, Calls
  <2>3. QED
    BY <2>1, <2>2 DEF Held
<1>3. ASSUME NEW t \in Tools, ArmCurrent(t) PROVE Held'
  BY <1>3 DEF ArmCurrent, Types, Held, flags, tools, loop, calling, history, Goto, Return
<1>4. ASSUME NEW t \in Tools, DisarmCurrent(t) PROVE Held'
  BY <1>4 DEF DisarmCurrent, Types, Held, flags, tools, loop, calling, history, Goto, Return
<1>5. ASSUME NEW t \in Tools, DisarmReserved(t) PROVE Held'
  BY <1>5 DEF DisarmReserved, Types, Held, flags, tools, loop, calling, history, Goto, Return
<1>6. ASSUME NEW t \in Tools, Send(t) PROVE Held'
  <2> DEFINE e == IF op[t] = "record_stop" THEN [type |-> "disarm", gen |-> 0]
                  ELSE [type |-> "arm", gen |-> mine[t]]
  <2>1. CommandPushes(e) /\ e.type = IF op[t] = "record_stop" THEN "disarm" ELSE "arm"
    BY <1>6, SendPushes
  <2> HIDE DEF e
  <2>2. UNCHANGED <<calls, armed, dialed>> /\ wanted' \subseteq wanted /\ (op[t] = "record_stop" => wanted' = {})
    BY <1>6 DEF Send, calling
  <2>3. QED
    BY <2>1, <2>2 DEF Held, CommandPushes
<1>7. ASSUME NEW t \in Tools, Dial(t) PROVE Held'
  <2> DEFINE e == [type |-> op[t], gen |-> IF op[t] = "dial" THEN 0 ELSE mine[t]]
  <2>1. CommandPushes(e) /\ e.type # "disarm"
    BY <1>7, DialPushes DEF Dial, Places
  <2> HIDE DEF e
  <2>2. UNCHANGED <<calls, armed, dialed, wanted>>
    BY <1>7 DEF Dial, calling, history
  <2>3. QED
    BY <2>1, <2>2 DEF Held, CommandPushes
<1>8. ASSUME BridgeRecv PROVE Held'
  <2>1. EventPops
    BY <1>8, EventPopped DEF BridgeRecv
  <2>2. QED
    BY <1>8, <2>1 DEF BridgeRecv, Types, Held, flags, tools, loop, calling, history, Handled,
      Decision, EventPops
<1>9. ASSUME BridgeSend PROVE Held'
  <2> DEFINE e == [type |-> bridge, gen |-> loaded]
  <2>1. CommandPushes(e) /\ e.type = bridge /\ bridge \in {"arm", "disarm"}
    BY <1>9, BridgeSendPushes DEF BridgeSend
  <2> HIDE DEF e
  <2>2. UNCHANGED <<calls, armed, dialed, wanted>>
    BY <1>9 DEF BridgeSend, calling, history
  <2>3. bridge = "disarm" => \A c \in calls : dialed[c] \notin wanted
    BY NotDisarmed
  <2>4. QED
    BY <2>1, <2>2, <2>3 DEF Held, CommandPushes
<1>10. ASSUME WorkerRecord PROVE Held'
  <2>1. CommandPops
    BY <1>10, CommandPopped DEF WorkerRecord
  <2>2. UNCHANGED <<calls, dialed, wanted>> /\ armed' = commands[1].gen /\ 1 \in 1 .. Len(commands)
        /\ commands[1].type \in {"arm", "disarm"}
    BY <1>10, <2>1 DEF WorkerRecord, history, CommandPops
  <2>3. commands[1].type = "arm" => armed' # 0
    BY <2>2 DEF Carried
  <2>4. QED
    BY <2>1, <2>2, <2>3 DEF Held, CommandPops
<1>11. ASSUME WorkerDial PROVE Held'
  <2>1. CommandPops
    BY <1>11, CommandPopped DEF WorkerDial
  <2>2. UNCHANGED armed /\ wanted' \subseteq wanted /\ 1 \in 1 .. Len(commands) /\ Head(commands) = commands[1]
        /\ commands[1].type \in {"dial", "dial_record"}
    BY <1>11, <2>1 DEF WorkerDial, CommandPops
  <2>3. CASE UNCHANGED <<calls, dialed>>
    BY <2>1, <2>2, <2>3 DEF Held, CommandPops
  <2>4. CASE NewCall("outgoing") /\ dialed' = [dialed EXCEPT ![ncalls + 1] = Head(commands).gen]
             /\ UNCHANGED wanted
    <3>1. ncalls + 1 \in Calls /\ calls' = calls \cup {ncalls + 1} /\ ncalls + 1 \notin calls
      BY <2>4, NewCallPushes
    <3>2. dialed'[ncalls + 1] = commands[1].gen /\ \A c \in calls : dialed'[c] = dialed[c]
      BY <2>2, <2>4, <3>1 DEF Types, Calls
    <3>3. CASE \E c \in calls : dialed[c] \in wanted
      BY <2>1, <2>2, <3>3 DEF Held, CommandPops
    <3>4. CASE commands[1].gen \in wanted
      <4>1. commands[1].type = "dial_record"
        BY <2>2, <3>4, Numbers DEF Carried
      <4>2. Records(commands, armed, 1) /\ \A i \in 1 + 1 .. Len(commands) : commands[i].type # "disarm"
        BY <2>2, <3>4, <4>1 DEF ForDial, IsDial
      <4>3. armed # 0
        BY <4>2 DEF Records
      <4>4. QED
        BY <2>1, <2>2, <4>2, <4>3 DEF Held, CommandPops
    <3>5. QED
      BY <2>4, <3>1, <3>2, <3>3, <3>4 DEF Held
  <2>5. QED
    BY <1>11, <2>3, <2>4 DEF WorkerDial
<1>12. ASSUME WorkerIncoming PROVE Held'
  <2>1. UNCHANGED <<dialed, wanted, armed, commands>> /\ calls' = calls \cup {ncalls + 1} /\ ncalls + 1 \in Calls
    BY <1>12, NewCallPushes DEF WorkerIncoming, history
  <2>2. dialed[ncalls + 1] = 0
    BY <2>1, Numbers DEF Drawn
  <2>3. 0 \notin wanted
    BY Numbers
  <2>4. QED
    BY <2>1, <2>2, <2>3 DEF Held
<1>13. ASSUME NEW c \in Calls, WorkerClose(c) PROVE Held'
  <2>1. EventPushes([type |-> "closed", call |-> c])
    BY <1>13, ClosePushes
  <2>2. QED
    BY <1>13, <2>1 DEF WorkerClose, Types, Held, flags, tools, loop, calling, history, EventPushes
<1>14. QED
  BY <1>1, <1>2, <1>3, <1>4, <1>5, <1>6, <1>7, <1>8, <1>9, <1>10, <1>11, <1>12, <1>13 DEF Next,
    Tool, Bridge, Worker

DialInv ==
  /\ Drawn /\ Unique /\ Opened /\ Unset /\ Pending
  /\ EventInv /\ Known /\ ForDial /\ Held

LEMMA DialInit == Init => DialInv
<1> SUFFICES ASSUME Init PROVE DialInv
  OBVIOUS
<1>1. Len(commands) = 0 /\ Len(events) = 0
  BY DEF Init
<1>2. Drawn /\ Unique
  BY <1>1 DEF Init, Drawn, Unique
<1>3. Opened /\ Unset /\ Pending
  BY <1>1 DEF Init, Opened, DialsRecorded, Unset, Pending
<1>4. EventInv /\ Known /\ ForDial /\ Held
  BY <1>1 DEF Init, EventInv, Known, ForDial, Held
<1>5. QED
  BY <1>2, <1>3, <1>4 DEF DialInv

\* A call dialed to be recorded is recorded while it is up, whatever tools and calls
\* come beside it: no disarm of an earlier call's end, still in flight, reaches the
\* worker.  The exceptions are those that DialedIsRecorded names.
THEOREM DialedIsRecordedSafe == Spec => []DialedIsRecorded
<1>1. Types /\ Types' /\ Places /\ Carried /\ DialInv /\ [Next]_vars => DialInv'
  BY DrawnStep, UniqueStep, OpenedStep, UnsetStep, PendingStep, EventInvStep, KnownStep,
     ForDialStep, HeldStep DEF DialInv
<1>2. DialInv => DialedIsRecorded
  BY DEF DialInv, Held, DialedIsRecorded
<1>3. Spec => [](Types /\ Places /\ Carried /\ Told)
  BY FlagsInv
<1>4. QED
  BY <1>1, <1>2, <1>3, DialInit, PTL DEF Spec

=============================================================================
