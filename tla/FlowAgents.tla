------------------------------- MODULE FlowAgents -------------------------------
(***************************************************************************)
(* The agents of a scenario as the script sees them (runtime/session.rs,   *)
(* runtime/state.rs, engine/ctx.rs).                                       *)
(*                                                                         *)
(* Each agent is a worker process.  A verb is a command that is sent and   *)
(* not waited for; what happens to the worker's calls comes back as events *)
(* through a queue, and a task of the session folds them into the view the *)
(* getters, `until` and `wait` read.  The headers of a received INVITE     *)
(* come on a way of their own and are picked up by a ticking task.  The    *)
(* worker's side is the subject of AgentRpc and CoreCalls: here it acts on *)
(* whichever of its calls is the current one.                              *)
(***************************************************************************)
EXTENDS Naturals, Sequences, FiniteSets

CONSTANTS Agents,
  MaxCalls,   \* bound: calls of one worker
  MaxPipe,    \* bound: events under way from one worker
  MaxSent     \* bound: commands under way to one worker

VARIABLES
  connected,  \* the agents that are connected
  sent,       \* the commands on their way to each worker
  calls,      \* what has become of each call at the worker
  armed,      \* the worker answers an INVITE itself (deflect, respond_incoming)
  emitted,    \* the events on their way to the fold
  pushed,     \* INVITE headers in the client's buffer, by call
  view        \* AgentState

agents == <<connected, sent, calls, armed, emitted, pushed, view>>

Alive == {"outgoing", "alerted", "incoming", "established"}
CallIds == 1..MaxCalls
NoCalls == [c \in CallIds |-> "new"]
\* "act": register, hold, resume, mute, DTMF, audio source, a blind transfer:
\* whatever comes of them comes later, from the network.
Commands == {"dial", "accept", "hangup", "arm", "disarm", "act"}

NoState == [calls |-> <<>>, reason |-> FALSE, registered |-> FALSE, headers |-> {}]

AgentsInit ==
  /\ connected = {}
  /\ sent = [a \in Agents |-> <<>>]
  /\ calls = [a \in Agents |-> NoCalls]
  /\ armed = [a \in Agents |-> FALSE]
  /\ emitted = [a \in Agents |-> <<>>]
  /\ pushed = [a \in Agents |-> {}]
  /\ view = [a \in Agents |-> NoState]

-----------------------------------------------------------------------------
(* The fold of the events                                                  *)

CallView(c, phase, peer) == [id |-> c, phase |-> phase, peer |-> peer]
CallIdsOf(v) == {v.calls[i].id : i \in DOMAIN v.calls}
EstablishedIds(v) == {v.calls[i].id : i \in {j \in DOMAIN v.calls : v.calls[j].phase = "established"}}

\* Changes the call's entry, or adds one at the end.
PutCall(v, c, phase, peer) ==
  IF c \in CallIdsOf(v)
  THEN [v EXCEPT !.calls = [i \in DOMAIN @ |->
          IF @[i].id = c THEN CallView(c, phase, peer \/ @[i].peer) ELSE @[i]]]
  ELSE [v EXCEPT !.calls = Append(@, CallView(c, phase, peer))]

SetPhase(v, c, phase) == PutCall(v, c, phase, FALSE)
UpsertCall(v, c, phase) == PutCall(v, c, phase, TRUE)

CallClosedLast(v, c) ==
  [v EXCEPT !.calls = IF @ = <<>> THEN @ ELSE SubSeq(@, 1, Len(@) - 1), !.reason = TRUE]
\* A view has a call once.
Drop(s, i) == SubSeq(s, 1, i - 1) \o SubSeq(s, i + 1, Len(s))
CallClosed(v, c) ==
  [v EXCEPT !.calls = IF c \in CallIdsOf(v) THEN Drop(@, CHOOSE i \in DOMAIN @ : @[i].id = c) ELSE @,
            !.reason = TRUE]

Reduce(v, e) ==
  CASE e.type = "registered"   -> [v EXCEPT !.registered = TRUE]
    [] e.type = "unregistered" -> [v EXCEPT !.registered = FALSE]
    [] e.type = "incoming"     -> UpsertCall(v, e.id, "ringing")
    [] e.type = "outgoing"     -> UpsertCall(v, e.id, "ringing")
    [] e.type = "ringing"      -> SetPhase(v, e.id, "ringing")
    [] e.type = "established"  -> SetPhase(v, e.id, "established")
    [] e.type = "closed"       -> CallClosed(v, e.id)

\* What the script's getters read of a view.
CallState(v) ==
  IF EstablishedIds(v) # {} THEN "established"
  ELSE IF v.calls # <<>> THEN "ringing" ELSE "idle"
Reason(v) == v.reason
PeerKnown(v) == v.calls # <<>> /\ v.calls[Len(v.calls)].peer
HeaderSeen(v) == v.headers # {}
AgentInfo(v) == [registered |-> v.registered, state |-> CallState(v), reason |-> Reason(v),
                   peer |-> PeerKnown(v), calls |-> Len(v.calls)]

FoldEvent(a) ==
  /\ emitted[a] # <<>>
  /\ view' = [view EXCEPT ![a] = Reduce(@, Head(emitted[a]))]
  /\ emitted' = [emitted EXCEPT ![a] = Tail(@)]
  /\ UNCHANGED <<connected, sent, calls, armed, pushed>>

MergeReceivedHeaders(v, ids) == [v EXCEPT !.headers = @ \cup ids]

\* The ticking task takes what is in the client's buffer.
TracePoll(a) ==
  /\ pushed[a] # {}
  /\ view' = [view EXCEPT ![a] = MergeReceivedHeaders(@, pushed[a])]
  /\ pushed' = [pushed EXCEPT ![a] = {}]
  /\ UNCHANGED <<connected, sent, calls, armed, emitted>>

-----------------------------------------------------------------------------
(* The script's verbs                                                      *)

\* A session of that name that is already there is dropped with its worker.
\* A deflection its configuration asks for is the first command.
Connect(a, deflects) ==
  /\ connected' = connected \cup {a}
  /\ sent' = [sent EXCEPT ![a] = IF deflects THEN <<"arm">> ELSE <<>>]
  /\ calls' = [calls EXCEPT ![a] = NoCalls]
  /\ armed' = [armed EXCEPT ![a] = FALSE]
  /\ emitted' = [emitted EXCEPT ![a] = <<>>]
  /\ pushed' = [pushed EXCEPT ![a] = {}]
  /\ view' = [view EXCEPT ![a] = NoState]

\* A verb of an agent that is connected: the command is written, that is all.
Act(a, command) ==
  /\ a \in connected
  /\ Len(sent[a]) < MaxSent
  /\ sent' = [sent EXCEPT ![a] = Append(@, command)]
  /\ UNCHANGED <<connected, calls, armed, emitted, pushed, view>>

Reachable(t) == t = "uri" \/ t \in connected

CallControl(a) == \E command \in {"accept", "hangup", "act"} : Act(a, command)
Dial(a, t) == Reachable(t) /\ Act(a, "dial")
\* An attended transfer dials the target.
Transfer(a, t) == Reachable(t) /\ (Act(a, "act") \/ Act(a, "dial"))
Deflect(a, t) == Reachable(t) /\ Act(a, "arm")
StopDeflect(a) == Act(a, "disarm")
RespondIncoming(a) == Act(a, "arm")

-----------------------------------------------------------------------------
(* The worker and the network                                              *)

Emit(a, type, c) ==
  /\ Len(emitted[a]) < MaxPipe
  /\ emitted' = [emitted EXCEPT ![a] = Append(@, [type |-> type, id |-> c])]
Becomes(a, c, s) == calls' = [calls EXCEPT ![a][c] = s]
Closed(s) == IF s = "established" THEN "done" ELSE "missed"
\* The next call: calls have names in the order they come.
Fresh(a) == {c \in CallIds : calls[a][c] = "new" /\ \A d \in 1..(c - 1) : calls[a][d] # "new"}
Current(a) == {c \in CallIds : calls[a][c] \in Alive}

\* The worker reads the next command; one that finds no call does nothing.
WorkerActs(a) ==
  /\ sent[a] # <<>>
  /\ sent' = [sent EXCEPT ![a] = Tail(@)]
  /\ LET command == Head(sent[a])
         nothing == UNCHANGED <<calls, armed, emitted>>
     IN \/ /\ command = "dial"
           /\ \E c \in Fresh(a) : Becomes(a, c, "outgoing") /\ Emit(a, "outgoing", c)
           /\ UNCHANGED armed
        \/ command = "dial" /\ Fresh(a) = {} /\ nothing
        \/ /\ command = "accept"
           /\ \E c \in Current(a) :
                /\ calls[a][c] = "incoming"
                /\ Becomes(a, c, "established")
                /\ Emit(a, "established", c)
           /\ UNCHANGED armed
        \/ command = "accept" /\ (\A c \in Current(a) : calls[a][c] # "incoming") /\ nothing
        \/ /\ command = "hangup"
           /\ \E c \in Current(a) : Becomes(a, c, Closed(calls[a][c])) /\ Emit(a, "closed", c)
           /\ UNCHANGED armed
        \/ command = "hangup" /\ Current(a) = {} /\ nothing
        \/ command \in {"arm", "disarm"} /\ armed' = [armed EXCEPT ![a] = command = "arm"]
           /\ UNCHANGED <<calls, emitted>>
        \/ command = "act" /\ nothing
  /\ UNCHANGED <<connected, pushed, view>>

\* An INVITE: its headers are noted in any case; one that an armed response
\* answers is no call of this agent.
InviteComes(a) ==
  /\ a \in connected
  /\ \E c \in Fresh(a) :
       /\ pushed' = [pushed EXCEPT ![a] = @ \cup {c}]
       /\ IF armed[a] THEN Becomes(a, c, "missed") /\ UNCHANGED emitted
                      ELSE Becomes(a, c, "incoming") /\ Emit(a, "incoming", c)
  /\ UNCHANGED <<connected, sent, armed, view>>

PeerAnswers(a) ==
  /\ \E c \in CallIds :
       /\ \/ calls[a][c] = "outgoing" /\ Becomes(a, c, "alerted") /\ Emit(a, "ringing", c)
          \/ calls[a][c] \in {"outgoing", "alerted"} /\ Becomes(a, c, "established") /\ Emit(a, "established", c)
  /\ UNCHANGED <<connected, sent, armed, pushed, view>>

PeerCloses(a) ==
  /\ \E c \in Current(a) : Becomes(a, c, Closed(calls[a][c])) /\ Emit(a, "closed", c)
  /\ UNCHANGED <<connected, sent, armed, pushed, view>>

RegistrarAnswers(a) ==
  /\ a \in connected
  /\ \E type \in {"registered", "unregistered"} : Emit(a, type, 0)
  /\ UNCHANGED <<connected, sent, calls, armed, pushed, view>>

AgentsStep == \E a \in Agents : FoldEvent(a) \/ TracePoll(a) \/ WorkerActs(a)

\* All sessions are taken out, hung up and dropped; their workers end.
DropSessions ==
  /\ connected' = {}
  /\ sent' = [a \in Agents |-> <<>>]
  /\ calls' = [a \in Agents |-> NoCalls]
  /\ armed' = [a \in Agents |-> FALSE]
  /\ emitted' = [a \in Agents |-> <<>>]
  /\ pushed' = [a \in Agents |-> {}]
  /\ view' = [a \in Agents |-> NoState]
=============================================================================
