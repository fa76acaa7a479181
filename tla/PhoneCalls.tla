----------------------------- MODULE PhoneCalls -----------------------------
(***************************************************************************)
(* The calls of a ringo-phone session (ringo-phone/src/tui): the list on   *)
(* the screen, what is selected in it, and what keys, commands and events  *)
(* do to it and to baresip's own list (CoreCalls).                         *)
(*                                                                         *)
(* The two lists are apart in two ways.  Events wait in a channel that is  *)
(* drained once per turn of the render loop, so a key may meet a list that *)
(* is out of date.  And a handler sends several commands, each a closure   *)
(* of its own on the RE thread, so the network may come in between: the    *)
(* handler is one step that leaves its commands in `todo', and nothing     *)
(* else of the session happens until they are done.                        *)
(*                                                                         *)
(* Overlays, text fields and confirmations are left out: a key here is one *)
(* that reached its handler.  A session that quits is not modelled.        *)
(***************************************************************************)
EXTENDS CoreCalls

CONSTANTS
  AutoHold,  \* the profile's auto_hold
  MaxKeys    \* bound: keys and remote commands in a behaviour

ASSUME PhoneCallsAssumption == AutoHold \in BOOLEAN /\ MaxKeys \in Nat

VARIABLES
  calls,              \* the calls on the screen
  selected_call,      \* index of the selected one
  muted, deafened,    \* what the screen says of the audio
  mic_before_deafen,  \* whether the microphone was muted before
  transfer_mode,      \* the transfer being typed or pending
  todo,               \* commands the handler has yet to send
  keys,               \* keys and remote commands so far
  report              \* history: the hook and history entry of each call

audio == <<muted, deafened, mic_before_deafen>>
screen == <<calls, selected_call, audio, transfer_mode>>
vars == <<core, screen, todo, keys, report>>

Call == [id : Calls, state : {"Ringing", "Established", "OnHold"},
         started : BOOLEAN, declined : {"no", "Rejected", "Deflected"}]

NoTransfer == [mode |-> "None", id |-> 0]

\* A command, the call it is meant for (0: whichever is current), whether
\* that call was selected for it, and the next call when it was decided on.
Command == [cmd : Commands, for : 0 .. MaxCalls, picked : BOOLEAN, at : Nat]

\* Types; the selection is a call of the list as long as there is one, so no
\* handler indexes past the list.
TypeOK ==
  /\ CoreTypeOK
  /\ calls \in Seq(Call)
  /\ selected_call \in 1 .. (IF calls = <<>> THEN MaxCalls ELSE Len(calls))
  /\ {muted, deafened, mic_before_deafen} \subseteq BOOLEAN
  /\ transfer_mode \in [mode : {"None", "BlindInput", "AttendedInput",
                                "DeflectInput", "AttendedPending"},
                        id : 0 .. MaxCalls]
  /\ todo \in Seq(Command) /\ keys \in Nat
  /\ report \in [Calls -> {"none", "answered", "unanswered", "missed",
                           "rejected", "deflected"}]

Init ==
  /\ CoreInit
  /\ calls = <<>> /\ selected_call = 1
  /\ muted = FALSE /\ deafened = FALSE /\ mic_before_deafen = FALSE
  /\ transfer_mode = NoTransfer
  /\ todo = <<>> /\ keys = 0
  /\ report = [c \in Calls |-> "none"]

-----------------------------------------------------------------------------
Listed(s, c) == \E i \in 1 .. Len(s) : s[i].id = c
Selected == calls[selected_call].id


\* Fault: what is selected goes, whichever call ended.
DropSelected(s, c) ==
  IF selected_call <= Len(s) THEN Unlink(s, selected_call) ELSE s

\* retain, of a list that has each call once (which ListsAgree says).
Drop(s, c) ==
  IF Listed(s, c) THEN Unlink(s, CHOOSE i \in 1 .. Len(s) : s[i].id = c) ELSE s

InState(s, i, state) == i \in 1 .. Len(s) /\ s[i].state = state

RingsIn(i) == calls[i].state = "Ringing" /\ leg[calls[i].id].dir = "in"
Active == InState(calls, selected_call, "Established")
OnHold == InState(calls, selected_call, "OnHold")

\* The first call of the list for which P holds.
IsFirst(i, P(_)) == P(i) /\ \A j \in 1 .. i - 1 : ~ P(j)

Cmd(cmd, c) == [cmd |-> cmd, for |-> c, picked |-> FALSE, at |-> next]
\* A command on a call that is made current first.
OnCall(cmd, c) ==
  << [Cmd("select", c) EXCEPT !.picked = TRUE], [Cmd(cmd, c) EXCEPT !.picked = TRUE] >>
Only(cmd, c) == << Cmd(cmd, c) >>

SetState(i, state) == calls' = [calls EXCEPT ![i].state = state]

\* The session's thread is free to take a key, a remote command or an event.
Free == todo = <<>>
Normal == Free /\ transfer_mode.mode = "None"

\* The next command runs on the RE thread.
SendCommand ==
  /\ todo # <<>>
  /\ Perform(Head(todo).cmd, Head(todo).for)
  /\ todo' = Tail(todo)
  /\ UNCHANGED <<screen, keys, report>>

-----------------------------------------------------------------------------
(* Keys and remote commands.  Those that both can give have no mode.       *)

\* dial: the active call is held first.
PlaceCall ==
  /\ Free /\ next <= MaxCalls
  /\ IF AutoHold /\ Active
     THEN /\ todo' = OnCall("hold", Selected) \o Only("dial", 0)
          /\ SetState(selected_call, "OnHold")
     ELSE todo' = Only("dial", 0) /\ UNCHANGED calls
  /\ UNCHANGED <<core, selected_call, audio, transfer_mode, report>>

\* a, accept: the first established call is held first.
AcceptIncoming ==
  /\ Free
  /\ \E i \in 1 .. Len(calls) :
       /\ IsFirst(i, RingsIn)
       /\ selected_call' = i
       /\ IF AutoHold /\ \E j \in 1 .. Len(calls) : InState(calls, j, "Established")
          THEN \E j \in 1 .. Len(calls) :
                 /\ IsFirst(j, LAMBDA k : InState(calls, k, "Established"))
                 /\ todo' = OnCall("hold", calls[j].id) \o OnCall("accept", calls[i].id)
                 /\ SetState(j, "OnHold")
          ELSE todo' = OnCall("accept", calls[i].id) /\ UNCHANGED calls
  /\ UNCHANGED <<core, audio, transfer_mode, report>>

\* reject: the first incoming call that rings.
RejectIncoming ==
  /\ Free
  /\ \E i \in 1 .. Len(calls) :
       /\ IsFirst(i, RingsIn)
       /\ todo' = OnCall("reject", calls[i].id)
       /\ calls' = [calls EXCEPT ![i].declined = "Rejected"]
  /\ UNCHANGED <<core, selected_call, audio, transfer_mode, report>>

\* b: reject the selected call if it rings in, else hang it up.
HangupSelected ==
  /\ Normal /\ calls # <<>>
  /\ IF RingsIn(selected_call)
     THEN /\ todo' = OnCall("reject", Selected)
          /\ calls' = [calls EXCEPT ![selected_call].declined = "Rejected"]
     ELSE todo' = OnCall("hangup", Selected) /\ UNCHANGED calls
  /\ UNCHANGED <<core, selected_call, audio, transfer_mode, report>>

\* hangup: the current call, selected or not.
HangupCurrent ==
  /\ Free /\ calls # <<>>
  /\ todo' = Only("hangup", 0)
  /\ UNCHANGED <<core, screen, report>>

\* h, hold, resume.
ToggleHold ==
  /\ Free /\ (Active \/ OnHold)
  /\ todo' = Only(IF OnHold THEN "resume" ELSE "hold", Selected)
  /\ SetState(selected_call, IF OnHold THEN "Established" ELSE "OnHold")
  /\ UNCHANGED <<core, selected_call, audio, transfer_mode, report>>

\* m, mute.
ToggleMute ==
  /\ Free /\ Active
  /\ muted' = ~ muted
  /\ todo' = Only("mute", Selected)
  /\ UNCHANGED <<core, calls, selected_call, deafened, mic_before_deafen,
                 transfer_mode, report>>

\* M, deafen: the speaker, which is left out, and the microphone with it.
Deafen ==
  /\ Free /\ Active
  /\ deafened' = ~ deafened
  /\ muted' = IF deafened THEN mic_before_deafen ELSE TRUE
  /\ mic_before_deafen' = IF deafened THEN FALSE ELSE muted
  /\ todo' = IF muted' = muted THEN todo ELSE Only("mute", Selected)
  /\ UNCHANGED <<core, calls, selected_call, transfer_mode, report>>

\* Tab: hold this call, go to the next, take it off hold.
SwitchLine ==
  /\ Free /\ transfer_mode.mode \in {"None", "AttendedPending"}
  /\ Len(calls) > 1
  /\ LET to == (selected_call % Len(calls)) + 1
         holds == AutoHold /\ Active
         resumes == AutoHold /\ InState(calls, to, "OnHold")
     IN  /\ selected_call' = to
         /\ todo' = (IF holds THEN OnCall("hold", Selected) ELSE <<>>)
                    \o (IF resumes THEN OnCall("resume", calls[to].id)
                        ELSE << Head(OnCall("select", calls[to].id)) >>)
         /\ calls' = [i \in 1 .. Len(calls) |->
              [calls[i] EXCEPT !.state = IF holds /\ i = selected_call THEN "OnHold"
                                         ELSE IF resumes /\ i = to THEN "Established"
                                         ELSE @]]
  /\ UNCHANGED <<core, audio, transfer_mode, report>>

-----------------------------------------------------------------------------
(* Deflection and transfer.                                                *)

DeclineDeflected(c) ==
  calls' = [i \in 1 .. Len(calls) |->
             IF calls[i].id = c THEN [calls[i] EXCEPT !.declined = "Deflected"]
             ELSE calls[i]]

\* Fault: baresip's list is not asked.
DeflectCallByCurrent(c) ==
  IF \E i \in 1 .. Len(calls) : calls[i].id = c /\ RingsIn(i)
  THEN DeflectCurrent(c) /\ DeclineDeflected(c)
  ELSE UNCHANGED <<core, calls>>

\* A 302 if call c still rings on the screen and in baresip, else an error.
DeflectCall(c) ==
  IF \E i \in 1 .. Len(calls) : calls[i].id = c /\ RingsIn(i) /\ CanDeflect(c)
  THEN Deflect(c) /\ DeclineDeflected(c)
  ELSE UNCHANGED <<core, calls>>

\* deflect <uri>: the selected call if it rings in, else the first that does.
DeflectCommand ==
  /\ Free
  /\ \E i \in 1 .. Len(calls) :
       /\ IF selected_call <= Len(calls) /\ RingsIn(selected_call)
          THEN i = selected_call ELSE IsFirst(i, RingsIn)
       /\ DeflectCall(calls[i].id)
  /\ UNCHANGED <<selected_call, audio, transfer_mode, todo, report>>

\* transfer <uri>.
TransferCommand ==
  /\ Free /\ Active
  /\ todo' = Only("transfer", Selected)
  /\ UNCHANGED <<core, screen, report>>

\* t, T.
OpenTransfer(mode) ==
  /\ Normal /\ calls # <<>>
  /\ IF mode = "DeflectInput" THEN RingsIn(selected_call) ELSE Active
  /\ transfer_mode' = [mode |-> mode, id |-> IF mode = "DeflectInput" THEN Selected ELSE 0]
  /\ UNCHANGED <<core, calls, selected_call, audio, todo, report>>

Typing == Free /\ transfer_mode.mode \in {"BlindInput", "AttendedInput", "DeflectInput"}

InputEsc ==
  /\ Typing
  /\ transfer_mode' = NoTransfer
  /\ UNCHANGED <<core, calls, selected_call, audio, todo, report>>

InputEnter ==
  /\ Typing
  /\ CASE transfer_mode.mode = "BlindInput" ->
            /\ todo' = Only("transfer", IF calls = <<>> THEN 0 ELSE Selected)
            /\ transfer_mode' = NoTransfer
            /\ UNCHANGED <<core, calls>>
       [] transfer_mode.mode = "AttendedInput" ->
            /\ next <= MaxCalls
            /\ todo' = Only("hold", IF calls = <<>> THEN 0 ELSE Selected) \o Only("dial", 0)
            /\ IF calls = <<>> THEN UNCHANGED calls ELSE SetState(selected_call, "OnHold")
            /\ transfer_mode' = [mode |-> "AttendedPending", id |-> 0]
            /\ UNCHANGED core
       [] transfer_mode.mode = "DeflectInput" ->
            /\ DeflectCall(transfer_mode.id)
            /\ transfer_mode' = NoTransfer
            /\ UNCHANGED todo
  /\ UNCHANGED <<selected_call, audio, report>>

\* X and Esc: complete the transfer, or hang up the consultation call.
PendingEnd(cmd) ==
  /\ Free /\ transfer_mode.mode = "AttendedPending"
  /\ todo' = Only(cmd, 0)
  /\ transfer_mode' = NoTransfer
  /\ UNCHANGED <<core, calls, selected_call, audio, report>>

-----------------------------------------------------------------------------
(* Events.                                                                 *)

NewEntry(c) == [id |-> c, state |-> "Ringing", started |-> FALSE, declined |-> "no"]

Take(types) ==
  /\ Free /\ events # <<>> /\ Head(events).type \in types
  /\ events' = Tail(events)
  /\ UNCHANGED <<ua, leg, next, keys>>

HandleIncoming ==
  /\ Take({"incoming"})
  /\ calls' = Append(calls, NewEntry(Head(events).call))
  /\ UNCHANGED <<selected_call, audio, transfer_mode, todo, report>>

\* A call we dialed is selected.
HandleOutgoing ==
  /\ Take({"outgoing"})
  /\ calls' = Append(calls, NewEntry(Head(events).call))
  /\ selected_call' = Len(calls')
  /\ UNCHANGED <<audio, transfer_mode, todo, report>>

\* Established, held and resumed.
HandleState ==
  /\ Take({"established", "held", "resumed"})
  /\ calls' = [i \in 1 .. Len(calls) |->
       IF calls[i].id # Head(events).call THEN calls[i]
       ELSE [calls[i] EXCEPT
              !.state = IF Head(events).type = "held" THEN "OnHold" ELSE "Established",
              !.started = @ \/ Head(events).type = "established"]]
  /\ UNCHANGED <<selected_call, audio, transfer_mode, todo, report>>

\* Fault: that the user declined the call counts more than that it was answered.
OutcomeDeclined(call) ==
  IF call.declined = "Rejected" THEN "rejected"
  ELSE IF call.started THEN "answered"
  ELSE IF leg[call.id].dir = "out" THEN "unanswered"
  ELSE IF call.declined = "Deflected" THEN "deflected" ELSE "missed"

\* Of a call that was never answered: the hook fired after call_ended.
Outcome(call) ==
  IF call.started THEN "answered"
  ELSE IF leg[call.id].dir = "out" THEN "unanswered"
  ELSE IF call.declined = "Rejected" THEN "rejected"
  ELSE IF call.declined = "Deflected" THEN "deflected" ELSE "missed"

\* The selection after the list became `rest'.
Reselect(rest) ==
  IF selected_call > Len(rest) /\ rest # <<>> THEN Len(rest) ELSE selected_call

\* Leave a transfer whose consultation, or whose call, is gone.
LeaveTransfer(c, rest) ==
  IF \/ transfer_mode.mode = "AttendedPending" /\ Len(rest) < 2
     \/ transfer_mode = [mode |-> "DeflectInput", id |-> c]
  THEN NoTransfer ELSE transfer_mode

HandleClosed ==
  /\ Take({"closed", "transferred"})
  /\ LET c == Head(events).call
         rest == Drop(calls, c)
         sel == Reselect(rest)
         resumes == Head(events).type = "closed" /\ InState(rest, sel, "OnHold")
     IN  /\ report' = [report EXCEPT ![c] =
              IF Listed(calls, c)
              THEN Outcome(calls[CHOOSE i \in 1 .. Len(calls) : calls[i].id = c]) ELSE @]
         /\ selected_call' = sel
         /\ transfer_mode' = LeaveTransfer(c, rest)
         /\ IF resumes
            THEN /\ calls' = [rest EXCEPT ![sel].state = "Established"]
                 /\ todo' = OnCall("resume", rest[sel].id)
            ELSE calls' = rest /\ UNCHANGED todo
  /\ muted' = FALSE /\ deafened' = FALSE /\ mic_before_deafen' = FALSE

-----------------------------------------------------------------------------
Keys ==
  /\ keys < MaxKeys /\ keys' = keys + 1
  /\ \/ PlaceCall \/ AcceptIncoming \/ RejectIncoming
     \/ HangupSelected \/ HangupCurrent
     \/ ToggleHold \/ ToggleMute \/ Deafen \/ SwitchLine
     \/ DeflectCommand \/ TransferCommand
     \/ \E mode \in {"BlindInput", "AttendedInput", "DeflectInput"} : OpenTransfer(mode)
     \/ InputEsc \/ InputEnter
     \/ \E cmd \in {"exec", "hangup"} : PendingEnd(cmd)

Events == HandleIncoming \/ HandleOutgoing \/ HandleState \/ HandleClosed

Network ==
  /\ \/ RemoteInvite
     \/ \E c \in Calls :
          \/ RemoteAnswer(c) \/ RemoteHangup(c) \/ RemoteTransferred(c)
          \/ \E type \in {"held", "resumed"} : RemoteHold(c, type)
  /\ UNCHANGED <<screen, todo, keys, report>>

Next == Keys \/ Events \/ SendCommand \/ Network

Spec == Init /\ [][Next]_vars

-----------------------------------------------------------------------------
Reported(types) == {events[i].call : i \in {j \in 1 .. Len(events) : events[j].type \in types}}

\* The screen's list (call.rs) and baresip's are one event channel apart: with
\* the waiting events applied, and however handlers and network interleave,
\* the screen lists exactly the calls baresip has, each once.
ListsAgree ==
  /\ {c \in Calls : Alive(c)} =
       ({calls[i].id : i \in 1 .. Len(calls)} \cup Reported({"incoming", "outgoing"}))
       \ Reported({"closed", "transferred"})
  /\ \A i, j \in 1 .. Len(calls) : calls[i].id = calls[j].id => i = j

\* select_call (phone.rs) and the handlers that rely on it: a command for a
\* call that was selected by id meets that call, unless it is already gone or
\* a newer call has just come in between.
SelectedIsHit ==
  todo # <<>> /\ Head(todo).picked /\ Head(todo).cmd # "select" /\ Alive(Head(todo).for)
    => Current = Head(todo).for \/ next > Head(todo).at

\* deflect (phone.rs): a deflection ends an incoming call that rings and
\* touches no other, however out of date the list it was chosen from.
DeflectSpares ==
  [][\A c \in Calls : leg'[c].deflected /\ ~ leg[c].deflected
       => /\ leg[c].dir = "in" /\ leg[c].st = "ringing"
          /\ \A d \in Calls \ {c} : leg'[d] = leg[d]]_vars

\* handle_call_closed: the hook and the history entry of a call say what
\* became of it: answered exactly if it was once established, deflected only
\* if baresip sent the 302, and a call it was sent for is never missed; a call
\* that is gone has its report unless its last event is still waiting.
EndsAreTrue ==
  \A c \in Calls :
    /\ report[c] # "none" =>
         /\ leg[c].st = "gone" /\ ~ Listed(calls, c)
         /\ (report[c] = "answered") <=> leg[c].answered
         /\ report[c] = "deflected" => leg[c].deflected
         /\ leg[c].deflected => report[c] \in {"deflected", "rejected"}
    /\ leg[c].st = "gone" /\ report[c] = "none" => c \in Reported({"closed", "transferred"})

=============================================================================
