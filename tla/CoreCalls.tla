----------------------------- MODULE CoreCalls ------------------------------
(***************************************************************************)
(* One baresip user agent as ringo-core sees it (baresip/phone.rs,         *)
(* baresip/events.rs): the list of its calls, the commands of the `Phone'  *)
(* trait, and the events reported for the calls.                           *)
(*                                                                         *)
(* baresip is not part of the repository.  What its list does is taken     *)
(* from how phone.rs uses it: a new call goes to the tail, the tail is the *)
(* current call, call_set_current moves a call there.  All commands but    *)
(* select_call and deflect act on the current call, whichever it is.       *)
(***************************************************************************)
EXTENDS Naturals, Sequences

CONSTANTS
  MaxCalls,  \* bound: calls in a behaviour
  MaxLag     \* bound: events the network adds to a queue nobody drains

ASSUME CoreCallsAssumption == MaxCalls \in Nat /\ MaxLag \in Nat

VARIABLES
  ua,      \* the calls of the user agent, oldest selection first
  leg,     \* each call
  next,    \* the call that comes next
  events   \* the session's event channel

core == <<ua, leg, next, events>>

Calls == 1 .. MaxCalls

Leg == [dir : {"in", "out"},
        st : {"new", "ringing", "answered", "up", "gone"},
        hold : BOOLEAN,       \* we hold it
        mic : BOOLEAN,        \* its microphone is muted
        referred : BOOLEAN,   \* a REFER was sent for it
        deflected : BOOLEAN,  \* we answered it with a 302
        answered : BOOLEAN]   \* it was established once

\* "ringing" is left out: it marks a call that rings already, and what it shows
\* of an outgoing one no command asks for.
AppEvent ==
  [type : {"incoming", "outgoing", "established", "held", "resumed",
           "closed", "transferred"}, call : Calls]

\* set_speaker_muted and send_dtmf change nothing that is told apart here.
Commands == {"select", "hold", "resume", "mute", "hangup", "reject", "accept",
             "dial", "transfer", "exec"}

CoreInit ==
  /\ ua = <<>>
  /\ leg = [c \in Calls |->
             [dir |-> "in", st |-> "new", hold |-> FALSE, mic |-> FALSE,
              referred |-> FALSE, deflected |-> FALSE, answered |-> FALSE]]
  /\ next = 1
  /\ events = <<>>

Alive(c) == leg[c].st \in {"ringing", "answered", "up"}
Current == ua[Len(ua)]

\* Unlinked, as a list has a call once.
Unlink(s, i) == SubSeq(s, 1, i - 1) \o SubSeq(s, i + 1, Len(s))
Without(s, c) ==
  IF \E i \in 1 .. Len(s) : s[i] = c
  THEN Unlink(s, CHOOSE i \in 1 .. Len(s) : s[i] = c) ELSE s

Emit(type, c) == events' = Append(events, [type |-> type, call |-> c])

-----------------------------------------------------------------------------
(* The commands of the Phone trait, each one closure on the RE thread.     *)

\* A new call takes the tail.
NewCall(dir) ==
  /\ next <= MaxCalls
  /\ next' = next + 1
  /\ ua' = Append(ua, next)
  /\ leg' = [leg EXCEPT ![next].dir = dir, ![next].st = "ringing"]
  /\ Emit(IF dir = "in" THEN "incoming" ELSE "outgoing", next)

\* Its hold, its audio and its REFER go with the call.
Gone(l) == [l EXCEPT !.st = "gone", !.hold = FALSE, !.mic = FALSE, !.referred = FALSE]

Close(c, type) ==
  /\ ua' = Without(ua, c)
  /\ leg' = [leg EXCEPT ![c] = Gone(@)]
  /\ Emit(type, c)
  /\ UNCHANGED next

\* Fault: by line number, the call's place among those there were.
SelectByLine(c) ==
  /\ ua' = IF c <= Len(ua) THEN Append(Without(ua, ua[c]), ua[c]) ELSE ua
  /\ UNCHANGED <<leg, next, events>>

\* By call id; a call that is gone leaves the list as it is.
SelectCall(c) ==
  /\ ua' = IF Alive(c) THEN Append(Without(ua, c), c) ELSE ua
  /\ UNCHANGED <<leg, next, events>>

\* What a command does to the current call, if there is one.
OnCurrent(Change(_)) ==
  /\ leg' = IF ua = <<>> THEN leg ELSE [leg EXCEPT ![Current] = Change(@)]
  /\ UNCHANGED <<ua, next, events>>

Hold(on) == OnCurrent(LAMBDA l : [l EXCEPT !.hold = on])
Mute == OnCurrent(LAMBDA l : [l EXCEPT !.mic = ~ @])
Transfer == OnCurrent(LAMBDA l : [l EXCEPT !.referred = (l.st = "up")])
Accept == OnCurrent(LAMBDA l :
  IF l.dir = "in" /\ l.st = "ringing" THEN [l EXCEPT !.st = "answered"] ELSE l)

\* ua_hangup frees the call and reports its end before it returns; reject is
\* the same with a status code.
Hangup == IF ua = <<>> THEN UNCHANGED core ELSE Close(Current, "closed")

\* ua_connect may refuse, and says so to nobody.
Dial == NewCall("out") \/ UNCHANGED core

\* REFER with Replaces: the current call and the first other one of the list.
AttendedTransferExec ==
  /\ leg' = IF Len(ua) < 2 THEN leg
            ELSE [leg EXCEPT ![Current].referred = TRUE, ![ua[1]].referred = TRUE]
  /\ UNCHANGED <<ua, next, events>>

\* By id and only while it rings in; tells whether the 302 was sent.
CanDeflect(c) == leg[c].dir = "in" /\ leg[c].st = "ringing"
Deflect(c) ==
  /\ CanDeflect(c)
  /\ ua' = Without(ua, c)
  /\ leg' = [leg EXCEPT ![c] = [Gone(@) EXCEPT !.deflected = TRUE]]
  /\ Emit("closed", c)
  /\ UNCHANGED next

\* Fault: the id is made current and the current call is answered with the 302.
DeflectCurrent(c) ==
  LET target == IF Alive(c) \/ ua = <<>> THEN c ELSE Current
  IN  /\ ua' = Without(ua, target)
      /\ leg' = [leg EXCEPT ![target] = [Gone(@) EXCEPT !.deflected = TRUE]]
      /\ Emit("closed", target)
      /\ UNCHANGED next

Perform(cmd, c) ==
  CASE cmd = "select"   -> SelectCall(c)
    [] cmd = "hold"     -> Hold(TRUE)
    [] cmd = "resume"   -> Hold(FALSE)
    [] cmd = "mute"     -> Mute
    [] cmd = "transfer" -> Transfer
    [] cmd = "accept"   -> Accept
    [] cmd = "exec"     -> AttendedTransferExec
    [] cmd = "dial"     -> Dial
    [] OTHER            -> Hangup

-----------------------------------------------------------------------------
(* What the remote parties do, and the events it becomes.                  *)

Room == Len(events) < MaxLag

RemoteInvite == Room /\ NewCall("in")

\* The 200 of a dialed call, or the ACK of one we answered.
RemoteAnswer(c) ==
  /\ Room
  /\ \/ leg[c].dir = "out" /\ leg[c].st = "ringing"
     \/ leg[c].st = "answered"
  /\ leg' = [leg EXCEPT ![c].st = "up", ![c].answered = TRUE]
  /\ Emit("established", c)
  /\ UNCHANGED <<ua, next>>

\* The remote party may hold and resume as it likes.
RemoteHold(c, type) ==
  /\ Room /\ leg[c].st = "up"
  /\ Emit(type, c)
  /\ UNCHANGED <<ua, leg, next>>

RemoteHangup(c) == Room /\ Alive(c) /\ Close(c, "closed")

\* A transfer that went through ends its legs, and the reason says so.
RemoteTransferred(c) ==
  Room /\ leg[c].st = "up" /\ leg[c].referred /\ Close(c, "transferred")

CoreTypeOK ==
  /\ ua \in Seq(Calls)
  /\ leg \in [Calls -> Leg]
  /\ next \in 1 .. MaxCalls + 1
  /\ events \in Seq(AppEvent)
=============================================================================
