----------------------------- MODULE CoreProcess -----------------------------
(***************************************************************************)
(* The process-wide half of ringo-core: sessions and their user agents     *)
(* (baresip/mod.rs, phone.rs), the event handler with the alerts it plays  *)
(* (events.rs, sounds.rs), and the life of the RE thread (re_thread.rs).   *)
(*                                                                         *)
(* Every handler and every on_re_thread closure is one step: libre runs    *)
(* them one at a time.  Between two steps the application thread that      *)
(* spawns, drops and shuts down may be anywhere in its own sequence.       *)
(*                                                                         *)
(* A call is reduced to what the tones depend on; CoreCalls has the        *)
(* commands and events of one user agent in full.  The registrar and       *)
(* baresip are not part of the repository.                                 *)
(***************************************************************************)
EXTENDS CoreSounds, FiniteSets

CONSTANTS
  MaxUas,    \* bound: sessions spawned in one process
  MaxCalls   \* bound: calls in a behaviour

ASSUME CoreProcessAssumption ==
  MaxUas \in Nat \ {0} /\ MaxCalls \in Nat

Uas == 1 .. MaxUas
Calls == 1 .. MaxCalls

VARIABLES
  re,      \* the RE thread: off, starting, running, or closed
  polling, \* re_main goes on polling
  woken,   \* epoll_wait of the RE thread has something to return
  sess,    \* each session: new, spawning, live, or dropped
  reg,     \* each user agent's registration, as libre sees it
  bound,   \* the registrar has a binding for it
  told,    \* the last registration event its session was sent said registered
  mwi,     \* MWI_STATE: the last notification, or NoMwi
  call,    \* each call
  next,    \* the call that comes next
  hushed,  \* history: waiting calls whose ring a mute, or a call of another user agent
           \* that was answered or ended, may have stopped
  stop,    \* where stop_re_thread is
  late     \* its wait for the registrar ran out

thread == <<re, polling, woken>>
registration == <<sess, reg, bound, told>>
callvars == <<call, next, hushed>>
ending == <<stop, late>>
vars == <<sound, thread, registration, mwi, callvars, ending>>

Call == [ua : Uas, dir : {"in", "out"},
         st : {"new", "incoming", "outgoing", "ringing", "answered", "up", "gone"}]
NoMwi == <<FALSE, -1>>
Mwis == {<<FALSE, 0>>, <<TRUE, 1>>}  \* bound: waiting, new messages

Init ==
  /\ sounds = [a \in Alerts |-> "builtin"] /\ slot = Off
  /\ re = "off" /\ polling = FALSE /\ woken = FALSE
  /\ sess = [u \in Uas |-> "new"]
  /\ reg = [u \in Uas |-> "off"]
  /\ bound = [u \in Uas |-> FALSE]
  /\ told = [u \in Uas |-> FALSE]
  /\ mwi = [u \in Uas |-> NoMwi]
  /\ call = [c \in Calls |-> [ua |-> 1, dir |-> "in", st |-> "new"]]
  /\ next = 1 /\ hushed = {}
  /\ stop = "idle" /\ late = FALSE

CallsOf(u) == {c \in Calls : call[c].ua = u /\ call[c].st \notin {"new", "gone"}}
Incoming(u) == {c \in CallsOf(u) : call[c].st = "incoming"}
Established(u) == {c \in CallsOf(u) : call[c].st = "up"}
AllIncoming == UNION {Incoming(u) : u \in Uas}

\* A closure runs only while the thread is up, an event only while it polls.
OnReThread == re = "running"
Handler == re = "running" /\ polling

-----------------------------------------------------------------------------
(* Registration.  reg: off, asking (REGISTER sent), on, failed, leaving    *)
(* (REGISTER with expires 0 sent, still registered to libre), aborted (the *)
(* same, but libre knows no registration: it knew none, or the request was *)
(* refused).                                                               *)

UaIsRegistered(u) == reg[u] \in {"on", "leaving"}
IsRegistered == \E u \in Uas : UaIsRegistered(u)

\* An event goes to the session whose sender is registered.
Told(u, registered) ==
  told' = IF sess[u] = "live" THEN [told EXCEPT ![u] = registered] ELSE told

\* ua_unregister, as libre takes it.
Leave(r) == CASE r \in {"on", "leaving"} -> "leaving"
              [] r = "off"               -> "off"
              [] OTHER                   -> "aborted"

\* Phone::register, also of a user agent that is registered or on its way: libre starts
\* anew and knows no registration until the answer.
Register(u) ==
  /\ OnReThread /\ sess[u] = "live" /\ stop = "idle"
  /\ reg' = [reg EXCEPT ![u] = "asking"]
  /\ Told(u, FALSE)
  /\ UNCHANGED <<sess, bound, sound, thread, mwi, callvars, ending>>

\* Phone::unregister
Unregister(u) ==
  /\ OnReThread /\ sess[u] = "live" /\ stop = "idle"
  /\ reg[u] # "off"
  /\ reg' = [reg EXCEPT ![u] = Leave(@)]
  /\ Told(u, FALSE)
  /\ UNCHANGED <<sess, bound, sound, thread, mwi, callvars, ending>>

\* The registrar takes a REGISTER; a second one renews the binding.
RegistrarTakes(u) ==
  /\ reg[u] \in {"asking", "leaving", "aborted"}
  /\ bound' = [bound EXCEPT ![u] = (reg[u] = "asking")]
  /\ bound' # bound
  /\ UNCHANGED <<sess, reg, told, sound, thread, mwi, callvars, ending>>

\* Fault: every 2xx to a REGISTER is a registration.
OkTellsRegistered(u) == TRUE

\* What the REGISTER_OK handler makes of a 2xx.
OkTells(u) == reg'[u] \in {"on", "leaving"}

\* The 200, once the registrar has done what it acknowledges.
RegisterOk(u) ==
  /\ Handler
  /\ \/ reg[u] = "asking" /\ bound[u] /\ reg' = [reg EXCEPT ![u] = "on"]
     \/ reg[u] = "leaving" /\ ~ bound[u] /\ reg' = [reg EXCEPT ![u] = "off"]
  /\ Told(u, OkTells(u))
  /\ UNCHANGED <<sess, bound, sound, thread, mwi, callvars, ending>>

\* A REGISTER, its renewal or a de-REGISTER is refused or lost; a binding may stay.
RegisterFail(u) ==
  /\ Handler
  /\ reg[u] \in {"asking", "on", "leaving"}
  /\ reg' = [reg EXCEPT ![u] = IF @ = "leaving" THEN "aborted" ELSE "failed"]
  /\ Told(u, FALSE)
  /\ UNCHANGED <<sess, bound, sound, thread, mwi, callvars, ending>>

-----------------------------------------------------------------------------
(* Sessions.  One application thread spawns, drops and shuts down; it has  *)
(* one session at a time, and drops it before the next (the phone's        *)
(* profile switch) or before the shutdown (the agent process).             *)

AppIdle == stop = "idle" /\ \A u \in Uas : sess[u] # "spawning"
NoSession == AppIdle /\ \A u \in Uas : sess[u] # "live"

\* spawn_session begins: the sounds of its configuration replace those of the
\* process, and the first one starts the RE thread.
SpawnSession(u, overrides) ==
  /\ NoSession /\ sess[u] = "new"
  /\ u > 1 => sess[u - 1] # "new"
  /\ LoadSounds(overrides) /\ UNCHANGED slot
  /\ sess' = [sess EXCEPT ![u] = "spawning"]
  /\ re' = IF re = "off" THEN "starting" ELSE re
  /\ UNCHANGED <<polling, woken, reg, bound, told, mwi, callvars, ending>>

\* re_main polls and says so: start_re_thread returns.
SignalLoopReady ==
  /\ re = "starting"
  /\ re' = "running" /\ polling' = TRUE
  /\ UNCHANGED <<woken, sound, registration, mwi, callvars, ending>>

\* libre_init or what follows it fails, or a later step of the spawn does; a
\* thread that is up stays up.
SpawnFails(u) ==
  /\ sess[u] = "spawning"
  /\ re' = IF re = "starting" THEN "off" ELSE re
  /\ sess' = [sess EXCEPT ![u] = "new"]
  /\ UNCHANGED <<polling, woken, reg, bound, told, sound, mwi, callvars, ending>>

\* The rest of spawn_session under one guard: configuration, baresip once, the
\* user agent, its sender, and then its registration.
AllocUa(u) ==
  /\ OnReThread /\ sess[u] = "spawning"
  /\ sess' = [sess EXCEPT ![u] = "live"]
  /\ reg' = [reg EXCEPT ![u] = "asking"]
  /\ told' = [told EXCEPT ![u] = FALSE]
  /\ UNCHANGED <<bound, sound, thread, mwi, callvars, ending>>

\* Fault: ua_destroy in the drop unlinks the user agent at once.
DropDestroys(u) ==
  /\ OnReThread /\ AppIdle /\ sess[u] = "live"
  /\ sess' = [sess EXCEPT ![u] = "dropped"]
  /\ mwi' = [mwi EXCEPT ![u] = NoMwi]
  /\ reg' = [reg EXCEPT ![u] = "off"]
  /\ told' = [told EXCEPT ![u] = FALSE]
  /\ UNCHANGED <<bound, sound, thread, callvars, ending>>

\* The handle is dropped: sender and voicemail state go, the user agent stays
\* with its calls until the process stops.
DropSession(u) ==
  /\ OnReThread /\ AppIdle /\ sess[u] = "live"
  /\ sess' = [sess EXCEPT ![u] = "dropped"]
  /\ mwi' = [mwi EXCEPT ![u] = NoMwi]
  /\ reg' = [reg EXCEPT ![u] = Leave(@)]
  /\ told' = [told EXCEPT ![u] = FALSE]
  /\ UNCHANGED <<bound, sound, thread, callvars, ending>>

\* Phone::silence_alert
SilenceAlert ==
  /\ OnReThread /\ \E u \in Uas : sess[u] = "live"
  /\ slot' \in StopAlert(slot)
  /\ hushed' = hushed \cup AllIncoming
  /\ UNCHANGED <<sounds, call, next, thread, registration, mwi, ending>>

-----------------------------------------------------------------------------
(* The events of calls.                                                    *)

\* A registered user agent, or one that just was, gets INVITEs.
Reachable(u) == Handler /\ bound[u]
Room == next <= MaxCalls
Others == <<sounds, thread, registration, mwi, ending>>

NoCall == [ua |-> 1, dir |-> "in", st |-> "new"]
GoneCall == [NoCall EXCEPT !.st = "gone"]

NewCall(u, dir, st) ==
  /\ call' = [call EXCEPT ![next] = [ua |-> u, dir |-> dir, st |-> st]]
  /\ next' = next + 1

\* SIPSESS_CONN with no response armed (FlowAgents), and the CALL_INCOMING that
\* ua_accept makes of it.
CallIncoming(u) ==
  /\ Reachable(u) /\ Room
  /\ NewCall(u, "in", "incoming")
  /\ slot' \in PlayAlert(slot, "ring")
  /\ hushed' = IF sounds["ring"] = "muted" THEN hushed \cup {next} \cup AllIncoming
               ELSE hushed
  /\ UNCHANGED Others

\* Phone::dial
CallOutgoing(u) ==
  /\ OnReThread /\ Room /\ sess[u] = "live"
  /\ NewCall(u, "out", "outgoing")
  /\ UNCHANGED <<slot, hushed, Others>>

\* CALL_RINGING: a 180 for a call we dialed.  A muted ringback `still stops whatever was
\* playing' (play_alert), the ring of a waiting call too.
CallRinging(c) ==
  /\ Handler /\ call[c].st = "outgoing"
  /\ call' = [call EXCEPT ![c].st = "ringing"]
  /\ slot' \in PlayAlert(slot, "ringback")
  /\ hushed' = IF sounds["ringback"] = "muted" THEN hushed \cup AllIncoming ELSE hushed
  /\ UNCHANGED <<next, Others>>

\* Phone::accept: the 200 is sent, the ACK has not come.
Accept(c) ==
  /\ OnReThread /\ sess[call[c].ua] = "live" /\ call[c].st = "incoming"
  /\ call' = [call EXCEPT ![c].st = "answered"]
  /\ hushed' = hushed \ {c}
  /\ UNCHANGED <<next, slot, Others>>

OnEstablished(s) == StopAlert(s)

\* The waiting calls of the other user agents, those of dropped sessions.
OthersWaiting(u) == AllIncoming \ Incoming(u)

\* CALL_ESTABLISHED
CallEstablished(c) ==
  /\ Handler
  /\ call[c].st \in {"answered", "outgoing", "ringing"}
  /\ call' = [call EXCEPT ![c].st = "up"]
  /\ slot' \in OnEstablished(slot)
  /\ hushed' = hushed \cup OthersWaiting(call[c].ua)
  /\ UNCHANGED <<next, Others>>

\* Fault: the tone stops with the call and nothing rings on.
EndAlertOnly(s, u, c) == StopAlert(s)

\* The tone ends; another call of this user agent that still waits rings
\* again, unless one is up.
EndAlertFor(s, u, c) ==
  IF Incoming(u) \ {c} # {} /\ Established(u) \ {c} = {}
  THEN UNION {PlayAlert(t, "ring") : t \in StopAlert(s)}
  ELSE StopAlert(s)

\* The tone for a call that failed with this status, 0 for none.
PlayClosedTone(s, scode) ==
  CASE scode \in {486, 600, 603} -> PlayAlert(s, "busy")
    [] scode \in {0, 487}        -> {s}
    [] OTHER                     -> PlayAlert(s, "error")

\* What the end of a call means for the waiting ones: those of its own user agent are
\* to ring again, unless one is up or the ring is muted; the others have met it.
HushedAfter(c) ==
  LET u == call[c].ua
  IN  hushed' = OthersWaiting(u) \cup
                (IF sounds["ring"] = "muted" THEN Incoming(u) \ {c} ELSE {})

\* CALL_CLOSED, with the status code of a call that failed.
CallClosed(c, scode) ==
  LET u == call[c].ua
  IN  /\ call[c].st \notin {"new", "gone"}
      /\ call' = [call EXCEPT ![c] = GoneCall]
      /\ slot' \in UNION {IF call[c].dir = "out" THEN PlayClosedTone(s, scode) ELSE {s} :
                            s \in EndAlertFor(slot, u, c)}
      /\ HushedAfter(c)
      /\ UNCHANGED <<next, Others>>

\* The remote party ends it, or a response fails it; bound: a status of each kind.
RemoteCloses(c) ==
  Handler /\ \E scode \in {0, 404, 486} : CallClosed(c, scode)

\* Phone::hangup, reject or deflect: reported before the command returns.
LocalCloses(c) ==
  OnReThread /\ sess[call[c].ua] = "live" /\ CallClosed(c, 0)

\* The first notification is the baseline, a repeated one is no news.
MwiIsNews(u, m) == mwi[u] # NoMwi /\ (m[2] > mwi[u][2] \/ (m[1] /\ ~ mwi[u][1]))

\* MWI_NOTIFY.  What a dropped session's user agent, still registered, last announced is
\* not followed: each notification for it may be news.
VoicemailStatus(u, m) ==
  /\ Handler /\ UaIsRegistered(u)
  /\ IF sess[u] = "live"
     THEN /\ mwi' = [mwi EXCEPT ![u] = m]
          /\ slot' \in IF MwiIsNews(u, m) THEN PlayAlert(slot, "message") ELSE {slot}
     ELSE /\ slot' \in {slot} \cup PlayAlert(slot, "message")
          /\ UNCHANGED mwi
  /\ UNCHANGED <<sounds, thread, registration, callvars, ending>>

-----------------------------------------------------------------------------
(* stop_re_thread, on the application thread.                              *)

\* A thread that never started needs nothing.
Shutdown ==
  /\ NoSession
  /\ stop' = IF OnReThread THEN "waiting" ELSE "joined"
  /\ UNCHANGED <<late, sound, thread, registration, mwi, callvars>>

\* The loop sees that nothing is registered.
Drained ==
  /\ stop = "waiting" /\ ~ IsRegistered
  /\ stop' = "drained"
  /\ UNCHANGED <<late, sound, thread, registration, mwi, callvars>>

\* GRACEFUL_SHUTDOWN is over.
RunsOut ==
  /\ stop = "waiting" /\ IsRegistered
  /\ stop' = "drained" /\ late' = TRUE
  /\ UNCHANGED <<sound, thread, registration, mwi, callvars>>

\* ua_stop_all: every call ends, with its event, and every user agent goes.
UaStopAll ==
  /\ stop = "drained"
  /\ stop' = "stopped"
  /\ call' = [c \in Calls |-> IF call[c].st = "new" THEN call[c]
                              ELSE GoneCall]
  /\ slot' = IF \E u \in Uas : CallsOf(u) # {} THEN Off ELSE slot
  /\ hushed' = {}
  /\ UNCHANGED <<next, late, sounds, thread, registration, mwi>>

\* Fault: re_cancel without the dummy event.
CancelOnly == polling' = FALSE /\ UNCHANGED woken

\* re_cancel, and a dummy event to wake the loop.
ReCancel == polling' = FALSE /\ woken' = TRUE

Cancel ==
  /\ stop = "stopped"
  /\ stop' = "joining"
  /\ ReCancel
  /\ UNCHANGED <<re, late, sound, registration, mwi, callvars>>

\* re_main returns and the RE thread tears the rest down.
ReMainReturns ==
  /\ re = "running" /\ ~ polling /\ woken
  /\ re' = "closed"
  /\ UNCHANGED <<polling, woken, sound, registration, mwi, callvars, ending>>

Join ==
  /\ stop = "joining" /\ re = "closed"
  /\ stop' = "joined"
  /\ UNCHANGED <<late, sound, thread, registration, mwi, callvars>>

-----------------------------------------------------------------------------
Stopping == Drained \/ RunsOut \/ UaStopAll \/ Cancel \/ Join

Next ==
  \/ SignalLoopReady
  \/ \E u \in Uas :
       \/ Register(u) \/ Unregister(u) \/ RegistrarTakes(u) \/ RegisterOk(u)
       \/ RegisterFail(u)
       \/ \E overrides \in SoundConfigs : SpawnSession(u, overrides)
       \/ SpawnFails(u) \/ AllocUa(u) \/ DropSession(u)
       \/ CallIncoming(u) \/ CallOutgoing(u)
       \/ \E m \in Mwis : VoicemailStatus(u, m)
  \/ \E c \in Calls :
       \/ CallRinging(c) \/ Accept(c) \/ CallEstablished(c)
       \/ RemoteCloses(c) \/ LocalCloses(c)
  \/ SilenceAlert
  \/ OneShotEnds /\ UNCHANGED <<thread, registration, mwi, callvars, ending>>
  \/ Shutdown
  \/ Stopping
  \/ ReMainReturns

\* The application thread goes on once it is shutting down, and the RE thread
\* returns from a poll that has something for it.  Nothing else is promised.
Fairness == WF_vars(Stopping) /\ WF_vars(ReMainReturns)

Spec == Init /\ [][Next]_vars /\ Fairness

-----------------------------------------------------------------------------
ProcessTypeOK ==
  /\ SoundTypeOK
  /\ re \in {"off", "starting", "running", "closed"}
  /\ polling \in BOOLEAN /\ woken \in BOOLEAN
  /\ sess \in [Uas -> {"new", "spawning", "live", "dropped"}]
  /\ reg \in [Uas -> {"off", "asking", "on", "failed", "leaving", "aborted"}]
  /\ bound \in [Uas -> BOOLEAN]
  /\ told \in [Uas -> BOOLEAN]
  /\ mwi \in [Uas -> Mwis \cup {NoMwi}]
  /\ call \in [Calls -> Call] /\ next \in 1 .. MaxCalls + 1
  /\ hushed \subseteq Calls
  /\ stop \in {"idle", "waiting", "drained", "stopped", "joining", "joined"}
  /\ late \in BOOLEAN

\* A call that waits to be answered is heard: as long as no call of its user agent is
\* up, some loop plays -- whatever calls of its user agent began, failed or ended
\* meanwhile, whatever other user agents' calls rang, whatever voicemail came, and
\* whether or not a configured file would play (play_alert, end_alert_for).  Two
\* exceptions: the user silenced it, or the ring or a ringback is configured `off'; and
\* a call of another user agent, one of a dropped session, was answered or ended, which
\* stops the tone of the process and looks only at its own waiting calls (180 and 417).
Audible ==
  \A u \in Uas : \A c \in Incoming(u) :
    Established(u) = {} /\ c \notin hushed => slot \in Loops

\* What a session was last told is what libre knows: a de-registration, which
\* is acknowledged with the same 200, is never shown as a registration
\* (events.rs, REGISTER_OK).
ToldIsTrue ==
  \A u \in Uas : sess[u] = "live" => (told[u] <=> reg[u] = "on")

\* When the process has stopped, the registrar holds no binding of a session
\* that was registered when it was dropped, unless the registrar refused to remove it
\* or did not answer in time (stop_re_thread waits, the drop leaves the user agent in
\* the list).
Deregistered ==
  stop = "joined" /\ ~ late =>
    \A u \in Uas : bound[u] => reg[u] = "aborted"

\* Shutting down ends: the loop is woken although nothing may ever arrive
\* (stop_re_thread, re_cancel and the dummy event).
StopEnds == (stop = "waiting") ~> (stop = "joined")
=============================================================================
