----------------------------- MODULE CoreProofs -----------------------------
(***************************************************************************)
(* ringo-core: the process around the sessions, and audio capture.         *)
(*                                                                         *)
(* The process (CoreProcess), for any number of sessions and calls and any *)
(* configuration of the sounds: a session is told the registration libre   *)
(* has (ToldIsTrue), and a process that stopped in time leaves no binding  *)
(* of a session that was registered when it was dropped (Deregistered).    *)
(* Neither depends on the calls or on the slot.  The second needs the      *)
(* order of the application thread: a session is dropped before the        *)
(* process stops, a dropped user agent can only be on its way out, and the *)
(* RE thread is not gone before it was asked to go.  Then of the calls and *)
(* the slot: a waiting call is heard (Audible).  The argument goes by user *)
(* agent: the end of its last call that is up sounds its waiting ones      *)
(* again, and whatever stops the tone otherwise is in `hushed'.            *)
(*                                                                         *)
(* Capture (CoreCapture), for any number of calls, rates and recordings    *)
(* and any retention: what a recording holds is of that recording          *)
(* (RecordingFresh), and it is whole but for what it met (RecordingWhole). *)
(* While an arm goes over the buffers, one that it has dealt with is told  *)
(* from one that it has not: the former obeys the flag, the latter still   *)
(* holds what the flag it replaced made of it.                             *)
(***************************************************************************)
EXTENDS CoreProcess, CoreCapture, SequenceTheorems, TLAPS

Regs == {"off", "asking", "on", "failed", "leaving", "aborted"}
Stops == {"idle", "waiting", "drained", "stopped", "joining", "joined"}

\* The part of the types the argument is about.
SessionTypes ==
  /\ re \in {"off", "starting", "running", "closed"}
  /\ sess \in [Uas -> {"new", "spawning", "live", "dropped"}]
  /\ reg \in [Uas -> Regs]
  /\ bound \in [Uas -> BOOLEAN]
  /\ told \in [Uas -> BOOLEAN]
  /\ stop \in Stops

\* What a user agent can be depends on how far its session got.
LifeOfUa ==
  \A u \in Uas :
    /\ sess[u] \in {"new", "spawning"} => reg[u] = "off"
    /\ sess[u] = "dropped" => reg[u] \in {"off", "leaving", "aborted"}
    /\ reg[u] = "off" => ~ bound[u]

\* The thread is not up before the first session, and ends only when asked.
LifeOfThread ==
  /\ re \in {"off", "starting"} => \A u \in Uas : sess[u] \in {"new", "spawning"}
  /\ woken \/ re = "closed" => stop \in {"joining", "joined"}

\* The process stops without a session, and after the wait nothing is registered.
EndOfSessions ==
  /\ stop # "idle" => \A u \in Uas : sess[u] \in {"new", "dropped"}
  /\ stop \notin {"idle", "waiting"} /\ ~ late =>
       \A u \in Uas : reg[u] \notin {"on", "leaving"}

IInv == SessionTypes /\ LifeOfUa /\ LifeOfThread /\ EndOfSessions

-----------------------------------------------------------------------------
LEMMA InitIInv == Init => IInv
BY CoreProcessAssumption DEF Init, IInv, SessionTypes, LifeOfUa, LifeOfThread, EndOfSessions,
  registration, thread, ending, Regs, Stops, Uas

\* Calls, tones and voicemail leave sessions, registrations and the thread alone.
Aside == UNCHANGED <<thread, registration, ending>>

LEMMA AsideStep == ASSUME IInv, Aside PROVE IInv'
BY DEF IInv, SessionTypes, LifeOfUa, LifeOfThread, EndOfSessions, Aside, thread, registration,
  ending

LEMMA CallsAreAside ==
  ASSUME \/ \E u \in Uas : CallIncoming(u) \/ CallOutgoing(u)
                            \/ \E m \in Mwis : VoicemailStatus(u, m)
         \/ \E c \in Calls : \/ CallRinging(c) \/ Accept(c) \/ CallEstablished(c)
                             \/ RemoteCloses(c) \/ LocalCloses(c)
         \/ SilenceAlert
         \/ OneShotEnds /\ UNCHANGED <<thread, registration, mwi, callvars, ending>>
         \/ UNCHANGED vars
  PROVE  Aside
<1>1. ASSUME NEW u \in Uas, CallIncoming(u) \/ CallOutgoing(u)  PROVE Aside
  BY <1>1 DEF CallIncoming, CallOutgoing, Others, Aside
<1>2. ASSUME NEW u \in Uas, NEW m \in Mwis, VoicemailStatus(u, m)  PROVE Aside
  BY <1>2 DEF VoicemailStatus, Aside
<1>3. ASSUME NEW c \in Calls, CallRinging(c) \/ Accept(c) \/ CallEstablished(c)  PROVE Aside
  BY <1>3 DEF CallRinging, Accept, CallEstablished, Others, Aside
<1>4. ASSUME NEW c \in Calls, RemoteCloses(c) \/ LocalCloses(c)  PROVE Aside
  BY <1>4 DEF RemoteCloses, LocalCloses, CallClosed, Others, Aside
<1>5. CASE SilenceAlert
  BY <1>5 DEF SilenceAlert, Aside
<1>6. CASE UNCHANGED vars
  BY <1>6 DEF vars, Aside
<1>7. QED
  BY <1>1, <1>2, <1>3, <1>4, <1>5, <1>6 DEF Aside

\* What a step must keep when it changes one user agent and not the thread.
LEMMA OneUa ==
  ASSUME IInv, NEW u \in Uas, UNCHANGED <<thread, ending>>,
         NEW s \in {"new", "spawning", "live", "dropped"}, NEW r \in Regs, NEW b \in BOOLEAN,
         sess' = [sess EXCEPT ![u] = s], reg' = [reg EXCEPT ![u] = r],
         bound' = [bound EXCEPT ![u] = b], told' \in [Uas -> BOOLEAN],
         s \in {"new", "spawning"} => r = "off",
         s = "dropped" => r \in {"off", "leaving", "aborted"},
         r = "off" => ~ b,
         re \in {"off", "starting"} => s \in {"new", "spawning"},
         stop # "idle" => s \in {"new", "dropped"},
         stop # "idle" /\ r \in {"on", "leaving"} => reg[u] = r
  PROVE  IInv'
<1>1. SessionTypes'
  BY DEF IInv, SessionTypes, thread, ending
<1>2. LifeOfUa'
  BY DEF IInv, SessionTypes, LifeOfUa
<1>3. LifeOfThread'
  BY DEF IInv, SessionTypes, LifeOfThread, thread, ending
<1>4. EndOfSessions'
  BY DEF IInv, SessionTypes, EndOfSessions, ending
<1>5. QED
  BY <1>1, <1>2, <1>3, <1>4 DEF IInv

\* Registrations and the life of a session, one user agent at a time.
LEMMA UaSteps ==
  ASSUME IInv, NEW u \in Uas,
         \/ Register(u) \/ Unregister(u) \/ RegistrarTakes(u) \/ RegisterOk(u)
         \/ RegisterFail(u) \/ AllocUa(u) \/ DropSession(u)
  PROVE  IInv'
<1> USE DEF IInv, SessionTypes
<1>t. ASSUME NEW r \in BOOLEAN, Told(u, r)  PROVE told' \in [Uas -> BOOLEAN]
  BY <1>t DEF Told
<1>l. \A r \in Regs : Leave(r) \in Regs /\ (Leave(r) # "off" \/ r = "off")
                    /\ (Leave(r) = "leaving" => r \in {"on", "leaving"})
                    /\ Leave(r) \in {"off", "leaving", "aborted"}
  BY DEF Leave, Regs
<1>1. CASE Register(u)
  <2>1. /\ sess' = [sess EXCEPT ![u] = "live"] /\ reg' = [reg EXCEPT ![u] = "asking"]
        /\ bound' = [bound EXCEPT ![u] = bound[u]] /\ UNCHANGED <<thread, ending>>
        /\ stop = "idle" /\ re = "running"
    BY <1>1 DEF Register, OnReThread
  <2>2. told' \in [Uas -> BOOLEAN]
    BY <1>1, <1>t DEF Register
  <2>3. QED
    BY <2>1, <2>2, OneUa DEF Regs
<1>2. CASE Unregister(u)
  <2> DEFINE r == Leave(reg[u])
  <2>1. /\ sess' = [sess EXCEPT ![u] = "live"] /\ reg' = [reg EXCEPT ![u] = r]
        /\ bound' = [bound EXCEPT ![u] = bound[u]] /\ UNCHANGED <<thread, ending>>
        /\ stop = "idle" /\ re = "running" /\ reg[u] # "off"
    BY <1>2 DEF Unregister, OnReThread
  <2>2. told' \in [Uas -> BOOLEAN]
    BY <1>2, <1>t DEF Unregister
  <2>3. r \in Regs /\ r # "off"
    BY <2>1, <1>l
  <2> HIDE DEF r
  <2>4. QED
    BY <2>1, <2>2, <2>3, OneUa
<1>3. CASE RegistrarTakes(u)
  <2>1. /\ sess' = [sess EXCEPT ![u] = sess[u]] /\ reg' = [reg EXCEPT ![u] = reg[u]]
        /\ bound' = [bound EXCEPT ![u] = (reg[u] = "asking")] /\ UNCHANGED <<thread, ending>>
        /\ told' = told /\ reg[u] # "off"
    BY <1>3 DEF RegistrarTakes
  <2>2. QED
    BY <2>1, OneUa DEF LifeOfUa, LifeOfThread, EndOfSessions
<1>4. CASE RegisterOk(u)
  <2>1. /\ sess' = [sess EXCEPT ![u] = sess[u]]
        /\ bound' = [bound EXCEPT ![u] = bound[u]] /\ UNCHANGED <<thread, ending>>
        /\ re = "running"
    BY <1>4 DEF RegisterOk, Handler
  <2>2. told' \in [Uas -> BOOLEAN]
    BY <1>4, <1>t DEF RegisterOk, OkTells
  <2>3. CASE reg[u] = "asking" /\ reg' = [reg EXCEPT ![u] = "on"]
    BY <2>1, <2>2, <2>3, OneUa DEF LifeOfUa, LifeOfThread, EndOfSessions, Regs
  <2>4. CASE ~ bound[u] /\ reg' = [reg EXCEPT ![u] = "off"]
    BY <2>1, <2>2, <2>4, OneUa DEF LifeOfUa, LifeOfThread, EndOfSessions, Regs
  <2>5. QED
    BY <1>4, <2>3, <2>4 DEF RegisterOk
<1>5. CASE RegisterFail(u)
  <2> DEFINE r == IF reg[u] = "leaving" THEN "aborted" ELSE "failed"
  <2>1. /\ sess' = [sess EXCEPT ![u] = sess[u]] /\ reg' = [reg EXCEPT ![u] = r]
        /\ bound' = [bound EXCEPT ![u] = bound[u]] /\ UNCHANGED <<thread, ending>>
        /\ re = "running" /\ reg[u] \in {"asking", "on", "leaving"}
    BY <1>5 DEF RegisterFail, Handler
  <2>2. told' \in [Uas -> BOOLEAN]
    BY <1>5, <1>t DEF RegisterFail
  <2>3. /\ r \in Regs /\ r \notin {"off", "on", "leaving"}
        /\ sess[u] = "dropped" => r = "aborted"
    BY <2>1 DEF LifeOfUa, Regs
  <2> HIDE DEF r
  <2>4. QED
    BY <2>1, <2>2, <2>3, OneUa DEF LifeOfUa, LifeOfThread, EndOfSessions
<1>6. CASE AllocUa(u)
  <2>1. /\ sess' = [sess EXCEPT ![u] = "live"] /\ reg' = [reg EXCEPT ![u] = "asking"]
        /\ bound' = [bound EXCEPT ![u] = bound[u]] /\ UNCHANGED <<thread, ending>>
        /\ told' \in [Uas -> BOOLEAN] /\ re = "running" /\ sess[u] = "spawning"
    BY <1>6 DEF AllocUa, OnReThread
  <2>2. QED
    BY <2>1, OneUa DEF EndOfSessions, Regs
<1>7. CASE DropSession(u)
  <2> DEFINE r == Leave(reg[u])
  <2>1. /\ sess' = [sess EXCEPT ![u] = "dropped"] /\ reg' = [reg EXCEPT ![u] = r]
        /\ bound' = [bound EXCEPT ![u] = bound[u]] /\ UNCHANGED <<thread, ending>>
        /\ told' \in [Uas -> BOOLEAN] /\ stop = "idle" /\ re = "running"
    BY <1>7 DEF DropSession, OnReThread, AppIdle
  <2>2. r \in Regs /\ r \in {"off", "leaving", "aborted"} /\ (r = "off" => ~ bound[u])
    BY <1>l DEF LifeOfUa
  <2> HIDE DEF r
  <2>3. QED
    BY <2>1, <2>2, OneUa
<1>8. QED
  BY <1>1, <1>2, <1>3, <1>4, <1>5, <1>6, <1>7

\* The thread comes up, and a session begins or fails to.
LEMMA SpawnSteps ==
  ASSUME IInv,
         \/ SignalLoopReady
         \/ \E u \in Uas : \/ \E overrides \in SoundConfigs : SpawnSession(u, overrides)
                           \/ SpawnFails(u)
  PROVE  IInv'
<1> USE DEF IInv, SessionTypes, LifeOfUa, LifeOfThread, EndOfSessions, registration, ending
<1>1. CASE SignalLoopReady
  BY <1>1 DEF SignalLoopReady
<1>2. ASSUME NEW u \in Uas, NEW overrides \in SoundConfigs, SpawnSession(u, overrides)
      PROVE  IInv'
  BY <1>2 DEF SpawnSession, NoSession, AppIdle
<1>3. ASSUME NEW u \in Uas, SpawnFails(u)  PROVE IInv'
  BY <1>3 DEF SpawnFails
<1>4. QED
  BY <1>1, <1>2, <1>3

LEMMA StopSteps ==
  ASSUME IInv, Shutdown \/ Stopping \/ ReMainReturns
  PROVE  IInv'
<1> USE DEF IInv, SessionTypes, LifeOfUa, LifeOfThread, EndOfSessions, registration, thread, Stops
<1>1. CASE Shutdown
  <2>1. stop = "idle" /\ \A u \in Uas : sess[u] \in {"new", "dropped"}
    BY <1>1 DEF Shutdown, NoSession, AppIdle
  <2>2. re # "running" => \A u \in Uas : reg[u] = "off"
    BY <2>1
  <2>3. QED
    BY <1>1, <2>1, <2>2 DEF Shutdown, OnReThread
<1>2. CASE Drained
  BY <1>2 DEF Drained, IsRegistered, UaIsRegistered
<1>3. CASE RunsOut
  BY <1>3 DEF RunsOut
<1>4. CASE UaStopAll
  BY <1>4 DEF UaStopAll
<1>5. CASE Cancel
  BY <1>5 DEF Cancel, ReCancel
<1>6. CASE Join
  BY <1>6 DEF Join
<1>7. CASE ReMainReturns
  BY <1>7 DEF ReMainReturns, ending
<1>8. QED
  BY <1>1, <1>2, <1>3, <1>4, <1>5, <1>6, <1>7 DEF Stopping

LEMMA Step == ASSUME IInv, [Next]_vars PROVE IInv'
BY CallsAreAside, AsideStep, UaSteps, SpawnSteps, StopSteps DEF Next

-----------------------------------------------------------------------------
\* A process that stopped before its wait ran out leaves no binding of a session
\* that was registered when it was dropped (stop_re_thread, ua_destroy).
THEOREM NoBindingLeft == Spec => []Deregistered
<1>1. IInv => Deregistered
  BY DEF IInv, SessionTypes, LifeOfUa, EndOfSessions, Deregistered
<1>2. QED
  BY InitIInv, Step, <1>1, PTL DEF Spec

\* What the actions do to a live session's last word.
LEMMA ToldStep ==
  ASSUME IInv, ToldIsTrue, NEW u \in Uas, NEW r \in Regs, NEW b \in BOOLEAN,
         reg' = [reg EXCEPT ![u] = r], sess' = sess, Told(u, b), b <=> r = "on"
  PROVE  ToldIsTrue'
<1>1. ASSUME NEW v \in Uas, sess'[v] = "live"  PROVE told'[v] <=> reg'[v] = "on"
  <2>1. CASE v = u
    <3>1. told' = [told EXCEPT ![u] = b] /\ told \in [Uas -> BOOLEAN] /\ reg \in [Uas -> Regs]
      BY <1>1, <2>1 DEF Told, IInv, SessionTypes
    <3>2. told'[v] = b /\ reg'[v] = r
      BY <3>1, <2>1
    <3>3. QED
      BY <3>2
  <2>2. CASE v # u
    <3>1. told'[v] = told[v]
      BY <2>2 DEF Told, IInv, SessionTypes
    <3>2. reg'[v] = reg[v]
      BY <2>2 DEF IInv, SessionTypes
    <3>3. QED
      BY <3>1, <3>2, <1>1 DEF ToldIsTrue
  <2>3. QED
    BY <2>1, <2>2
<1>2. QED
  BY <1>1 DEF ToldIsTrue

LEMMA ToldSteps == ASSUME IInv, ToldIsTrue, [Next]_vars PROVE ToldIsTrue'
<1> USE DEF IInv, SessionTypes
<1>1. CASE UNCHANGED registration
  BY <1>1 DEF ToldIsTrue, registration
<1>2. ASSUME NEW u \in Uas, Register(u)  PROVE ToldIsTrue'
  BY <1>2, ToldStep DEF Register, Regs
<1>3. ASSUME NEW u \in Uas, Unregister(u)  PROVE ToldIsTrue'
  <2> DEFINE r == Leave(reg[u])
  <2>1. r \in Regs /\ r # "on"
    BY DEF Leave, Regs
  <2>2. reg' = [reg EXCEPT ![u] = r] /\ sess' = sess /\ Told(u, FALSE)
    BY <1>3 DEF Unregister
  <2> HIDE DEF r
  <2>3. QED
    BY <2>1, <2>2, ToldStep
<1>4. ASSUME NEW u \in Uas, RegistrarTakes(u)  PROVE ToldIsTrue'
  BY <1>4 DEF RegistrarTakes, ToldIsTrue
<1>5. ASSUME NEW u \in Uas, RegisterOk(u)  PROVE ToldIsTrue'
  <2>1. CASE reg' = [reg EXCEPT ![u] = "on"]
    <3>1. OkTells(u) = TRUE
      BY <2>1 DEF OkTells
    <3>2. sess' = sess /\ Told(u, TRUE)
      BY <1>5, <3>1 DEF RegisterOk
    <3>3. QED
      BY <2>1, <3>2, ToldStep DEF Regs
  <2>2. CASE reg' = [reg EXCEPT ![u] = "off"]
    <3>1. OkTells(u) = FALSE
      BY <2>2 DEF OkTells
    <3>2. sess' = sess /\ Told(u, FALSE)
      BY <1>5, <3>1 DEF RegisterOk
    <3>3. QED
      BY <2>2, <3>2, ToldStep DEF Regs
  <2>3. QED
    BY <1>5, <2>1, <2>2 DEF RegisterOk
<1>6. ASSUME NEW u \in Uas, RegisterFail(u)  PROVE ToldIsTrue'
  <2> DEFINE r == IF reg[u] = "leaving" THEN "aborted" ELSE "failed"
  <2>1. r \in Regs /\ r # "on"
    BY DEF Regs
  <2>2. reg' = [reg EXCEPT ![u] = r] /\ sess' = sess /\ Told(u, FALSE)
    BY <1>6 DEF RegisterFail
  <2> HIDE DEF r
  <2>3. QED
    BY <2>1, <2>2, ToldStep
<1>7. ASSUME NEW u \in Uas, AllocUa(u) \/ DropSession(u)  PROVE ToldIsTrue'
  <2>1. ASSUME NEW v \in Uas, sess'[v] = "live"  PROVE told'[v] <=> reg'[v] = "on"
    <3>1. CASE v # u
      <4>1. told'[v] = told[v] /\ reg'[v] = reg[v] /\ sess[v] = "live"
        BY <1>7, <2>1, <3>1 DEF AllocUa, DropSession
      <4>2. QED
        BY <4>1 DEF ToldIsTrue
    <3>2. CASE v = u
      <4>1. told'[v] = FALSE /\ reg'[v] = "asking"
        BY <1>7, <2>1, <3>2 DEF AllocUa, DropSession
      <4>2. QED
        BY <4>1
    <3>3. QED
      BY <3>1, <3>2
  <2>2. QED
    BY <2>1 DEF ToldIsTrue
<1>8. ASSUME NEW u \in Uas, SpawnFails(u) \/ \E o \in SoundConfigs : SpawnSession(u, o)
      PROVE  ToldIsTrue'
  <2>1. /\ reg' = reg /\ told' = told
        /\ \A v \in Uas : sess'[v] = "live" => sess[v] = "live"
    BY <1>8 DEF SpawnFails, SpawnSession
  <2>2. QED
    BY <2>1 DEF ToldIsTrue
<1>9. SignalLoopReady \/ Shutdown \/ Stopping \/ ReMainReturns => UNCHANGED registration
  BY DEF SignalLoopReady, Shutdown, Stopping, Drained, RunsOut, UaStopAll, Cancel, Join,
    ReMainReturns
<1>10. Aside => UNCHANGED registration
  BY DEF Aside
<1>11. QED
  BY <1>1, <1>2, <1>3, <1>4, <1>5, <1>6, <1>7, <1>8, <1>9, <1>10, CallsAreAside DEF Next

\* What a live session was last told of its registration is what libre knows
\* (events.rs, REGISTER_OK).
THEOREM ToldTrue == Spec => []ToldIsTrue
<1>1. Init => ToldIsTrue
  BY DEF Init, ToldIsTrue
<1>2. QED
  BY InitIInv, Step, <1>1, ToldSteps, PTL DEF Spec

-----------------------------------------------------------------------------
(* A waiting call is heard.                                                *)

SoundTypes == sounds \in [Alerts -> Sources] /\ slot \in Alerts \cup {Off}
CallTypes ==
  /\ call \in [Calls -> Call] /\ next \in 1 .. MaxCalls + 1
  /\ \A c \in Calls : c >= next => call[c].st = "new"

\* Audible, call by call: a loop plays, or a call of the same user agent is up.
RingsOn ==
  \A c \in Calls :
    call[c].st = "incoming" /\ c \notin hushed =>
      \/ slot \in Loops
      \/ \E d \in Calls : call[d].ua = call[c].ua /\ call[d].st = "up"

HInv == SoundTypes /\ CallTypes /\ RingsOn

LEMMA LoopsAre == Loops = {"ring", "ringback"} /\ Loops \subseteq Alerts
BY DEF Loops, Repeat, Alerts

\* A loop that is not muted takes the slot; a one-shot leaves a loop in it.
LEMMA Plays ==
  ASSUME SoundTypes, NEW s \in Alerts \cup {Off}, NEW a \in Alerts
  PROVE  /\ PlayAlert(s, a) \subseteq Alerts \cup {Off}
         /\ a \in Loops /\ sounds[a] # "muted" => PlayAlert(s, a) \subseteq Loops
         /\ a \notin Loops /\ s \in Loops => PlayAlert(s, a) \subseteq Loops
<1>1. sounds[a] \in Sources
  BY DEF SoundTypes
<1>2. PlayFile(a) = {a} /\ PlayPcm(a) = {a}
  <2>1. \A x \in {a, Off} : (IF x = Off THEN PlayPcm(a) ELSE {x}) = {a}
    BY DEF PlayPcm, Off, Alerts
  <2>2. QED
    BY <2>1 DEF PlayFile, PlayPcm
<1>3. PlayAlert(s, a) \in {{s}, {Off}, {a}}
  BY <1>1, <1>2 DEF PlayAlert, StopAlert, Sources
<1>4. ASSUME a \in Loops, sounds[a] # "muted"  PROVE PlayAlert(s, a) = {a}
  BY <1>1, <1>2, <1>4, LoopsAre DEF PlayAlert, Sources, Repeat
<1>5. ASSUME a \notin Loops, s \in Loops  PROVE PlayAlert(s, a) = {s}
  BY <1>5, LoopsAre DEF PlayAlert, Repeat, Off
<1>6. QED
  BY <1>3, <1>4, <1>5

LEMMA Waiting ==
  ASSUME CallTypes
  PROVE  /\ AllIncoming = {c \in Calls : call[c].st = "incoming"}
         /\ \A u \in Uas :
              /\ Incoming(u) = {c \in Calls : call[c].ua = u /\ call[c].st = "incoming"}
              /\ Established(u) = {c \in Calls : call[c].ua = u /\ call[c].st = "up"}
              /\ OthersWaiting(u) = {c \in Calls : call[c].ua # u /\ call[c].st = "incoming"}
BY DEF CallTypes, Call, AllIncoming, Incoming, Established, OthersWaiting, CallsOf

LEMMA InitHInv == Init => HInv
BY CoreProcessAssumption DEF Init, HInv, SoundTypes, CallTypes, RingsOn, Sources, Call, Calls, Uas

\* The slot and the calls stay; a new session brings its sounds.
LEMMA SessionsPlayNothing ==
  ASSUME HInv, UNCHANGED <<slot, callvars>>,
         sounds' = sounds \/ \E o \in SoundConfigs : LoadSounds(o)
  PROVE  HInv'
BY CoreSoundsAssumption DEF HInv, SoundTypes, CallTypes, RingsOn, callvars, LoadSounds

\* No call begins to wait, and what waits is silenced, a loop plays, or the slot and
\* the calls that are up stay.
LEMMA PlaysOn ==
  ASSUME HInv, sounds' = sounds, slot' \in Alerts \cup {Off}, CallTypes',
         \A c \in Calls : call'[c].st = "incoming" =>
           call[c].st = "incoming" /\ call'[c].ua = call[c].ua,
         \/ slot' \in Loops
         \/ AllIncoming \subseteq hushed' \cup {c \in Calls : call'[c].st # "incoming"}
         \/ /\ slot' = slot
            /\ \A c \in hushed : c \in hushed' \/ call'[c].st # "incoming"
            /\ \A d \in Calls : call[d].st = "up" => call'[d] = call[d]
  PROVE  HInv'
<1>1. CASE slot' \in Loops
  BY <1>1 DEF HInv, SoundTypes, RingsOn
<1>2. CASE AllIncoming \subseteq hushed' \cup {c \in Calls : call'[c].st # "incoming"}
  BY <1>2, Waiting DEF HInv, SoundTypes, RingsOn
<1>3. CASE /\ slot' = slot
           /\ \A c \in hushed : c \in hushed' \/ call'[c].st # "incoming"
           /\ \A d \in Calls : call[d].st = "up" => call'[d] = call[d]
  <2>1. ASSUME NEW c \in Calls, call'[c].st = "incoming", c \notin hushed', slot' \notin Loops
        PROVE  \E d \in Calls : call'[d].ua = call'[c].ua /\ call'[d].st = "up"
    <3>1. PICK d \in Calls : call[d].ua = call[c].ua /\ call[d].st = "up"
      BY <1>3, <2>1 DEF HInv, RingsOn
    <3>2. call'[d] = call[d] /\ call'[c].ua = call[c].ua
      BY <1>3, <2>1, <3>1
    <3>3. QED
      BY <3>1, <3>2
  <2>2. QED
    BY <2>1 DEF HInv, SoundTypes, RingsOn
<1>4. QED
  BY <1>1, <1>2, <1>3

LEMMA IncomingStep == ASSUME HInv, NEW u \in Uas, CallIncoming(u) PROVE HInv'
<1>1. next \in Calls /\ sounds' = sounds /\ slot' \in PlayAlert(slot, "ring")
  BY CoreProcessAssumption DEF CallIncoming, Room, Others, HInv, CallTypes, Calls
<1>2. /\ call' = [call EXCEPT ![next] = [ua |-> u, dir |-> "in", st |-> "incoming"]]
      /\ next' = next + 1
  BY DEF CallIncoming, NewCall
<1>3. CallTypes'
  <2>1. [ua |-> u, dir |-> "in", st |-> "incoming"] \in Call
    BY DEF Call
  <2>2. next' \in 1 .. MaxCalls + 1
    BY <1>1, <1>2, CoreProcessAssumption DEF Calls
  <2>3. QED
    BY <1>1, <1>2, <2>1, <2>2 DEF HInv, CallTypes
<1>4. slot \in Alerts \cup {Off} /\ "ring" \in Alerts /\ "ring" \in Loops
  BY LoopsAre DEF HInv, SoundTypes, Alerts
<1>5. SoundTypes'
  BY <1>1, <1>4, Plays DEF HInv, SoundTypes
<1>6. CASE sounds["ring"] = "muted"
  <2>1. \A c \in Calls : call'[c].st = "incoming" => c = next \/ c \in AllIncoming
    BY <1>2, Waiting DEF HInv, CallTypes
  <2>2. hushed' = hushed \cup {next} \cup AllIncoming
    BY <1>6 DEF CallIncoming
  <2>3. QED
    BY <1>3, <1>5, <2>1, <2>2 DEF HInv, RingsOn
<1>7. CASE sounds["ring"] # "muted"
  <2>1. slot' \in Loops
    BY <1>1, <1>4, <1>7, Plays DEF HInv
  <2>2. QED
    BY <1>3, <1>5, <2>1 DEF HInv, RingsOn
<1>8. QED
  BY <1>6, <1>7

LEMMA CallSteps ==
  ASSUME HInv, NEW c \in Calls, CallRinging(c) \/ Accept(c) \/ CallEstablished(c)
  PROVE  HInv'
<1>0. slot \in Alerts \cup {Off}
  BY DEF HInv, SoundTypes
<1>n. call[c].st \notin {"new", "up"}
  BY DEF CallRinging, Accept, CallEstablished
<1>1. ASSUME NEW st \in {"ringing", "answered", "up"}, call' = [call EXCEPT ![c].st = st],
             next' = next
      PROVE  /\ CallTypes'
             /\ \A d \in Calls : d # c => call'[d] = call[d]
             /\ call'[c].st = st /\ call'[c].ua = call[c].ua
  <2>1. /\ [call[c] EXCEPT !.st = st] \in Call /\ [call[c] EXCEPT !.st = st].st = st
        /\ [call[c] EXCEPT !.st = st].ua = call[c].ua
    BY DEF HInv, CallTypes, Call
  <2>2. call' = [call EXCEPT ![c] = [call[c] EXCEPT !.st = st]]
    BY <1>1
  <2>3. /\ call' \in [Calls -> Call] /\ call'[c] = [call[c] EXCEPT !.st = st]
        /\ \A d \in Calls : d # c => call'[d] = call[d]
    BY <2>1, <2>2 DEF HInv, CallTypes
  <2>4. \A d \in Calls : d >= next' => call'[d].st = "new"
    BY <1>1, <1>n, <2>3 DEF HInv, CallTypes
  <2>5. QED
    BY <1>1, <2>1, <2>3, <2>4 DEF HInv, CallTypes
<1>2. CASE CallRinging(c)
  <2>1. /\ call' = [call EXCEPT ![c].st = "ringing"] /\ next' = next /\ sounds' = sounds
        /\ slot' \in PlayAlert(slot, "ringback")
    BY <1>2 DEF CallRinging, Others
  <2>2. "ringback" \in Alerts /\ "ringback" \in Loops
    BY LoopsAre DEF Alerts
  <2>3. CASE sounds["ringback"] = "muted"
    <3>1. AllIncoming \subseteq hushed'
      BY <1>2, <2>3 DEF CallRinging
    <3>2. QED
      BY <1>0, <1>1, <2>1, <2>2, <3>1, Plays, PlaysOn DEF HInv
  <2>4. CASE sounds["ringback"] # "muted"
    <3>1. slot' \in Loops
      BY <1>0, <2>1, <2>2, <2>4, Plays DEF HInv
    <3>2. QED
      BY <1>1, <2>1, <3>1, LoopsAre, PlaysOn
  <2>5. QED
    BY <2>3, <2>4
<1>3. CASE Accept(c)
  <2>1. /\ call' = [call EXCEPT ![c].st = "answered"] /\ UNCHANGED <<next, slot, sounds>>
        /\ hushed' = hushed \ {c}
    BY <1>3 DEF Accept, Others
  <2>2. call'[c].st # "incoming"
    BY <1>1, <2>1
  <2>3. /\ CallTypes' /\ \A d \in Calls : call[d].st = "up" => call'[d] = call[d]
        /\ \A d \in Calls : call'[d].st = "incoming" => call'[d] = call[d]
    BY <1>1, <1>n, <2>1, <2>2
  <2>4. \A d \in hushed : d \in hushed' \/ call'[d].st # "incoming"
    BY <2>1, <2>2
  <2>5. QED
    BY <1>0, <2>1, <2>3, <2>4, PlaysOn
<1>4. CASE CallEstablished(c)
  <2>1. /\ call' = [call EXCEPT ![c].st = "up"] /\ UNCHANGED <<next, sounds>>
        /\ slot' = Off /\ hushed' = hushed \cup OthersWaiting(call[c].ua)
    BY <1>4 DEF CallEstablished, OnEstablished, StopAlert, Others
  <2>2. /\ CallTypes' /\ call'[c].st = "up" /\ call'[c].ua = call[c].ua
        /\ \A d \in Calls : d # c => call'[d] = call[d]
    BY <1>1, <2>1
  <2>3. call[c].ua \in Uas /\ CallTypes
    BY DEF HInv, CallTypes, Call
  <2>4. ASSUME NEW d \in Calls, call'[d].st = "incoming", d \notin hushed'
        PROVE  call'[c].ua = call'[d].ua
    BY <2>1, <2>2, <2>3, <2>4, Waiting
  <2>5. QED
    BY <2>1, <2>2, <2>4 DEF HInv, SoundTypes, RingsOn
<1>5. QED
  BY <1>2, <1>3, <1>4

\* A closed call: others of its user agent ring on, or what waits is silenced.
LEMMA ClosedStep ==
  ASSUME HInv, NEW c \in Calls, NEW scode, CallClosed(c, scode)
  PROVE  HInv'
<1> DEFINE u == call[c].ua
           mine == Incoming(u) \ {c}
           alone == Established(u) \ {c} = {}
<1>0. u \in Uas /\ CallTypes
  BY DEF HInv, CallTypes, Call
<1>1. /\ call' = [call EXCEPT ![c] = GoneCall] /\ next' = next /\ sounds' = sounds
      /\ hushed' = OthersWaiting(u) \cup (IF sounds["ring"] = "muted" THEN mine ELSE {})
  BY DEF CallClosed, HushedAfter, Others
<1>2. /\ CallTypes'
      /\ \A d \in Calls : call'[d].st \in {"incoming", "up"} => call'[d] = call[d] /\ d # c
      /\ \A d \in Calls : d # c => call'[d] = call[d]
  <2>1. GoneCall \in Call /\ GoneCall.st = "gone"
    BY CoreProcessAssumption DEF GoneCall, NoCall, Call, Uas
  <2>2. call[c].st # "new"
    BY DEF CallClosed
  <2>3. QED
    BY <1>1, <2>1, <2>2 DEF HInv, CallTypes
<1>3. PICK s \in EndAlertFor(slot, u, c) :
        slot' \in IF call[c].dir = "out" THEN PlayClosedTone(s, scode) ELSE {s}
  BY DEF CallClosed
<1>4. slot \in Alerts \cup {Off} /\ Off \in Alerts \cup {Off}
      /\ {"ring", "busy", "error"} \subseteq Alerts /\ "ring" \in Loops
      /\ "busy" \notin Loops /\ "error" \notin Loops
  BY LoopsAre DEF HInv, SoundTypes, Alerts
<1>5. EndAlertFor(slot, u, c) =
        IF mine # {} /\ alone THEN PlayAlert(Off, "ring") ELSE {Off}
  BY DEF EndAlertFor, StopAlert
<1>6. s \in Alerts \cup {Off}
  BY <1>3, <1>4, <1>5, Plays DEF HInv
<1>7. /\ slot' \in Alerts \cup {Off}
      /\ s \in Loops => slot' \in Loops
  BY <1>3, <1>4, <1>6, Plays DEF HInv, PlayClosedTone
<1>8. CASE alone /\ sounds["ring"] # "muted" /\ mine # {}
  <2>1. s \in Loops
    BY <1>3, <1>4, <1>5, <1>8, Plays DEF HInv
  <2>2. QED
    BY <1>1, <1>2, <1>7, <2>1, PlaysOn
<1>9. CASE ~ alone
  <2>1. PICK e \in Calls : e # c /\ call[e].ua = u /\ call[e].st = "up"
    BY <1>0, <1>9, Waiting
  <2>2. ASSUME NEW d \in Calls, call'[d].st = "incoming", d \notin hushed'
        PROVE  call'[d].ua = call'[e].ua /\ call'[e].st = "up"
    BY <1>0, <1>1, <1>2, <2>1, <2>2, Waiting
  <2>3. QED
    BY <1>1, <1>2, <1>7, <2>2 DEF HInv, SoundTypes, RingsOn
<1>10. CASE sounds["ring"] = "muted" \/ mine = {}
  <2>1. ASSUME NEW d \in AllIncoming  PROVE d \in hushed' \/ d = c
    BY <1>0, <1>1, <1>10, <2>1, Waiting
  <2>2. \A d \in AllIncoming : d \in Calls /\ (d \in hushed' \/ call'[d].st # "incoming")
    BY <1>0, <1>2, <2>1, Waiting
  <2>3. QED
    BY <1>1, <1>2, <1>7, <2>2, PlaysOn
<1>11. QED
  BY <1>8, <1>9, <1>10

LEMMA OtherSteps ==
  ASSUME HInv,
         \/ SilenceAlert
         \/ \E u \in Uas : CallOutgoing(u) \/ \E m \in Mwis : VoicemailStatus(u, m)
         \/ OneShotEnds /\ UNCHANGED <<thread, registration, mwi, callvars, ending>>
         \/ UaStopAll
  PROVE  HInv'
<1>0. slot \in Alerts \cup {Off} /\ CallTypes
  BY DEF HInv, SoundTypes
<1>1. CASE SilenceAlert
  <2>1. slot' = Off /\ AllIncoming \subseteq hushed' /\ UNCHANGED <<sounds, call, next>>
    BY <1>1 DEF SilenceAlert, StopAlert
  <2>2. QED
    BY <1>0, <2>1, PlaysOn DEF CallTypes
<1>2. ASSUME NEW u \in Uas, CallOutgoing(u)  PROVE HInv'
  <2>1. /\ next \in Calls /\ next' = next + 1 /\ UNCHANGED <<slot, hushed, sounds>>
        /\ call' = [call EXCEPT ![next] = [ua |-> u, dir |-> "out", st |-> "outgoing"]]
    BY <1>0, <1>2, CoreProcessAssumption DEF CallOutgoing, NewCall, Room, Others, CallTypes, Calls
  <2>2. [ua |-> u, dir |-> "out", st |-> "outgoing"] \in Call
    BY DEF Call
  <2>3. next' \in 1 .. MaxCalls + 1
    BY <2>1, CoreProcessAssumption DEF Calls
  <2>4. /\ CallTypes'
        /\ \A c \in Calls : call'[c].st = "incoming" => call'[c] = call[c]
    BY <1>0, <2>1, <2>2, <2>3 DEF CallTypes
  <2>5. \A c \in Calls : call[c].st \in {"incoming", "up"} => call'[c] = call[c]
    BY <1>0, <2>1, CoreProcessAssumption DEF CallTypes, Calls
  <2>6. QED
    BY <1>0, <2>1, <2>4, <2>5, PlaysOn
<1>3. ASSUME NEW u \in Uas, NEW m \in Mwis, VoicemailStatus(u, m)  PROVE HInv'
  <2>1. /\ slot' \in PlayAlert(slot, "message") \/ slot' = slot
        /\ UNCHANGED <<sounds, call, next, hushed>>
    BY <1>3 DEF VoicemailStatus, callvars
  <2>2. "message" \in Alerts /\ "message" \notin Loops
    BY LoopsAre DEF Alerts
  <2>3. slot' \in Alerts \cup {Off} /\ (slot \in Loops => slot' \in Loops)
    BY <1>0, <2>1, <2>2, Plays DEF HInv
  <2>4. QED
    BY <2>1, <2>3 DEF HInv, SoundTypes, CallTypes, RingsOn
<1>4. CASE OneShotEnds /\ UNCHANGED <<thread, registration, mwi, callvars, ending>>
  <2>1. slot \notin Loops /\ slot' = Off /\ UNCHANGED <<sounds, call, next, hushed>>
    BY <1>4 DEF OneShotEnds, callvars
  <2>2. QED
    BY <2>1 DEF HInv, SoundTypes, CallTypes, RingsOn
<1>5. CASE UaStopAll
  <2>1. /\ call' = [c \in Calls |-> IF call[c].st = "new" THEN call[c] ELSE GoneCall]
        /\ slot' \in {Off, slot} /\ UNCHANGED <<next, sounds>>
    BY <1>5 DEF UaStopAll
  <2>2. GoneCall \in Call /\ GoneCall.st = "gone"
    BY CoreProcessAssumption DEF GoneCall, NoCall, Call, Uas
  <2>3. CallTypes' /\ \A c \in Calls : call'[c].st # "incoming"
    BY <1>0, <2>1, <2>2 DEF CallTypes
  <2>4. QED
    BY <1>0, <2>1, <2>3 DEF HInv, SoundTypes, RingsOn
<1>6. QED
  BY <1>1, <1>2, <1>3, <1>4, <1>5

LEMMA HeardStep == ASSUME HInv, [Next]_vars PROVE HInv'
<1>1. ASSUME NEW u \in Uas,
             \/ Register(u) \/ Unregister(u) \/ RegistrarTakes(u) \/ RegisterOk(u)
             \/ RegisterFail(u) \/ SpawnFails(u) \/ AllocUa(u) \/ DropSession(u)
             \/ \E o \in SoundConfigs : SpawnSession(u, o)
      PROVE  HInv'
  <2>1. /\ UNCHANGED <<slot, callvars>>
        /\ sounds' = sounds \/ \E o \in SoundConfigs : LoadSounds(o)
    BY <1>1 DEF Register, Unregister, RegistrarTakes, RegisterOk, RegisterFail, SpawnFails,
      AllocUa, DropSession, SpawnSession, sound
  <2>2. QED
    BY <2>1, SessionsPlayNothing
<1>2. CASE \/ SignalLoopReady \/ Shutdown \/ Drained \/ RunsOut \/ Cancel \/ Join
           \/ ReMainReturns \/ UNCHANGED vars
  <2>1. UNCHANGED <<slot, sounds, callvars>>
    BY <1>2 DEF SignalLoopReady, Shutdown, Drained, RunsOut, Cancel, Join, ReMainReturns, vars,
      sound
  <2>2. QED
    BY <2>1, SessionsPlayNothing
<1>3. ASSUME NEW c \in Calls, RemoteCloses(c) \/ LocalCloses(c)  PROVE HInv'
  BY <1>3, ClosedStep DEF RemoteCloses, LocalCloses
<1>4. QED
  BY <1>1, <1>2, <1>3, IncomingStep, CallSteps, OtherSteps DEF Next, Stopping

\* A call that waits is heard while no call of its user agent is up, whatever calls of
\* its user agent begin and end, whatever voicemail comes and whatever the files of the
\* sounds are -- unless the user silenced it, a tone it depends on is configured off, or
\* a call of another user agent was answered or ended (play_alert, end_alert_for).
THEOREM Heard == Spec => []Audible
<1>1. HInv => Audible
  BY Waiting DEF HInv, RingsOn, Audible
<1>2. QED
  BY InitHInv, HeardStep, <1>1, PTL DEF Spec

-----------------------------------------------------------------------------
(* Capture.                                                                *)

\* The arm, or stop, under way has dealt with the buffer.
Passed(b) == arm = "idle" \/ (arm = "rx" /\ b = "tx")

\* A buffer without an entry is empty, and nothing captures into it.
Entries ==
  \A b \in Buffers :
    /\ rate[b] = 0 => samples[b] = <<>> /\ got[b] = 0 /\ ~frozen[b]
    /\ \A s \in Streams : s[1] = b /\ stream[s] \in {"on", "capture"} => rate[b] # 0

Command == arm # "idle" => full_capture = arm_on

Current ==
  \A b \in Buffers : full_capture /\ Passed(b) =>
    \A k \in 1 .. Len(samples[b]) : samples[b][k] = gen

\* An allocation that saw no recording was overtaken by the one that runs.
Overtaken ==
  \A s \in Streams : stream[s] = "alloc" /\ ~seen[s] /\ full_capture => s \in crossed

CaptureInv == TypeOK /\ Entries /\ Command /\ Current /\ Overtaken

\* How much of a recording is left at least, by what it met.
Least(b) == IF "stop" \in met[b] THEN VerifyRetain ELSE FullRetain

\* Nothing was taken from the buffer but what it met explains.
Whole(b) ==
  met[b] \cap {"rate", "command"} = {} =>
    Len(samples[b]) >= got[b] \/ Len(samples[b]) >= Least(b)

\* Which buffers are whole: those of a recording that runs, those that are frozen,
\* and those that a stop is about to freeze.
Kept ==
  \A b \in Buffers :
    \/ frozen[b]
    \/ full_capture /\ Passed(b)
    \/ arm # "idle" /\ ~arm_on /\ was_full /\ ~Passed(b)
    => Whole(b)

-----------------------------------------------------------------------------
\* The newest elements of a sequence are as many as there are room for, and its own.
LEMMA NewestIs ==
  ASSUME NEW q \in Seq(Nat), NEW n \in Nat \ {0}
  PROVE  /\ Newest(q, n) \in Seq(Nat)
         /\ Len(Newest(q, n)) = IF Len(q) > n THEN n ELSE Len(q)
         /\ \A k \in 1 .. Len(Newest(q, n)) : \E j \in 1 .. Len(q) : Newest(q, n)[k] = q[j]
<1> DEFINE m == IF Len(q) > n THEN Len(q) - n + 1 ELSE 1
<1>1. m \in 1 .. Len(q) + 1 /\ Len(q) \in Nat
  OBVIOUS
<1>2. /\ SubSeq(q, m, Len(q)) \in Seq(Nat)
      /\ Len(SubSeq(q, m, Len(q))) = Len(q) - m + 1
      /\ \A k \in 1 .. Len(q) - m + 1 : SubSeq(q, m, Len(q))[k] = q[m + k - 1]
  <2> HIDE DEF m
  <2>1. QED
    BY <1>1, SubSeqProperties
<1>3. \A k \in 1 .. Len(q) - m + 1 : m + k - 1 \in 1 .. Len(q)
  BY <1>1
<1>4. Newest(q, n) = SubSeq(q, m, Len(q))
  BY DEF Newest
<1>5. Len(q) - m + 1 = IF Len(q) > n THEN n ELSE Len(q)
  BY <1>1
<1> HIDE DEF m
<1>6. QED
  BY <1>2, <1>3, <1>4, <1>5

\* The capture of a frame appends the present recording's.
LEMMA Captured ==
  ASSUME TypeOK, NEW b \in Buffers, NEW n \in Nat \ {0}, n <= FullRetain
  PROVE  LET q == Newest(Append(samples[b], gen), n) IN
         /\ q \in Seq(Nat)
         /\ Len(q) = IF Len(samples[b]) + 1 > n THEN n ELSE Len(samples[b]) + 1
         /\ (\A k \in 1 .. Len(samples[b]) : samples[b][k] = gen) =>
               \A k \in 1 .. Len(q) : q[k] = gen
<1> DEFINE a == Append(samples[b], gen)
<1>1. samples[b] \in Seq(Nat) /\ gen \in Nat
  BY DEF TypeOK
<1>2. /\ a \in Seq(Nat) /\ Len(a) = Len(samples[b]) + 1
      /\ \A k \in 1 .. Len(a) : a[k] = IF k <= Len(samples[b]) THEN samples[b][k] ELSE gen
  BY <1>1, AppendProperties
<1> HIDE DEF a
<1>3. /\ Newest(a, n) \in Seq(Nat)
      /\ Len(Newest(a, n)) = IF Len(a) > n THEN n ELSE Len(a)
      /\ \A k \in 1 .. Len(Newest(a, n)) : \E j \in 1 .. Len(a) : Newest(a, n)[k] = a[j]
  BY <1>2, NewestIs
<1>4. ASSUME \A k \in 1 .. Len(samples[b]) : samples[b][k] = gen
      PROVE  \A k \in 1 .. Len(Newest(a, n)) : Newest(a, n)[k] = gen
  <2>1. \A j \in 1 .. Len(a) : a[j] = gen
    <3> SUFFICES ASSUME NEW j \in 1 .. Len(a) PROVE a[j] = gen
      OBVIOUS
    <3>1. j <= Len(samples[b]) => j \in 1 .. Len(samples[b])
      BY <1>1
    <3>2. a[j] = IF j <= Len(samples[b]) THEN samples[b][j] ELSE gen
      BY <1>2
    <3>3. QED
      BY <1>4, <3>1, <3>2
  <2>2. QED
    BY <1>3, <2>1
<1>5. QED
  BY <1>2, <1>3, <1>4 DEF a

-----------------------------------------------------------------------------
LEMMA InitCaptureInv == CaptureInit => CaptureInv
<1> SUFFICES ASSUME CaptureInit PROVE CaptureInv
  OBVIOUS
<1>1. \A b \in Buffers : samples[b] = <<>> /\ Len(samples[b]) = 0
  BY DEF CaptureInit
<1>2. TypeOK
  <2>1. samples \in [Buffers -> Seq(Nat)] /\ \A b \in Buffers : Len(samples[b]) <= FullRetain
    BY <1>1, CoreCaptureAssumption DEF CaptureInit
  <2>2. /\ rate \in [Buffers -> Rates \cup {0}] /\ got \in [Buffers -> Nat] /\ gen \in Nat
        /\ met \in [Buffers -> SUBSET {"stop", "rate", "command"}] /\ crossed \subseteq Streams
    BY DEF CaptureInit
  <2>3. /\ full_capture \in BOOLEAN /\ arm_on \in BOOLEAN /\ was_full \in BOOLEAN
        /\ frozen \in [Buffers -> BOOLEAN] /\ seen \in [Streams -> BOOLEAN]
        /\ stream \in [Streams -> {"off", "alloc", "on", "capture"}]
        /\ arm \in Buffers \cup {"idle"}
    BY DEF CaptureInit
  <2>4. QED
    BY <2>1, <2>2, <2>3 DEF TypeOK
<1>3. Entries
  <2>1. \A s \in Streams : stream[s] = "off"
    BY DEF CaptureInit
  <2>2. QED
    BY <1>1, <2>1 DEF CaptureInit, Entries, Streams
<1>4. Command /\ Current /\ Overtaken
  BY <1>1 DEF CaptureInit, Command, Current, Overtaken
<1>5. QED
  BY <1>2, <1>3, <1>4 DEF CaptureInv

LEMMA InitKept == CaptureInit => Kept
<1>1. CaptureInit => \A b \in Buffers : Len(samples[b]) = 0 /\ got[b] = 0
  BY DEF CaptureInit
<1>2. QED
  BY <1>1 DEF Kept, Whole

\* What is written in its buffers does not change: the facts about them stay.
LEMMA Untouched ==
  ASSUME CaptureInv, UNCHANGED <<full_capture, buffers, command, history>>
  PROVE  /\ Command' /\ Current'
         /\ Kept => Kept'
BY DEF CaptureInv, Command, Current, Kept, Whole, Least, Passed, buffers, command, history

\* A stream starts to allocate, looks at the flag, or ends.
LEMMA StreamSteps ==
  ASSUME CaptureInv, NEW s \in Streams, AllocRead(s) \/ StreamEnd(s) \/ RenderRead(s)
  PROVE  CaptureInv' /\ (Kept => Kept')
<1>1. UNCHANGED <<full_capture, buffers, command, history>>
  BY DEF AllocRead, StreamEnd, RenderRead
<1>2. stream' \in [Streams -> {"off", "alloc", "on", "capture"}] /\ seen' \in [Streams -> BOOLEAN]
  BY DEF AllocRead, StreamEnd, RenderRead, CaptureInv, TypeOK
<1>3. TypeOK'
  BY <1>1, <1>2 DEF CaptureInv, TypeOK, buffers, command, history
<1>4. ASSUME NEW t \in Streams, stream'[t] \in {"on", "capture"}
      PROVE  stream[t] \in {"on", "capture"}
  BY <1>4 DEF AllocRead, StreamEnd, RenderRead, CaptureInv, TypeOK
<1>5. Entries'
  BY <1>1, <1>4 DEF CaptureInv, Entries, buffers, history
<1>6. Overtaken'
  <2> SUFFICES ASSUME NEW t \in Streams, stream'[t] = "alloc", ~seen'[t], full_capture
               PROVE  t \in crossed
    BY <1>1 DEF Overtaken, history
  <2>1. stream[t] = "alloc" /\ ~seen[t]
    BY DEF AllocRead, StreamEnd, RenderRead, CaptureInv, TypeOK
  <2>2. QED
    BY <2>1 DEF CaptureInv, Overtaken
<1>7. QED
  BY <1>1, <1>3, <1>5, <1>6, Untouched DEF CaptureInv

\* A buffer is emptied and given a rate.
LEMMA Emptied ==
  ASSUME CaptureInv, NEW b \in Buffers, NEW r \in Rates, Fresh(b, r)
  PROVE  /\ rate' \in [Buffers -> Rates \cup {0}] /\ samples' \in [Buffers -> Seq(Nat)]
         /\ frozen' \in [Buffers -> BOOLEAN]
         /\ rate'[b] = r /\ r # 0 /\ Len(samples'[b]) = 0 /\ ~frozen'[b]
         /\ \A d \in Buffers : Len(samples'[d]) <= FullRetain
         /\ \A d \in Buffers \ {b} :
              rate'[d] = rate[d] /\ samples'[d] = samples[d] /\ frozen'[d] = frozen[d]
<1>1. samples' \in [Buffers -> Seq(Nat)] /\ samples'[b] = <<>> /\ Len(samples'[b]) = 0
  BY DEF Fresh, CaptureInv, TypeOK
<1>2. /\ rate' \in [Buffers -> Rates \cup {0}] /\ frozen' \in [Buffers -> BOOLEAN]
      /\ rate'[b] = r /\ r # 0 /\ ~frozen'[b]
  BY CoreCaptureAssumption DEF Fresh, CaptureInv, TypeOK
<1>3. ASSUME NEW d \in Buffers, d # b
      PROVE  rate'[d] = rate[d] /\ samples'[d] = samples[d] /\ frozen'[d] = frozen[d]
  BY <1>3 DEF Fresh, CaptureInv, TypeOK
<1>4. ASSUME NEW d \in Buffers  PROVE Len(samples'[d]) <= FullRetain
  <2>1. CASE d = b
    BY <1>1, <2>1, CoreCaptureAssumption
  <2>2. CASE d # b
    BY <1>3, <2>2 DEF CaptureInv, TypeOK
  <2>3. QED
    BY <2>1, <2>2
<1>5. QED
  BY <1>1, <1>2, <1>3, <1>4

\* What an allocation does to the history: either the recording of its buffer was over, or
\* it is told what it met; other buffers' histories stay.
LEMMA Met ==
  ASSUME CaptureInv, NEW s \in Streams, NEW r \in Rates, s[1] \in Buffers, Meets(s, r)
  PROVE  LET b == s[1] IN
         /\ got' \in [Buffers -> Nat] /\ met' \in [Buffers -> SUBSET {"stop", "rate", "command"}]
         /\ crossed' = crossed \ {s}
         /\ \A d \in Buffers \ {b} : got'[d] = got[d] /\ met'[d] = met[d]
         /\ \/ ~full_capture /\ arm = "idle" /\ got'[b] = 0
            \/ /\ got'[b] = got[b]
               /\ \/ met'[b] \cap {"rate", "command"} # {}
                  \/ /\ met'[b] = met[b] /\ rate[b] \in {0, r}
                     /\ s \notin crossed /\ arm = "idle" /\ full_capture
<1> DEFINE b == s[1]
<1>1. /\ got \in [Buffers -> Nat] /\ met \in [Buffers -> SUBSET {"stop", "rate", "command"}]
      /\ b \in Buffers
  BY DEF CaptureInv, TypeOK
<1>2. crossed' = crossed \ {s}
  BY DEF Meets
<1>3. CASE full_capture \/ arm # "idle"
  <2> DEFINE new == (IF rate[b] \notin {0, r} THEN {"rate"} ELSE {})
                      \cup (IF s \in crossed \/ arm # "idle" THEN {"command"} ELSE {})
  <2>1. met' = [met EXCEPT ![b] = @ \cup new] /\ got' = got
    BY <1>3 DEF Meets
  <2>2. /\ new \in SUBSET {"rate", "command"}
        /\ new = {} => rate[b] \in {0, r} /\ s \notin crossed /\ arm = "idle"
    OBVIOUS
  <2> HIDE DEF new, b
  <2>3. met'[b] = met[b] \cup new /\ met' \in [Buffers -> SUBSET {"stop", "rate", "command"}]
    BY <1>1, <2>1, <2>2
  <2>4. \A d \in Buffers \ {b} : got'[d] = got[d] /\ met'[d] = met[d]
    BY <1>1, <2>1
  <2>5. \/ met'[b] \cap {"rate", "command"} # {}
        \/ new = {} /\ met'[b] = met[b]
    BY <2>2, <2>3
  <2>6. QED
    BY <1>1, <1>2, <1>3, <2>1, <2>2, <2>3, <2>4, <2>5 DEF b
<1>4. CASE ~full_capture /\ arm = "idle"
  <2>1. met' = [met EXCEPT ![b] = {}] /\ got' = [got EXCEPT ![b] = 0]
    BY <1>4 DEF Meets
  <2> HIDE DEF b
  <2>2. QED
    BY <1>1, <1>2, <1>4, <2>1 DEF b
<1>5. QED
  BY <1>3, <1>4

LEMMA AllocStep ==
  ASSUME CaptureInv, NEW s \in Streams, NEW r \in Rates, Alloc(s, r)
  PROVE  CaptureInv' /\ (Kept => Kept')
<1> DEFINE b == s[1]
<1>0. b \in Buffers
  BY DEF Streams, Buffers
<1>1. /\ stream[s] = "alloc" /\ UNCHANGED <<full_capture, command>>
      /\ stream' \in [Streams -> {"off", "alloc", "on", "capture"}] /\ seen' \in [Streams -> BOOLEAN]
      /\ stream'[s] = "on"
      /\ \A t \in Streams \ {s} : stream'[t] = stream[t] /\ seen'[t] = seen[t]
  BY DEF Alloc, CaptureInv, TypeOK
<1>2. \/ seen[s] /\ rate[b] = r /\ UNCHANGED buffers
      \/ ~(seen[s] /\ rate[b] = r) /\ Fresh(b, r)
  BY DEF Alloc
<1>3. /\ got' \in [Buffers -> Nat] /\ met' \in [Buffers -> SUBSET {"stop", "rate", "command"}]
      /\ crossed' = crossed \ {s}
      /\ \A d \in Buffers \ {b} : got'[d] = got[d] /\ met'[d] = met[d]
      /\ \/ ~full_capture /\ arm = "idle" /\ got'[b] = 0
         \/ /\ got'[b] = got[b]
            /\ \/ met'[b] \cap {"rate", "command"} # {}
               \/ /\ met'[b] = met[b] /\ rate[b] \in {0, r}
                  /\ s \notin crossed /\ arm = "idle" /\ full_capture
  BY <1>0, Met DEF Alloc
<1>4. Overtaken' /\ Command'
  BY <1>1, <1>3 DEF CaptureInv, Overtaken, Command, command
<1> HIDE DEF b
<1>5. /\ rate' \in [Buffers -> Rates \cup {0}] /\ samples' \in [Buffers -> Seq(Nat)]
      /\ frozen' \in [Buffers -> BOOLEAN] /\ rate'[b] # 0
      /\ \A d \in Buffers : Len(samples'[d]) <= FullRetain
      /\ \A d \in Buffers \ {b} :
           rate'[d] = rate[d] /\ samples'[d] = samples[d] /\ frozen'[d] = frozen[d]
      /\ samples'[b] = samples[b] \/ Len(samples'[b]) = 0
  <2>1. CASE UNCHANGED buffers /\ rate[b] = r
    BY <1>0, <2>1, CoreCaptureAssumption DEF CaptureInv, TypeOK, buffers
  <2>2. CASE Fresh(b, r)
    BY <1>0, <2>2, Emptied
  <2>3. QED
    BY <1>2, <2>1, <2>2
<1>6. TypeOK'
  BY <1>1, <1>3, <1>5 DEF CaptureInv, TypeOK, command
<1>7. Entries'
  <2>1. ASSUME NEW d \in Buffers, rate'[d] = 0
        PROVE  samples'[d] = <<>> /\ got'[d] = 0 /\ ~frozen'[d]
    BY <1>3, <1>5, <2>1 DEF CaptureInv, Entries
  <2>2. ASSUME NEW t \in Streams, stream'[t] \in {"on", "capture"}
        PROVE  rate'[t[1]] # 0
    <3>1. CASE t[1] = b
      BY <1>5, <3>1
    <3>2. CASE t[1] # b
      <4>1. t # s /\ t[1] \in Buffers
        BY <3>2 DEF b, Streams, Buffers
      <4>2. QED
        BY <1>1, <1>5, <2>2, <3>2, <4>1 DEF CaptureInv, Entries
    <3>3. QED
      BY <3>1, <3>2
  <2>3. QED
    BY <2>1, <2>2 DEF Entries
<1>8. \A d \in Buffers : Passed(d)' <=> Passed(d)
  BY <1>1 DEF Passed, command
<1>9. Current'
  <2> SUFFICES ASSUME NEW d \in Buffers, full_capture, Passed(d)
               PROVE  \A k \in 1 .. Len(samples'[d]) : samples'[d][k] = gen
    BY <1>1, <1>8 DEF Current, command
  <2>1. \A k \in 1 .. Len(samples[d]) : samples[d][k] = gen
    BY DEF CaptureInv, Current
  <2>2. samples'[d] = samples[d] \/ Len(samples'[d]) = 0
    BY <1>5
  <2>3. QED
    BY <2>1, <2>2
<1>10. ASSUME Kept  PROVE Kept'
  <2> SUFFICES ASSUME NEW d \in Buffers,
                      \/ frozen'[d]
                      \/ full_capture /\ Passed(d)
                      \/ arm # "idle" /\ ~arm_on /\ was_full /\ ~Passed(d)
               PROVE  Whole(d)'
    BY <1>1, <1>8 DEF Kept, command
  <2>1. CASE d # b
    <3>1. frozen'[d] = frozen[d]
      BY <1>5, <2>1
    <3>2. Whole(d)
      BY <1>10, <3>1 DEF Kept
    <3>3. got'[d] = got[d] /\ met'[d] = met[d] /\ samples'[d] = samples[d]
      BY <1>3, <1>5, <2>1
    <3>4. QED
      BY <3>2, <3>3 DEF Whole, Least
  <2>2. CASE d = b
    <3>1. CASE got'[b] = 0
      <4>1. Len(samples'[b]) \in Nat
        BY <1>0, <1>5
      <4>2. QED
        BY <2>2, <3>1, <4>1 DEF Whole
    <3>2. CASE met'[b] \cap {"rate", "command"} # {}
      BY <2>2, <3>2 DEF Whole
    <3>3. CASE /\ got'[b] = got[b] /\ met'[b] = met[b] /\ rate[b] \in {0, r}
               /\ s \notin crossed /\ arm = "idle" /\ full_capture
      <4>1. seen[s]
        BY <1>1, <3>3 DEF CaptureInv, Overtaken
      <4>2. CASE rate[b] = r
        <5>1. samples' = samples
          BY <1>2, <4>1, <4>2 DEF buffers
        <5>2. Whole(b)
          BY <1>0, <1>10, <3>3 DEF Kept, Passed
        <5>3. QED
          BY <2>2, <3>3, <5>1, <5>2 DEF Whole, Least
      <4>3. CASE rate[b] = 0
        <5>1. got'[b] = 0
          BY <1>0, <3>3, <4>3 DEF CaptureInv, Entries
        <5>2. QED
          BY <3>1, <5>1
      <4>4. QED
        BY <3>3, <4>2, <4>3
    <3>4. QED
      BY <1>3, <3>1, <3>2, <3>3
  <2>3. QED
    BY <2>1, <2>2
<1>11. QED
  BY <1>4, <1>6, <1>7, <1>9, <1>10 DEF CaptureInv

\* A frame of the running recording, of one that a stop is about to freeze, or of the
\* verification window.
LEMMA CaptureStep ==
  ASSUME CaptureInv, NEW s \in Streams, Capture(s)
  PROVE  CaptureInv' /\ (Kept => Kept')
<1> DEFINE b == s[1]
<1>0. b \in Buffers
  BY DEF Streams, Buffers
<1>1. /\ UNCHANGED <<full_capture, rate, frozen, seen, command, crossed>>
      /\ stream[s] \in {"on", "capture"} /\ stream' = [stream EXCEPT ![s] = "on"]
  BY DEF Capture
<1>2. /\ stream' \in [Streams -> {"off", "alloc", "on", "capture"}]
      /\ \A t \in Streams : stream'[t] \in {"on", "capture"} => stream[t] \in {"on", "capture"}
      /\ \A t \in Streams : stream'[t] = "alloc" => stream[t] = "alloc"
  BY <1>1 DEF CaptureInv, TypeOK
<1>3. rate[b] # 0 /\ Overtaken'
  BY <1>0, <1>1, <1>2 DEF CaptureInv, Entries, Overtaken
<1>4. CASE UNCHANGED <<samples, got, met>>
  <2>1. TypeOK'
    BY <1>1, <1>2, <1>4 DEF CaptureInv, TypeOK, command
  <2>2. Entries'
    BY <1>1, <1>2, <1>4 DEF CaptureInv, Entries
  <2>3. UNCHANGED <<full_capture, buffers, command, history>>
    BY <1>1, <1>4 DEF buffers, history
  <2>4. QED
    BY <1>3, <2>1, <2>2, <2>3, Untouched DEF CaptureInv
<1>5. CASE /\ ~frozen[b]
           /\ samples' = [samples EXCEPT ![b] = Newest(Append(@, gen), Retain)]
           /\ IF full_capture \/ arm # "idle"
              THEN /\ got' = [got EXCEPT ![b] = @ + 1]
                   /\ met' = [met EXCEPT ![b] = @ \cup (IF full_capture THEN {} ELSE {"stop"})]
              ELSE UNCHANGED <<got, met>>
  <2> HIDE DEF b
  <2> DEFINE q == Newest(Append(samples[b], gen), Retain)
  <2>1. /\ Retain \in Nat \ {0} /\ Retain <= FullRetain
        /\ Retain = IF full_capture THEN FullRetain ELSE VerifyRetain
    BY CoreCaptureAssumption DEF Retain
  <2>2. /\ q \in Seq(Nat)
        /\ Len(q) = IF Len(samples[b]) + 1 > Retain THEN Retain ELSE Len(samples[b]) + 1
        /\ (\A k \in 1 .. Len(samples[b]) : samples[b][k] = gen) =>
              \A k \in 1 .. Len(q) : q[k] = gen
    BY <1>0, <2>1, Captured DEF CaptureInv
  <2>3. /\ samples' = [samples EXCEPT ![b] = q]
        /\ samples \in [Buffers -> Seq(Nat)] /\ got \in [Buffers -> Nat]
        /\ met \in [Buffers -> SUBSET {"stop", "rate", "command"}]
        /\ Len(samples[b]) \in Nat /\ got[b] \in Nat
        /\ FullRetain \in Nat /\ VerifyRetain \in Nat /\ VerifyRetain <= FullRetain
        /\ Len(samples[b]) <= FullRetain
    BY <1>0, <1>5, CoreCaptureAssumption DEF CaptureInv, TypeOK
  <2> HIDE DEF q
  <2>4. /\ samples' \in [Buffers -> Seq(Nat)] /\ samples'[b] = q
        /\ \A d \in Buffers \ {b} : samples'[d] = samples[d]
    BY <1>0, <2>2, <2>3
  <2>5. /\ got' \in [Buffers -> Nat] /\ met' \in [Buffers -> SUBSET {"stop", "rate", "command"}]
        /\ \A d \in Buffers \ {b} : got'[d] = got[d] /\ met'[d] = met[d]
        /\ full_capture \/ arm # "idle" =>
             /\ got'[b] = got[b] + 1
             /\ met'[b] = met[b] \cup (IF full_capture THEN {} ELSE {"stop"})
    <3>1. CASE full_capture \/ arm # "idle"
      <4>1. /\ got' = [got EXCEPT ![b] = @ + 1]
            /\ met' = [met EXCEPT ![b] = @ \cup (IF full_capture THEN {} ELSE {"stop"})]
        BY <1>5, <3>1
      <4>2. (IF full_capture THEN {} ELSE {"stop"}) \in SUBSET {"stop", "rate", "command"}
        OBVIOUS
      <4>3. QED
        BY <1>0, <2>3, <4>1, <4>2
    <3>2. CASE ~(full_capture \/ arm # "idle")
      BY <1>5, <2>3, <3>2
    <3>3. QED
      BY <3>1, <3>2
  <2>6. TypeOK'
    <3>1. \A d \in Buffers : Len(samples'[d]) <= FullRetain
      BY <2>1, <2>2, <2>3, <2>4 DEF CaptureInv, TypeOK
    <3>2. QED
      BY <1>1, <1>2, <2>4, <2>5, <3>1 DEF CaptureInv, TypeOK, command
  <2>7. Entries'
    <3>1. ASSUME NEW d \in Buffers, rate'[d] = 0
          PROVE  samples'[d] = <<>> /\ got'[d] = 0 /\ ~frozen'[d]
      <4>1. rate[d] = 0 /\ d # b /\ frozen'[d] = frozen[d]
        BY <1>1, <1>3, <3>1 DEF b
      <4>2. QED
        BY <2>4, <2>5, <4>1 DEF CaptureInv, Entries
    <3>2. ASSUME NEW t \in Streams, stream'[t] \in {"on", "capture"}
          PROVE  rate'[t[1]] # 0
      <4>1. t[1] \in Buffers
        BY DEF Streams, Buffers
      <4>2. QED
        BY <1>1, <1>2, <3>2, <4>1 DEF CaptureInv, Entries
    <3>3. QED
      BY <3>1, <3>2 DEF Entries
  <2>8. Command' /\ Current'
    <3>1. UNCHANGED <<full_capture, arm, arm_on, gen>>
      BY <1>1 DEF command
    <3>2. Command'
      BY <3>1 DEF CaptureInv, Command
    <3>3. ASSUME full_capture, NEW d \in Buffers, Passed(d)
          PROVE  \A k \in 1 .. Len(samples'[d]) : samples'[d][k] = gen
      <4>1. \A k \in 1 .. Len(samples[d]) : samples[d][k] = gen
        BY <3>3 DEF CaptureInv, Current
      <4>2. CASE d = b
        BY <2>2, <2>4, <4>1, <4>2
      <4>3. CASE d # b
        BY <2>4, <4>1, <4>3
      <4>4. QED
        BY <4>2, <4>3
    <3>4. Current'
      BY <3>1, <3>3 DEF Current, Passed
    <3>5. QED
      BY <3>2, <3>4
  <2>9. ASSUME Kept  PROVE Kept'
    <3> SUFFICES ASSUME NEW d \in Buffers,
                        \/ frozen[d]
                        \/ full_capture /\ Passed(d)
                        \/ arm # "idle" /\ ~arm_on /\ was_full /\ ~Passed(d)
                 PROVE  Whole(d)'
      BY <1>1 DEF Kept, Passed, command
    <3>1. Whole(d)
      BY <2>9 DEF Kept
    <3>2. CASE d # b
      BY <2>4, <2>5, <3>1, <3>2 DEF Whole, Least
    <3>3. CASE d = b
      <4>1. full_capture \/ arm # "idle"
        BY <1>5, <3>3
      <4>2. /\ got'[b] = got[b] + 1
            /\ met'[b] = met[b] \cup (IF full_capture THEN {} ELSE {"stop"})
        BY <2>5, <4>1
      <4>3. /\ Least(b)' \in {VerifyRetain, FullRetain} /\ Least(b) \in {VerifyRetain, FullRetain}
            /\ full_capture => Least(b)' = Least(b)
            /\ ~full_capture => Least(b)' = VerifyRetain
        BY <4>2 DEF Least
      <4>4. met'[b] \cap {"rate", "command"} = {} => met[b] \cap {"rate", "command"} = {}
        BY <4>2
      <4> DEFINE n == Len(samples[b])
                 m == Len(samples'[b])
                 l == Least(b)
                 k == Least(b)'
      <4>5. m = IF n + 1 > Retain THEN Retain ELSE n + 1
        BY <2>2, <2>4
      <4>6. /\ n \in Nat /\ n <= FullRetain
            /\ n >= got[b] \/ n >= l \/ met'[b] \cap {"rate", "command"} # {}
        BY <2>3, <3>1, <3>3, <4>4 DEF Whole
      <4>7. /\ l \in {VerifyRetain, FullRetain} /\ k \in {VerifyRetain, FullRetain}
            /\ full_capture => k = l
            /\ ~full_capture => k = VerifyRetain
        BY <4>3
      <4> HIDE DEF n, m, l, k
      <4>8. m >= got[b] + 1 \/ m >= k \/ met'[b] \cap {"rate", "command"} # {}
        BY <2>1, <2>3, <4>5, <4>6, <4>7
      <4>9. QED
        BY <3>3, <4>2, <4>8 DEF Whole, m, k
    <3>4. QED
      BY <3>2, <3>3
  <2>10. QED
    BY <1>3, <2>6, <2>7, <2>8, <2>9 DEF CaptureInv
<1>6. QED
  BY <1>4, <1>5 DEF Capture

\* The flag is swapped: an arm begins a recording, a stop leaves the buffers to
\* be frozen.
LEMMA SwapStep ==
  ASSUME CaptureInv, NEW on \in BOOLEAN, ArmSwap(on)
  PROVE  CaptureInv' /\ (Kept => Kept')
<1>1. /\ arm = "idle" /\ arm' = "tx" /\ arm_on' = on /\ was_full' = full_capture
      /\ full_capture' = on /\ gen' \in Nat /\ UNCHANGED <<buffers, stream, seen, got, met>>
      /\ crossed' = IF on /\ ~full_capture
                    THEN crossed \cup {s \in Streams : stream[s] = "alloc"} ELSE crossed
  BY DEF ArmSwap, CaptureInv, TypeOK
<1>2. TypeOK'
  BY <1>1 DEF CaptureInv, TypeOK, buffers, Buffers
<1>3. Entries'
  BY <1>1 DEF CaptureInv, Entries, buffers
<1>4. \A b \in Buffers : Passed(b) /\ ~Passed(b)'
  BY <1>1 DEF Passed
<1>5. Command' /\ Current' /\ Overtaken'
  BY <1>1, <1>4 DEF Command, Current, Overtaken, CaptureInv
<1>6. ASSUME Kept  PROVE Kept'
  BY <1>1, <1>4, <1>6 DEF Kept, Whole, Least, buffers
<1>7. QED
  BY <1>2, <1>3, <1>5, <1>6 DEF CaptureInv

\* A buffer is emptied for the recording that is armed, or frozen with the one
\* that stops.
LEMMA BufferStep ==
  ASSUME CaptureInv, ArmBuffer
  PROVE  CaptureInv' /\ (Kept => Kept')
<1>0. PICK b \in Buffers : b = arm
  BY DEF ArmBuffer, CaptureInv, TypeOK
<1>1. /\ UNCHANGED <<full_capture, stream, seen, gen, crossed>>
      /\ \/ b = "tx" /\ arm' = "rx" /\ UNCHANGED <<arm_on, was_full>>
         \/ b = "rx" /\ arm' = "idle" /\ ~arm_on' /\ ~was_full'
      /\ arm_on' \in BOOLEAN /\ was_full' \in BOOLEAN /\ arm' \in Buffers \cup {"idle"}
  BY <1>0 DEF ArmBuffer, ArmDone, Begins, Buffers, CaptureInv, TypeOK
<1>2. /\ ~Passed(b) /\ Passed(b)'
      /\ \A d \in Buffers \ {b} : Passed(d)' <=> Passed(d)
      /\ full_capture = arm_on
      /\ Command' /\ Overtaken'
  BY <1>0, <1>1 DEF Passed, Buffers, CaptureInv, Command, Overtaken
<1>3. /\ got' = IF arm_on THEN [got EXCEPT ![b] = 0] ELSE got
      /\ met' = IF arm_on THEN [met EXCEPT ![b] = {}] ELSE met
      /\ got \in [Buffers -> Nat] /\ met \in [Buffers -> SUBSET {"stop", "rate", "command"}]
  BY <1>0 DEF ArmBuffer, Begins, CaptureInv, TypeOK
<1>4. /\ got' \in [Buffers -> Nat] /\ met' \in [Buffers -> SUBSET {"stop", "rate", "command"}]
      /\ \A d \in Buffers \ {b} : got'[d] = got[d] /\ met'[d] = met[d]
      /\ arm_on => got'[b] = 0
      /\ ~arm_on => got'[b] = got[b] /\ met'[b] = met[b]
  BY <1>3
<1>5. /\ \/ rate[b] # 0 /\ arm_on /\ Fresh(b, rate[b])
         \/ /\ rate[b] # 0 /\ ~arm_on /\ was_full
            /\ frozen' = [frozen EXCEPT ![b] = TRUE] /\ UNCHANGED <<rate, samples>>
         \/ UNCHANGED buffers /\ (rate[b] = 0 \/ (~arm_on /\ ~was_full))
  BY <1>0 DEF ArmBuffer
<1>6. /\ rate' \in [Buffers -> Rates \cup {0}] /\ samples' \in [Buffers -> Seq(Nat)]
      /\ frozen' \in [Buffers -> BOOLEAN]
      /\ \A d \in Buffers : Len(samples'[d]) <= FullRetain /\ Len(samples'[d]) \in Nat
      /\ \A d \in Buffers \ {b} :
           rate'[d] = rate[d] /\ samples'[d] = samples[d] /\ frozen'[d] = frozen[d]
      /\ rate'[b] = rate[b] /\ (rate[b] = 0 => samples'[b] = samples[b] /\ frozen'[b] = frozen[b])
      /\ arm_on => Len(samples'[b]) = 0
      /\ ~arm_on => /\ samples'[b] = samples[b]
                    /\ frozen'[b] => frozen[b] \/ was_full
  <2>1. CASE rate[b] # 0 /\ arm_on /\ Fresh(b, rate[b])
    <3>1. rate[b] \in Rates
      BY <2>1 DEF CaptureInv, TypeOK
    <3>2. /\ rate' \in [Buffers -> Rates \cup {0}] /\ samples' \in [Buffers -> Seq(Nat)]
          /\ frozen' \in [Buffers -> BOOLEAN]
          /\ rate'[b] = rate[b] /\ Len(samples'[b]) = 0 /\ ~frozen'[b]
          /\ \A d \in Buffers : Len(samples'[d]) <= FullRetain
          /\ \A d \in Buffers \ {b} :
               rate'[d] = rate[d] /\ samples'[d] = samples[d] /\ frozen'[d] = frozen[d]
      BY <2>1, <3>1, Emptied
    <3>3. \A d \in Buffers : Len(samples'[d]) \in Nat
      BY <3>2
    <3>4. QED
      BY <2>1, <3>2, <3>3
  <2>2. CASE /\ rate[b] # 0 /\ ~arm_on /\ was_full
             /\ frozen' = [frozen EXCEPT ![b] = TRUE] /\ UNCHANGED <<rate, samples>>
    <3>1. /\ rate \in [Buffers -> Rates \cup {0}] /\ samples \in [Buffers -> Seq(Nat)]
          /\ frozen \in [Buffers -> BOOLEAN]
          /\ \A d \in Buffers : Len(samples[d]) <= FullRetain
      BY DEF CaptureInv, TypeOK
    <3>2. /\ frozen' \in [Buffers -> BOOLEAN]
          /\ \A d \in Buffers \ {b} : frozen'[d] = frozen[d]
      BY <2>2, <3>1
    <3>3. \A d \in Buffers : Len(samples[d]) \in Nat
      BY <3>1
    <3>4. QED
      BY <2>2, <3>1, <3>2, <3>3
  <2>3. CASE UNCHANGED buffers /\ (rate[b] = 0 \/ (~arm_on /\ ~was_full))
    BY <2>3 DEF CaptureInv, TypeOK, Entries, buffers
  <2>4. QED
    BY <1>5, <2>1, <2>2, <2>3
<1>7. TypeOK'
  BY <1>1, <1>4, <1>6 DEF CaptureInv, TypeOK
<1>8. Entries'
  <2>1. ASSUME NEW d \in Buffers, rate'[d] = 0
        PROVE  samples'[d] = <<>> /\ got'[d] = 0 /\ ~frozen'[d]
    <3>1. rate[d] = 0 /\ samples'[d] = samples[d] /\ frozen'[d] = frozen[d]
      BY <1>6, <2>1
    <3>2. got'[d] = got[d] \/ got'[d] = 0
      BY <1>4
    <3>3. QED
      BY <3>1, <3>2 DEF CaptureInv, Entries
  <2>2. ASSUME NEW t \in Streams, stream'[t] \in {"on", "capture"}
        PROVE  rate'[t[1]] # 0
    <3>1. t[1] \in Buffers
      BY DEF Streams, Buffers
    <3>2. QED
      BY <1>1, <1>6, <2>2, <3>1 DEF CaptureInv, Entries
  <2>3. QED
    BY <2>1, <2>2 DEF Entries
<1>9. Current'
  <2> SUFFICES ASSUME NEW d \in Buffers, full_capture, Passed(d)'
               PROVE  \A k \in 1 .. Len(samples'[d]) : samples'[d][k] = gen
    BY <1>1 DEF Current
  <2>1. CASE d = b
    BY <1>2, <1>6, <2>1
  <2>2. CASE d # b
    <3>1. Passed(d) /\ samples'[d] = samples[d]
      BY <1>2, <1>6, <2>2
    <3>2. QED
      BY <3>1 DEF CaptureInv, Current
  <2>3. QED
    BY <2>1, <2>2
<1>10. ASSUME Kept  PROVE Kept'
  <2> SUFFICES ASSUME NEW d \in Buffers,
                      \/ frozen'[d]
                      \/ full_capture' /\ Passed(d)'
                      \/ arm' # "idle" /\ ~arm_on' /\ was_full' /\ ~Passed(d)'
               PROVE  Whole(d)'
    BY DEF Kept
  <2>1. CASE d = b
    <3>1. CASE arm_on
      BY <1>4, <1>6, <2>1, <3>1 DEF Whole
    <3>2. CASE ~arm_on
      <4>1. ~full_capture' /\ Passed(b)'
        BY <1>1, <1>2, <3>2
      <4>2. frozen[b] \/ was_full
        BY <1>6, <2>1, <3>2, <4>1
      <4>3. Whole(b)
        BY <1>0, <1>2, <1>10, <3>2, <4>2 DEF Kept, Buffers
      <4>4. QED
        BY <1>4, <1>6, <2>1, <3>2, <4>3 DEF Whole, Least
    <3>3. QED
      BY <3>1, <3>2
  <2>2. CASE d # b
    <3>1. got'[d] = got[d] /\ met'[d] = met[d] /\ samples'[d] = samples[d] /\ frozen'[d] = frozen[d]
      BY <1>4, <1>6, <2>2
    <3>2. Whole(d)
      <4>1. CASE frozen[d] \/ (full_capture /\ Passed(d))
        BY <1>10, <4>1 DEF Kept
      <4>2. CASE arm' # "idle" /\ ~arm_on' /\ was_full' /\ ~Passed(d)'
        <5>1. arm # "idle" /\ ~arm_on /\ was_full /\ ~Passed(d)
          <6>1. b = "tx" /\ arm' = "rx" /\ arm_on' = arm_on /\ was_full' = was_full
            BY <1>1, <4>2
          <6>2. arm = "tx" /\ d = "rx"
            BY <1>0, <2>2, <6>1 DEF Buffers
          <6>3. ~Passed(d)
            BY <6>2 DEF Passed
          <6>4. ~arm_on /\ was_full
            BY <4>2, <6>1
          <6>5. QED
            BY <6>2, <6>3, <6>4
        <5>2. QED
          BY <1>10, <5>1 DEF Kept
      <4>3. QED
        BY <1>1, <1>2, <2>2, <3>1, <4>1, <4>2
    <3>3. QED
      BY <3>1, <3>2 DEF Whole, Least
  <2>3. QED
    BY <2>1, <2>2
<1>11. QED
  BY <1>2, <1>7, <1>8, <1>9, <1>10 DEF CaptureInv

LEMMA CaptureInvStep ==
  ASSUME CaptureInv, [CaptureNext]_capturing
  PROVE  CaptureInv' /\ (Kept => Kept')
<1>1. CASE UNCHANGED capturing
  <2>1. UNCHANGED <<full_capture, buffers, command, history>> /\ UNCHANGED <<stream, seen>>
    BY <1>1 DEF capturing
  <2>2. TypeOK' /\ Entries' /\ Overtaken'
    BY <2>1 DEF CaptureInv, TypeOK, Entries, Overtaken, buffers, command, history
  <2>3. QED
    BY <2>1, <2>2, Untouched DEF CaptureInv
<1>2. QED
  BY <1>1, StreamSteps, AllocStep, CaptureStep, SwapStep, BufferStep DEF CaptureNext

-----------------------------------------------------------------------------
\* What a recording holds while it runs was captured after its own arm
\* (arm_capture, capture_mono).
THEOREM NothingOlder == CaptureSpec => []RecordingFresh
<1>1. CaptureInv => RecordingFresh
  BY DEF CaptureInv, Current, RecordingFresh, Passed
<1>2. QED
  BY InitCaptureInv, CaptureInvStep, <1>1, PTL DEF CaptureSpec

\* A recording, running or stopped, holds every frame since its arm up to its cap, but for
\* what a change of rate, an allocation amid a command and a frame amid a stop cost, at
\* every interleaving of streams and commands (arm_capture, alloc_buffer, capture_mono).
THEOREM NothingLost == CaptureSpec => []RecordingWhole
<1>1. CaptureInit => CaptureInv /\ Kept
  BY InitCaptureInv, InitKept
<1>2. CaptureInv /\ Kept /\ [CaptureNext]_capturing => CaptureInv' /\ Kept'
  BY CaptureInvStep
<1>3. CaptureInv /\ Kept => RecordingWhole
  BY DEF Kept, RecordingWhole, Passed, Whole, Least
<1>4. QED
  BY <1>1, <1>2, <1>3, PTL DEF CaptureSpec
=============================================================================
