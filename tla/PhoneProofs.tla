----------------------------- MODULE PhoneProofs -----------------------------
(***************************************************************************)
(* For any number of calls, keys and waiting events: the screen of a       *)
(* ringo-phone session and baresip's list of calls differ by what waits in *)
(* the channel, every call is reported as what it was, a command for a     *)
(* selected call meets it, and a deflection spares the other calls         *)
(* (ListsAgree, EndsAreTrue, SelectedIsHit and DeflectSpares of            *)
(* PhoneCalls).  For any profiles, forms and changes by other programs: an *)
(* error of the form is where the focus is, and no profile that the picker *)
(* listed is lost (ErrorUnderFocus of PhoneForm, Spares of PhoneProfiles). *)
(*                                                                         *)
(* Four things are kept of a session.  Of baresip: its list has every call *)
(* that is not gone, once (CoreInv).  Of the channel: of a call's events   *)
(* the first opens it and the last closes it, which is why one event taken *)
(* from the front changes what waits for one call only (PopTells).  Of the *)
(* screen: a call is shown or about to be until its end was read, and what *)
(* was noted of it is true (Followed, Noted).  Of a handler's commands:    *)
(* one for a selected call follows its selection (Picked).                 *)
(*                                                                         *)
(* A command or the network does one of five things to baresip's calls     *)
(* (Minor, Begins, Reports, Ends, Closes), so that what follows for the    *)
(* session is proved once for each and not once for each of its steps.     *)
(*                                                                         *)
(* Between sessions, what takes keys as a form is an open one (ViewInv),   *)
(* its tab has as many rows whatever the source of the password (FormInv), *)
(* and a step writes profiles in one of five ways (Writes).                *)
(***************************************************************************)
EXTENDS PhoneCalls, PhoneProfiles, SequenceTheorems, TLAPS

-----------------------------------------------------------------------------
(* The invariant.                                                          *)

OpenAt(i) == events[i].type \in {"incoming", "outgoing"}
CloseAt(i) == events[i].type \in {"closed", "transferred"}

\* What a call went through.
Legs ==
  \A c \in Calls :
    /\ leg[c].st = "new" <=> c >= next
    /\ leg[c].answered => leg[c].st \in {"up", "gone"}
    /\ leg[c].deflected => leg[c].dir = "in" /\ leg[c].st = "gone" /\ ~ leg[c].answered

\* baresip's list has each call that is not gone, once.
Linked ==
  /\ \A i \in 1 .. Len(ua) : Alive(ua[i])
  /\ \A i, j \in 1 .. Len(ua) : ua[i] = ua[j] => i = j
  /\ \A c \in Calls : Alive(c) => \E i \in 1 .. Len(ua) : ua[i] = c

CoreInv == CoreTypeOK /\ Legs /\ Linked

\* What waits in the channel for a call, and whether the screen has it.
Waiting(c) == \E i \in 1 .. Len(events) : events[i].call = c
Opening(c) == \E i \in 1 .. Len(events) : events[i].call = c /\ OpenAt(i)
Closing(c) == \E i \in 1 .. Len(events) : events[i].call = c /\ CloseAt(i)
Told(c) == \E i \in 1 .. Len(events) : events[i].call = c /\ events[i].type = "established"
Shown(c) == \E i \in 1 .. Len(calls) : calls[i].id = c

\* Of the events of a call its beginning comes first and its end last, and
\* they are true.
Ordered ==
  /\ \A i \in 1 .. Len(events) : events[i].call \in 1 .. next - 1
  /\ \A i, j \in 1 .. Len(events) : i # j /\ events[i].call = events[j].call =>
       /\ OpenAt(i) => i < j
       /\ CloseAt(i) => j < i
  /\ \A c \in Calls :
       /\ Closing(c) => leg[c].st = "gone"
       /\ Told(c) => leg[c].answered

\* A call is on the screen, or about to come, until the screen has seen its end.
Followed ==
  /\ \A i \in 1 .. Len(calls) : calls[i].id \in 1 .. next - 1
  /\ \A i, j \in 1 .. Len(calls) : calls[i].id = calls[j].id => i = j
  /\ \A c \in Calls :
       /\ Opening(c) => ~ Shown(c)
       /\ report[c] # "none" => leg[c].st = "gone" /\ ~ Shown(c) /\ ~ Waiting(c)
       /\ report[c] = "none" /\ leg[c].st = "gone" => Closing(c)
       /\ report[c] = "none" /\ c < next => Shown(c) \/ Opening(c)

\* What the screen noted of a call is true of it, and what it reported.
Noted ==
  /\ \A i \in 1 .. Len(calls) :
       /\ calls[i].started => leg[calls[i].id].answered
       /\ leg[calls[i].id].answered => calls[i].started \/ Told(calls[i].id)
       /\ calls[i].declined = "Deflected" => leg[calls[i].id].deflected
       /\ leg[calls[i].id].deflected => calls[i].declined # "no"
  /\ \A c \in Calls :
       /\ report[c] = "none" /\ leg[c].deflected => Shown(c)
       /\ report[c] = "none" /\ leg[c].answered /\ ~ Shown(c) => Told(c)
       /\ report[c] # "none" =>
            /\ (report[c] = "answered") <=> leg[c].answered
            /\ report[c] = "deflected" => leg[c].deflected
            /\ leg[c].deflected => report[c] \in {"deflected", "rejected"}

SessionInv == Ordered /\ Followed /\ Noted

\* A command for a call that was picked runs right after the call was selected.
Picked ==
  \A i \in 1 .. Len(todo) :
    /\ todo[i].cmd = "select" => todo[i].picked
    /\ todo[i].picked => todo[i].for \in Calls /\ todo[i].at <= next
    /\ todo[i].picked /\ todo[i].cmd # "select" /\ i > 1 =>
         /\ todo[i - 1].cmd = "select" /\ todo[i - 1].for = todo[i].for
    /\ todo[i].picked /\ todo[i].cmd # "select" /\ i = 1 /\ Alive(todo[i].for) =>
         Current = todo[i].for \/ next > todo[i].at

Screen ==
  /\ calls \in Seq(Call)
  /\ selected_call \in Nat \ {0} /\ selected_call <= IF calls = <<>> THEN 1 ELSE Len(calls)
  /\ todo \in Seq(Command)
  /\ report \in [Calls -> {"none", "answered", "unanswered", "missed", "rejected", "deflected"}]

-----------------------------------------------------------------------------
(* Sequences.                                                              *)

LEMMA FunctionSeq ==
  ASSUME NEW S, NEW n \in Nat, NEW f \in [1 .. n -> S]
  PROVE  f \in Seq(S) /\ Len(f) = n
OBVIOUS

LEMMA Appended ==
  ASSUME NEW S, NEW q \in Seq(S), NEW e \in S
  PROVE  /\ Append(q, e) \in Seq(S) /\ Len(q) \in Nat /\ Len(Append(q, e)) = Len(q) + 1
         /\ \A i \in 1 .. Len(q) : Append(q, e)[i] = q[i]
         /\ Append(q, e)[Len(q) + 1] = e
BY AppendProperties

LEMMA Popped ==
  ASSUME NEW S, NEW q \in Seq(S), q # <<>>
  PROVE  /\ Tail(q) \in Seq(S) /\ Len(q) \in Nat \ {0} /\ Len(Tail(q)) = Len(q) - 1
         /\ \A i \in 1 .. Len(q) - 1 : Tail(q)[i] = q[i + 1]
         /\ Head(q) = q[1] /\ Head(q) \in S
BY HeadTailProperties, EmptySeq

\* What is left after an entry was unlinked, and in which order.
LEMMA Unlinked ==
  ASSUME NEW S, NEW q \in Seq(S), NEW k \in 1 .. Len(q)
  PROVE  LET p == Unlink(q, k) IN
           /\ p \in Seq(S) /\ Len(q) \in Nat /\ Len(p) = Len(q) - 1
           /\ \A j \in 1 .. Len(p) : p[j] = IF j < k THEN q[j] ELSE q[j + 1]
<1> DEFINE a == SubSeq(q, 1, k - 1)
           b == SubSeq(q, k + 1, Len(q))
<1>0. k \in Nat /\ Len(q) \in Nat /\ 1 <= k /\ k <= Len(q)
  OBVIOUS
<1>1. /\ a \in Seq(S) /\ Len(a) = k - 1
      /\ \A i \in 1 .. k - 1 : a[i] = q[i]
  <2>1. \A i \in 1 .. k - 1 : q[i] \in S
    BY <1>0, ElementOfSeq
  <2>2. /\ a \in Seq(S) /\ Len(a) = IF 1 <= k - 1 THEN (k - 1) - 1 + 1 ELSE 0
        /\ \A i \in 1 .. (k - 1) - 1 + 1 : a[i] = q[1 + i - 1]
    BY <1>0, <2>1, SubSeqProperties
  <2> HIDE DEF a
  <2>3. QED
    BY <1>0, <2>2
<1>2. /\ b \in Seq(S) /\ Len(b) = Len(q) - k
      /\ \A i \in 1 .. Len(q) - k : b[i] = q[k + i]
  <2>1. \A i \in k + 1 .. Len(q) : q[i] \in S
    BY <1>0, ElementOfSeq
  <2>2. /\ b \in Seq(S)
        /\ Len(b) = IF k + 1 <= Len(q) THEN Len(q) - (k + 1) + 1 ELSE 0
        /\ \A i \in 1 .. Len(q) - (k + 1) + 1 : b[i] = q[(k + 1) + i - 1]
    BY <1>0, <2>1, SubSeqProperties
  <2> HIDE DEF b
  <2>3. QED
    BY <1>0, <2>2
<1>3. Unlink(q, k) = a \o b
  BY DEF Unlink
<1> HIDE DEF a, b
<1>4. /\ a \o b \in Seq(S) /\ Len(a \o b) = Len(a) + Len(b)
      /\ \A i \in 1 .. Len(a) + Len(b) : (a \o b)[i] = IF i <= Len(a) THEN a[i] ELSE b[i - Len(a)]
  BY <1>1, <1>2, ConcatProperties
<1>5. Len(a \o b) = Len(q) - 1
  BY <1>0, <1>1, <1>2, <1>4
<1>6. ASSUME NEW j \in 1 .. Len(a \o b)
      PROVE  (a \o b)[j] = IF j < k THEN q[j] ELSE q[j + 1]
  <2>1. CASE j < k
    BY <2>1, <1>0, <1>1, <1>2, <1>4, <1>5
  <2>2. CASE ~ (j < k)
    <3>1. (a \o b)[j] = b[j - Len(a)] /\ j - Len(a) \in 1 .. Len(q) - k
      BY <2>2, <1>0, <1>1, <1>2, <1>4, <1>5
    <3>2. b[j - Len(a)] = q[k + (j - Len(a))] /\ k + (j - Len(a)) = j + 1
      BY <3>1, <1>0, <1>1, <1>2, <1>5
    <3>3. QED
      BY <2>2, <3>1, <3>2
  <2>3. QED
    BY <2>1, <2>2
<1>7. QED
  BY <1>0, <1>3, <1>4, <1>5, <1>6

\* The same by what is in the list and where it was before entry k was unlinked.
Was(j, k) == IF j < k THEN j ELSE j + 1

LEMMA Remaining ==
  ASSUME NEW S, NEW q \in Seq(S), NEW k \in 1 .. Len(q)
  PROVE  LET p == Unlink(q, k) IN
             /\ p \in Seq(S) /\ Len(p) \in Nat
             /\ \A j \in 1 .. Len(p) : Was(j, k) \in 1 .. Len(q) /\ Was(j, k) # k /\ p[j] = q[Was(j, k)]
             /\ \A i, j \in 1 .. Len(p) : Was(i, k) = Was(j, k) => i = j
             /\ \A i \in 1 .. Len(q) : i # k => \E j \in 1 .. Len(p) : Was(j, k) = i
             /\ Len(q) # k => Len(p) \in 1 .. Len(p) /\ p[Len(p)] = q[Len(q)]
<1> DEFINE p == Unlink(q, k)
<1>1. /\ p \in Seq(S) /\ Len(q) \in Nat /\ Len(p) = Len(q) - 1
      /\ \A j \in 1 .. Len(p) : p[j] = IF j < k THEN q[j] ELSE q[j + 1]
  BY Unlinked
<1> HIDE DEF p
<1>2. k \in Nat /\ 1 <= k /\ k <= Len(q) /\ Len(p) \in Nat
  BY <1>1
<1>3. ASSUME NEW i \in 1 .. Len(q), i # k PROVE \E j \in 1 .. Len(p) : Was(j, k) = i
  <2>1. CASE i < k
    BY <1>1, <1>2, <2>1 DEF Was
  <2>2. CASE i > k
    <3>1. i - 1 \in 1 .. Len(p) /\ Was(i - 1, k) = i
      BY <1>1, <1>2, <2>2 DEF Was
    <3>2. QED
      BY <3>1
  <2>3. QED
    BY <1>2, <1>3, <2>1, <2>2
<1>4. ASSUME Len(q) # k PROVE Len(p) \in 1 .. Len(p) /\ p[Len(p)] = q[Len(q)]
  BY <1>1, <1>2, <1>4
<1>5. \A j \in 1 .. Len(p) : Was(j, k) \in 1 .. Len(q) /\ Was(j, k) # k /\ p[j] = q[Was(j, k)]
  BY <1>1, <1>2 DEF Was
<1>6. \A i, j \in 1 .. Len(p) : Was(i, k) = Was(j, k) => i = j
  BY <1>1, <1>2 DEF Was
<1>7. QED
  BY <1>1, <1>2, <1>3, <1>4, <1>5, <1>6 DEF p

\* A call that is listed once leaves the list, the others stay, and the last one
\* is the last one still if it does.
LEMMA WithoutOne ==
  ASSUME NEW S, NEW q \in Seq(S), NEW c, \A i, j \in 1 .. Len(q) : q[i] = q[j] => i = j
  PROVE  LET p == Without(q, c) IN
           /\ p \in Seq(S)
           /\ \A j \in 1 .. Len(p) : p[j] # c /\ \E i \in 1 .. Len(q) : p[j] = q[i]
           /\ \A i, j \in 1 .. Len(p) : p[i] = p[j] => i = j
           /\ \A i \in 1 .. Len(q) : q[i] # c => \E j \in 1 .. Len(p) : p[j] = q[i]
           /\ Len(q) \in 1 .. Len(q) /\ q[Len(q)] # c =>
                Len(p) \in 1 .. Len(p) /\ p[Len(p)] = q[Len(q)]
<1>1. CASE \E i \in 1 .. Len(q) : q[i] = c
  <2> DEFINE k == CHOOSE i \in 1 .. Len(q) : q[i] = c
             p == Unlink(q, k)
  <2>1. k \in 1 .. Len(q) /\ q[k] = c
    BY <1>1
  <2>2. Without(q, c) = p
    BY <1>1 DEF Without
  <2> HIDE DEF k
  <2>3. /\ p \in Seq(S) /\ Len(p) \in Nat
        /\ \A j \in 1 .. Len(p) : Was(j, k) \in 1 .. Len(q) /\ Was(j, k) # k /\ p[j] = q[Was(j, k)]
        /\ \A i, j \in 1 .. Len(p) : Was(i, k) = Was(j, k) => i = j
        /\ \A i \in 1 .. Len(q) : i # k => \E j \in 1 .. Len(p) : Was(j, k) = i
        /\ Len(q) # k => Len(p) \in 1 .. Len(p) /\ p[Len(p)] = q[Len(q)]
    BY <2>1, Remaining
  <2> HIDE DEF p
  <2>4. \A j \in 1 .. Len(p) : p[j] # c /\ \E i \in 1 .. Len(q) : p[j] = q[i]
    BY <2>1, <2>3
  <2>5. \A i, j \in 1 .. Len(p) : p[i] = p[j] => i = j
    BY <2>3
  <2>6. ASSUME NEW i \in 1 .. Len(q), q[i] # c PROVE \E j \in 1 .. Len(p) : p[j] = q[i]
    <3>1. i # k
      BY <2>1, <2>6
    <3>2. PICK j \in 1 .. Len(p) : Was(j, k) = i
      BY <2>3, <3>1
    <3>3. QED
      BY <2>3, <3>2
  <2>7. Len(q) \in 1 .. Len(q) /\ q[Len(q)] # c => Len(p) \in 1 .. Len(p) /\ p[Len(p)] = q[Len(q)]
    BY <2>1, <2>3
  <2>8. p \in Seq(S)
    BY <2>3
  <2>9. QED
    BY <2>2, <2>4, <2>5, <2>6, <2>7, <2>8
<1>2. CASE ~ \E i \in 1 .. Len(q) : q[i] = c
  BY <1>2 DEF Without
<1>3. QED
  BY <1>1, <1>2

-----------------------------------------------------------------------------
(* What the commands and the network do to baresip's calls.                *)

EventPushes(e) ==
  /\ e \in AppEvent /\ events' \in Seq(AppEvent)
  /\ Len(events) \in Nat /\ Len(events') = Len(events) + 1
  /\ \A i \in 1 .. Len(events) : i \in 1 .. Len(events') /\ events'[i] = events[i]
  /\ events'[Len(events')] = e /\ Len(events') \in 1 .. Len(events')
  /\ \A i \in 1 .. Len(events') : i \in 1 .. Len(events) \/ i = Len(events')

EventPops ==
  /\ events' \in Seq(AppEvent)
  /\ Len(events) \in Nat /\ Len(events') \in Nat /\ Len(events) = Len(events') + 1
  /\ Head(events) = events[1] /\ events[1] \in AppEvent /\ 1 \in 1 .. Len(events)
  /\ \A i \in 1 .. Len(events') : i + 1 \in 1 .. Len(events) /\ i + 1 # 1 /\ events'[i] = events[i + 1]
  /\ \A i \in 1 .. Len(events) : i # 1 => i - 1 \in 1 .. Len(events') /\ events'[i - 1] = events[i]

LEMMA EventPushed ==
  ASSUME events \in Seq(AppEvent), NEW e \in AppEvent, events' = Append(events, e)
  PROVE  EventPushes(e)
BY Appended DEF EventPushes

LEMMA EventPopped ==
  ASSUME events \in Seq(AppEvent), events # <<>>, events' = Tail(events)
  PROVE  EventPops
<1>1. /\ events' \in Seq(AppEvent) /\ Len(events) \in Nat \ {0} /\ Len(events') = Len(events) - 1
      /\ \A i \in 1 .. Len(events) - 1 : events'[i] = events[i + 1]
      /\ Head(events) = events[1] /\ Head(events) \in AppEvent
  BY Popped
<1>2. QED
  BY <1>1 DEF EventPops

\* What says how far a call is, but whether it was accepted.
Like(c) ==
  /\ leg'[c].dir = leg[c].dir /\ leg'[c].answered = leg[c].answered
  /\ leg'[c].deflected = leg[c].deflected
  /\ \/ leg'[c].st = leg[c].st
     \/ leg[c].st = "ringing" /\ leg'[c].st = "answered"

Minor == UNCHANGED <<next, events>> /\ \A c \in Calls : Like(c)

Begins ==
  /\ next \in Calls /\ next' = next + 1
  /\ \E type \in {"incoming", "outgoing"} : EventPushes([type |-> type, call |-> next])
  /\ leg'[next].st = "ringing"
  /\ leg'[next].answered = leg[next].answered /\ leg'[next].deflected = leg[next].deflected
  /\ \A c \in Calls \ {next} : leg'[c] = leg[c]

Ends(c) ==
  /\ c \in Calls /\ Alive(c) /\ next' = next
  /\ \E type \in {"closed", "transferred"} : EventPushes([type |-> type, call |-> c])
  /\ leg'[c].st = "gone" /\ leg'[c].dir = leg[c].dir /\ leg'[c].answered = leg[c].answered
  /\ leg'[c].deflected \in BOOLEAN
  /\ leg'[c].deflected # leg[c].deflected => CanDeflect(c)
  /\ \A d \in Calls \ {c} : leg'[d] = leg[d]

Reports ==
  /\ next' = next /\ ua' = ua
  /\ \E c \in Calls, type \in {"established", "held", "resumed"} :
       /\ Alive(c) /\ Alive(c)'
       /\ EventPushes([type |-> type, call |-> c])
       /\ type = "established" => leg'[c].answered
       /\ type # "established" => leg'[c].answered = leg[c].answered
       /\ leg[c].answered => leg'[c].answered
       /\ leg'[c].deflected = leg[c].deflected /\ leg'[c].dir = leg[c].dir
       /\ \A d \in Calls \ {c} : leg'[d] = leg[d]

LEMMA NewCallBegins ==
  ASSUME CoreInv, NEW dir \in {"in", "out"}, NewCall(dir)
  PROVE  CoreInv' /\ Begins
<1>1. /\ next \in Calls /\ next' = next + 1 /\ next' \in 1 .. MaxCalls + 1
      /\ ua \in Seq(Calls) /\ events \in Seq(AppEvent) /\ leg \in [Calls -> Leg]
  BY CoreCallsAssumption DEF NewCall, CoreInv, CoreTypeOK, Calls
<1>2. leg' \in [Calls -> Leg] /\ leg'[next] = [leg[next] EXCEPT !.dir = dir, !.st = "ringing"]
      /\ \A c \in Calls \ {next} : leg'[c] = leg[c]
  <2> DEFINE l == [leg[next] EXCEPT !.dir = dir, !.st = "ringing"]
  <2>1. l \in Leg
    BY <1>1 DEF Leg
  <2>2. leg' = [leg EXCEPT ![next] = l]
    BY <1>1 DEF NewCall
  <2> HIDE DEF l
  <2>3. leg' \in [Calls -> Leg] /\ leg'[next] = l /\ \A c \in Calls \ {next} : leg'[c] = leg[c]
    BY <1>1, <2>1, <2>2
  <2>4. QED
    BY <2>3 DEF l
<1>3. [type |-> IF dir = "in" THEN "incoming" ELSE "outgoing", call |-> next] \in AppEvent
  BY <1>1 DEF AppEvent
<1>4. EventPushes([type |-> IF dir = "in" THEN "incoming" ELSE "outgoing", call |-> next])
  BY <1>1, <1>3, EventPushed DEF NewCall, Emit
<1>5. Begins
  BY <1>1, <1>2, <1>4 DEF Begins, Leg
<1>6. /\ ua' \in Seq(Calls) /\ Len(ua) \in Nat /\ Len(ua') = Len(ua) + 1
      /\ \A i \in 1 .. Len(ua) : ua'[i] = ua[i]
      /\ ua'[Len(ua) + 1] = next
  BY <1>1, Appended DEF NewCall
<1>7. CoreTypeOK'
  BY <1>1, <1>2, <1>4, <1>6 DEF CoreTypeOK, EventPushes
<1>0. leg[next].st = "new" /\ ~ leg[next].answered /\ ~ leg[next].deflected
  BY <1>1 DEF CoreInv, Legs, Calls
<1>8. Legs'
  <2>1. SUFFICES ASSUME NEW c \in Calls
                 PROVE  /\ leg'[c].st = "new" <=> c >= next'
                        /\ leg'[c].answered => leg'[c].st \in {"up", "gone"}
                        /\ leg'[c].deflected => leg'[c].dir = "in" /\ leg'[c].st = "gone" /\ ~ leg'[c].answered
    BY DEF Legs
  <2>2. CASE c = next
    BY <1>0, <1>1, <1>5, <2>2 DEF Begins, Calls
  <2>3. CASE c # next
    <3>1. leg'[c] = leg[c] /\ (c >= next' <=> c >= next)
      BY <1>1, <1>2, <2>3 DEF Calls
    <3>2. QED
      BY <3>1 DEF CoreInv, Legs
  <2>4. QED
    BY <2>2, <2>3
<1>9. Linked'
  <2>1. /\ ~ Alive(next)
        /\ \A c \in Calls : leg'[c].st \in {"ringing", "answered", "up"} <=> Alive(c) \/ c = next
    BY <1>0, <1>1, <1>2, <1>5 DEF Alive, Begins
  <2>2. \A i \in 1 .. Len(ua) : ua[i] # next /\ Alive(ua[i]) /\ ua[i] \in Calls
    BY <1>1, <2>1 DEF CoreInv, Linked
  <2>3. \A i \in 1 .. Len(ua') : (i \in 1 .. Len(ua) /\ ua'[i] = ua[i]) \/ (i = Len(ua) + 1 /\ ua'[i] = next)
    <3>1. TAKE i \in 1 .. Len(ua')
    <3>2. i \in 1 .. Len(ua) \/ i = Len(ua) + 1
      BY <1>6
    <3>3. QED
      BY <1>6, <3>2
  <2>4. \A i \in 1 .. Len(ua) : i \in 1 .. Len(ua') /\ ua'[i] = ua[i]
    BY <1>6
  <2>5. Len(ua) + 1 \in 1 .. Len(ua')
    BY <1>6
  <2>6. \A i \in 1 .. Len(ua') : leg'[ua'[i]].st \in {"ringing", "answered", "up"}
    BY <1>1, <2>1, <2>2, <2>3
  <2>7. \A i, j \in 1 .. Len(ua') : ua'[i] = ua'[j] => i = j
    BY <2>2, <2>3 DEF CoreInv, Linked
  <2>8. \A c \in Calls : leg'[c].st \in {"ringing", "answered", "up"} => \E i \in 1 .. Len(ua') : ua'[i] = c
    BY <1>6, <2>1, <2>4, <2>5 DEF CoreInv, Linked
  <2>9. QED
    BY <2>6, <2>7, <2>8 DEF Linked, Alive
<1>10. QED
  BY <1>5, <1>7, <1>8, <1>9 DEF CoreInv

LEMMA Rest ==
  ASSUME CoreInv, NEW c
  PROVE  LET p == Without(ua, c) IN
           /\ p \in Seq(Calls)
           /\ \A j \in 1 .. Len(p) : p[j] # c /\ \E i \in 1 .. Len(ua) : p[j] = ua[i]
           /\ \A i, j \in 1 .. Len(p) : p[i] = p[j] => i = j
           /\ \A i \in 1 .. Len(ua) : ua[i] # c => \E j \in 1 .. Len(p) : p[j] = ua[i]
           /\ Len(ua) \in 1 .. Len(ua) /\ ua[Len(ua)] # c =>
                Len(p) \in 1 .. Len(p) /\ p[Len(p)] = ua[Len(ua)]
BY WithoutOne DEF CoreInv, Linked, CoreTypeOK

\* A call that has ended is unlinked.
LEMMA EndsInv ==
  ASSUME CoreInv, NEW c, Ends(c), ua' = Without(ua, c), leg' \in [Calls -> Leg]
  PROVE  CoreInv'
<1>1. /\ ua' \in Seq(Calls)
      /\ \A j \in 1 .. Len(ua') : ua'[j] # c /\ \E i \in 1 .. Len(ua) : ua'[j] = ua[i]
      /\ \A i, j \in 1 .. Len(ua') : ua'[i] = ua'[j] => i = j
      /\ \A i \in 1 .. Len(ua) : ua[i] # c => \E j \in 1 .. Len(ua') : ua'[j] = ua[i]
  BY Rest
<1>2. CoreTypeOK'
  BY <1>1 DEF CoreInv, CoreTypeOK, Ends, EventPushes
<1>3. Legs'
  BY DEF CoreInv, CoreTypeOK, Legs, Ends, Alive, CanDeflect, Calls, Leg
<1>4. Linked'
  <2>1. \A d \in Calls : Alive(d)' <=> Alive(d) /\ d # c
    BY DEF Ends, Alive
  <2>2. \A i \in 1 .. Len(ua) : ua[i] \in Calls
    BY DEF CoreInv, CoreTypeOK
  <2>3. \A i \in 1 .. Len(ua') : Alive(ua[i])'
    <3>1. TAKE i \in 1 .. Len(ua')
    <3>2. PICK d \in Calls : d = ua'[i] /\ d # c /\ Alive(d)
      BY <1>1, <2>2 DEF CoreInv, Linked
    <3>3. Alive(d)'
      BY <2>1, <3>2
    <3>4. QED
      BY <3>2, <3>3 DEF Alive
  <2>4. \A d \in Calls : Alive(d)' => \E i \in 1 .. Len(ua') : ua'[i] = d
    <3>1. SUFFICES ASSUME NEW d \in Calls, Alive(d), d # c PROVE \E i \in 1 .. Len(ua') : ua'[i] = d
      BY <2>1
    <3>2. PICK i \in 1 .. Len(ua) : ua[i] = d
      BY <3>1 DEF CoreInv, Linked
    <3>3. QED
      BY <1>1, <3>1, <3>2
  <2>5. QED
    BY <1>1, <2>3, <2>4 DEF Linked
<1>5. QED
  BY <1>2, <1>3, <1>4 DEF CoreInv

Closes(c) == Ends(c) /\ ua' = Without(ua, c) /\ leg'[c].deflected = leg[c].deflected

LEMMA CloseEnds ==
  ASSUME CoreInv, NEW c \in Calls, Alive(c), NEW type \in {"closed", "transferred"}, Close(c, type)
  PROVE  CoreInv' /\ Closes(c)
<1>1. leg' \in [Calls -> Leg] /\ leg'[c] = Gone(leg[c]) /\ \A d \in Calls \ {c} : leg'[d] = leg[d]
  <2>1. leg \in [Calls -> Leg] /\ leg' = [leg EXCEPT ![c] = Gone(leg[c])]
    BY DEF Close, CoreInv, CoreTypeOK
  <2>2. Gone(leg[c]) \in Leg
    BY <2>1 DEF Leg, Gone
  <2>3. QED
    BY <2>1, <2>2
<1>2. [type |-> type, call |-> c] \in AppEvent
  BY DEF AppEvent
<1>3. EventPushes([type |-> type, call |-> c])
  BY <1>2, EventPushed DEF Close, Emit, CoreInv, CoreTypeOK
<1>4. Ends(c) /\ leg'[c].deflected = leg[c].deflected
  BY <1>1, <1>3 DEF Ends, Gone, Close, CoreInv, CoreTypeOK, Leg
<1>5. QED
  BY <1>1, <1>4, EndsInv DEF Close, Closes

LEMMA DeflectEnds ==
  ASSUME CoreInv, NEW c \in Calls, Deflect(c)
  PROVE  CoreInv' /\ Ends(c) /\ leg'[c].deflected
<1>1. /\ leg' \in [Calls -> Leg] /\ leg'[c] = [Gone(leg[c]) EXCEPT !.deflected = TRUE]
      /\ \A d \in Calls \ {c} : leg'[d] = leg[d]
  <2> DEFINE l == [Gone(leg[c]) EXCEPT !.deflected = TRUE]
  <2>1. leg \in [Calls -> Leg] /\ leg' = [leg EXCEPT ![c] = l]
    BY DEF Deflect, CoreInv, CoreTypeOK
  <2>2. l \in Leg
    BY <2>1 DEF Leg, Gone
  <2> HIDE DEF l
  <2>3. leg' \in [Calls -> Leg] /\ leg'[c] = l /\ \A d \in Calls \ {c} : leg'[d] = leg[d]
    BY <2>1, <2>2
  <2>4. QED
    BY <2>3 DEF l
<1>2. [type |-> "closed", call |-> c] \in AppEvent
  BY DEF AppEvent
<1>3. EventPushes([type |-> "closed", call |-> c])
  BY <1>2, EventPushed DEF Deflect, Emit, CoreInv, CoreTypeOK
<1>4. Ends(c) /\ leg'[c].deflected
  BY <1>1, <1>3 DEF Ends, Gone, Deflect, CanDeflect, Alive, CoreInv, CoreTypeOK, Leg
<1>5. QED
  BY <1>1, <1>4, EndsInv DEF Deflect

\* What leaves every call as far as it was.
LEMMA MinorInv ==
  ASSUME CoreInv, Minor, leg' \in [Calls -> Leg], UNCHANGED ua
  PROVE  CoreInv'
<1>1. \A c \in Calls : Alive(c)' <=> Alive(c)
  BY DEF Minor, Like, Alive
<1>2. \A i \in 1 .. Len(ua) : ua[i] \in Calls
  BY DEF CoreInv, CoreTypeOK
<1>3. CoreTypeOK'
  BY DEF Minor, CoreInv, CoreTypeOK
<1>4. Legs'
  BY DEF CoreInv, Legs, Minor, Like
<1>5. Linked'
  BY <1>1, <1>2 DEF CoreInv, Linked
<1>6. QED
  BY <1>3, <1>4, <1>5 DEF CoreInv

LEMMA CurrentAlive ==
  ASSUME CoreInv, ua # <<>>
  PROVE  Current \in Calls /\ Alive(Current) /\ Len(ua) \in 1 .. Len(ua)
<1>1. ua \in Seq(Calls) /\ Len(ua) \in Nat \ {0}
  BY EmptySeq DEF CoreInv, CoreTypeOK
<1>2. QED
  BY <1>1 DEF Current, CoreInv, Linked

LEMMA SelectMinor ==
  ASSUME CoreInv, NEW c \in Calls, SelectCall(c)
  PROVE  CoreInv' /\ Minor /\ UNCHANGED leg
         /\ (Alive(c) => Current' = c) /\ (~ Alive(c) => ua' = ua)
<1>a. UNCHANGED <<leg, next, events>> /\ leg \in [Calls -> Leg]
  BY DEF SelectCall, CoreInv, CoreTypeOK
<1>b. \A d \in Calls : Like(d)
  BY <1>a DEF Like
<1>0. Minor /\ UNCHANGED leg /\ leg' \in [Calls -> Leg]
  BY <1>a, <1>b DEF Minor
<1>1. CASE Alive(c)
  <2>1. LET p == Without(ua, c) IN
          /\ p \in Seq(Calls)
          /\ \A j \in 1 .. Len(p) : p[j] # c /\ \E i \in 1 .. Len(ua) : p[j] = ua[i]
          /\ \A i, j \in 1 .. Len(p) : p[i] = p[j] => i = j
          /\ \A i \in 1 .. Len(ua) : ua[i] # c => \E j \in 1 .. Len(p) : p[j] = ua[i]
    BY Rest
  <2> DEFINE p == Without(ua, c)
  <2>2. ua' = Append(p, c)
    BY <1>1 DEF SelectCall
  <2> HIDE DEF p
  <2>3. /\ ua' \in Seq(Calls) /\ Len(p) \in Nat /\ Len(ua') = Len(p) + 1
        /\ \A i \in 1 .. Len(p) : ua'[i] = p[i]
        /\ ua'[Len(p) + 1] = c
    BY <2>1, <2>2, Appended DEF p
  <2>4. \A i \in 1 .. Len(ua) : ua[i] \in Calls /\ Alive(ua[i])
    BY DEF CoreInv, CoreTypeOK, Linked
  <2>5. \A i \in 1 .. Len(ua') : Alive(ua'[i])
    <3>1. TAKE i \in 1 .. Len(ua')
    <3>2. CASE i \in 1 .. Len(p)
      <4>1. PICK j \in 1 .. Len(ua) : p[i] = ua[j]
        BY <2>1, <3>2 DEF p
      <4>2. QED
        BY <2>3, <2>4, <3>2, <4>1
    <3>3. CASE i = Len(p) + 1
      BY <1>1, <2>3, <3>3
    <3>4. QED
      BY <2>3, <3>2, <3>3
  <2>6. \A i, j \in 1 .. Len(ua') : ua'[i] = ua'[j] => i = j
    <3>1. TAKE i, j \in 1 .. Len(ua')
    <3>2. (i \in 1 .. Len(p) \/ i = Len(p) + 1) /\ (j \in 1 .. Len(p) \/ j = Len(p) + 1)
      BY <2>3
    <3>3. QED
      BY <2>1, <2>3, <3>2 DEF p
  <2>7. \A d \in Calls : Alive(d) => \E i \in 1 .. Len(ua') : ua'[i] = d
    <3>1. SUFFICES ASSUME NEW d \in Calls, Alive(d) PROVE \E i \in 1 .. Len(ua') : ua'[i] = d
      OBVIOUS
    <3>2. CASE d = c
      BY <2>3, <3>2
    <3>3. CASE d # c
      <4>1. PICK i \in 1 .. Len(ua) : ua[i] = d
        BY <3>1 DEF CoreInv, Linked
      <4>2. PICK j \in 1 .. Len(p) : p[j] = d
        BY <2>1, <3>3, <4>1 DEF p
      <4>3. j \in 1 .. Len(ua') /\ ua'[j] = d
        BY <2>3, <4>2
      <4>4. QED
        BY <4>3
    <3>4. QED
      BY <3>2, <3>3
  <2>8. Linked'
    BY <1>0, <2>5, <2>6, <2>7 DEF Linked, Alive
  <2>9. CoreTypeOK' /\ Legs'
    BY <1>0, <2>3 DEF Minor, CoreInv, CoreTypeOK, Legs
  <2>10. Current' = c
    BY <2>3 DEF Current
  <2>11. QED
    BY <1>0, <1>1, <2>8, <2>9, <2>10 DEF CoreInv
<1>2. CASE ~ Alive(c)
  <2>1. UNCHANGED ua
    BY <1>2 DEF SelectCall
  <2>2. QED
    BY <1>0, <1>2, <2>1, MinorInv
<1>3. QED
  BY <1>1, <1>2

\* What a command does to the current call leaves it as far as it was.
LEMMA OnCurrentMinor ==
  ASSUME CoreInv, UNCHANGED <<ua, next, events>>, leg' \in [Calls -> Leg], \A c \in Calls : Like(c)
  PROVE  CoreInv' /\ Minor
BY MinorInv DEF Minor

LEMMA ChangeMinor ==
  ASSUME CoreInv, NEW c \in Calls, NEW l \in Leg, UNCHANGED <<ua, next, events>>,
         leg' = [leg EXCEPT ![c] = l],
         l.dir = leg[c].dir, l.answered = leg[c].answered, l.deflected = leg[c].deflected,
         \/ l.st = leg[c].st
         \/ leg[c].st = "ringing" /\ l.st = "answered"
  PROVE  CoreInv' /\ Minor
<1>1. leg' \in [Calls -> Leg] /\ leg'[c] = l /\ \A d \in Calls \ {c} : leg'[d] = leg[d]
  BY DEF CoreInv, CoreTypeOK
<1>2. \A d \in Calls : Like(d)
  BY <1>1 DEF Like
<1>3. QED
  BY <1>1, <1>2, OnCurrentMinor

LEMMA StillMinor == ASSUME CoreInv, UNCHANGED core PROVE CoreInv' /\ Minor
<1>1. UNCHANGED <<ua, leg, next, events>>
  BY DEF core
<1>2. \A d \in Calls : Like(d)
  BY <1>1 DEF Like
<1>3. QED
  BY <1>1, <1>2, OnCurrentMinor DEF CoreInv, CoreTypeOK

LEMMA PerformKinds ==
  ASSUME CoreInv, NEW cmd \in Commands, NEW c, cmd = "select" => c \in Calls, Perform(cmd, c)
  PROVE  CoreInv' /\ (Minor \/ Begins \/ \E d \in Calls : Closes(d))
<1>0. leg \in [Calls -> Leg]
  BY DEF CoreInv, CoreTypeOK
<1>1. CASE cmd = "select"
  BY <1>1, SelectMinor DEF Perform
<1>2. CASE cmd \in {"hold", "resume", "mute", "transfer", "accept"}
  <2>1. UNCHANGED <<ua, next, events>> /\ (ua = <<>> => leg' = leg)
    BY <1>2 DEF Perform, Hold, Mute, Transfer, Accept, OnCurrent
  <2>2. CASE ua = <<>>
    BY <2>1, <2>2, StillMinor DEF core
  <2>3. CASE ua # <<>>
    <3>1. Current \in Calls /\ leg[Current] \in Leg
      BY <1>0, <2>3, CurrentAlive
    <3> DEFINE cl == leg[Current]
               l == CASE cmd = "hold"     -> [cl EXCEPT !.hold = TRUE]
                      [] cmd = "resume"   -> [cl EXCEPT !.hold = FALSE]
                      [] cmd = "mute"     -> [cl EXCEPT !.mic = ~ @]
                      [] cmd = "transfer" -> [cl EXCEPT !.referred = (cl.st = "up")]
                      [] OTHER -> IF cl.dir = "in" /\ cl.st = "ringing"
                                  THEN [cl EXCEPT !.st = "answered"] ELSE cl
    <3>2. leg' = [leg EXCEPT ![Current] = l]
      <4>1. CASE cmd \in {"hold", "resume"}
        BY <2>3, <4>1 DEF Perform, Hold, OnCurrent
      <4>2. CASE cmd = "mute"
        BY <2>3, <4>2 DEF Perform, Mute, OnCurrent
      <4>3. CASE cmd = "transfer"
        BY <2>3, <4>3 DEF Perform, Transfer, OnCurrent
      <4>4. CASE cmd = "accept"
        BY <2>3, <4>4 DEF Perform, Accept, OnCurrent
      <4>5. QED
        BY <1>2, <4>1, <4>2, <4>3, <4>4
    <3>3. /\ l \in Leg /\ l.dir = cl.dir /\ l.answered = cl.answered /\ l.deflected = cl.deflected
          /\ \/ l.st = cl.st
             \/ cl.st = "ringing" /\ l.st = "answered"
      <4>1. CASE cmd \in {"hold", "resume"}
        BY <4>1, <3>1 DEF Leg
      <4>2. CASE cmd \in {"mute", "transfer"}
        BY <4>2, <3>1 DEF Leg
      <4>3. CASE cmd = "accept"
        BY <4>3, <3>1 DEF Leg
      <4>4. QED
        BY <1>2, <4>1, <4>2, <4>3
    <3> HIDE DEF l
    <3>4. QED
      BY <2>1, <3>1, <3>2, <3>3, ChangeMinor
  <2>4. QED
    BY <2>2, <2>3
<1>3. CASE cmd = "exec"
  <2>1. UNCHANGED <<ua, next, events>>
    BY <1>3 DEF Perform, AttendedTransferExec
  <2>2. CASE Len(ua) < 2
    <3>1. leg' = leg
      BY <1>3, <2>2 DEF Perform, AttendedTransferExec
    <3>2. QED
      BY <2>1, <3>1, StillMinor DEF core
  <2>3. CASE ~ (Len(ua) < 2)
    <3>1. ua \in Seq(Calls) /\ Current \in Calls /\ ua[1] \in Calls
      BY <2>3 DEF CoreInv, CoreTypeOK, Current
    <3>2. leg' = [leg EXCEPT ![Current].referred = TRUE, ![ua[1]].referred = TRUE]
      BY <1>3, <2>3 DEF Perform, AttendedTransferExec
    <3>a. \A d \in Calls : leg[d] \in Leg /\ [leg[d] EXCEPT !.referred = TRUE] \in Leg
      BY <1>0 DEF Leg
    <3>b. \A d \in Calls : leg'[d] = leg[d] \/ leg'[d] = [leg[d] EXCEPT !.referred = TRUE]
      BY <1>0, <3>1, <3>2, <3>a
    <3>c. leg' \in [Calls -> Leg]
      BY <1>0, <3>1, <3>2, <3>a
    <3>d. \A d \in Calls : Like(d)
      <4>1. TAKE d \in Calls
      <4> DEFINE l == leg[d]
      <4>2. leg'[d] = l \/ leg'[d] = [l EXCEPT !.referred = TRUE]
        BY <3>b
      <4>3. l \in Leg
        BY <3>a
      <4>4. /\ leg'[d].dir = l.dir /\ leg'[d].answered = l.answered
            /\ leg'[d].deflected = l.deflected /\ leg'[d].st = l.st
        <5> HIDE DEF l
        <5>1. QED
          BY <4>2, <4>3 DEF Leg
      <4>5. QED
        BY <4>4 DEF Like
    <3>3. leg' \in [Calls -> Leg] /\ \A d \in Calls : Like(d)
      BY <3>c, <3>d
    <3>4. QED
      BY <2>1, <3>3, OnCurrentMinor
  <2>4. QED
    BY <2>2, <2>3
<1>4. CASE cmd = "dial"
  <2>1. NewCall("out") \/ UNCHANGED core
    BY <1>4 DEF Perform, Dial
  <2>2. QED
    BY <2>1, NewCallBegins, StillMinor
<1>5. CASE cmd \in {"hangup", "reject"}
  <2>1. Hangup
    BY <1>5 DEF Perform
  <2>2. CASE ua = <<>>
    BY <2>1, <2>2, StillMinor DEF Hangup
  <2>3. CASE ua # <<>>
    <3>1. Current \in Calls /\ Alive(Current) /\ Close(Current, "closed")
      BY <2>1, <2>3, CurrentAlive DEF Hangup
    <3>2. QED
      BY <3>1, CloseEnds
  <2>4. QED
    BY <2>2, <2>3
<1>6. QED
  BY <1>1, <1>2, <1>3, <1>4, <1>5 DEF Commands

LEMMA AnswerReports ==
  ASSUME CoreInv, NEW c \in Calls, RemoteAnswer(c)
  PROVE  CoreInv' /\ Reports
<1>0. leg \in [Calls -> Leg] /\ leg[c] \in Leg /\ events \in Seq(AppEvent)
  BY DEF CoreInv, CoreTypeOK
<1>1. /\ leg' = [leg EXCEPT ![c].st = "up", ![c].answered = TRUE]
      /\ UNCHANGED <<ua, next>> /\ leg[c].st \in {"ringing", "answered"}
  BY DEF RemoteAnswer
<1>2. /\ leg' \in [Calls -> Leg] /\ leg'[c].st = "up" /\ leg'[c].answered
      /\ leg'[c].deflected = leg[c].deflected /\ leg'[c].dir = leg[c].dir
      /\ \A d \in Calls \ {c} : leg'[d] = leg[d]
  BY <1>0, <1>1 DEF Leg
<1>3. [type |-> "established", call |-> c] \in AppEvent
  BY DEF AppEvent
<1>4. EventPushes([type |-> "established", call |-> c])
  BY <1>0, <1>3, EventPushed DEF RemoteAnswer, Emit
<1>5. \A d \in Calls : Alive(d)' <=> Alive(d)
  BY <1>1, <1>2 DEF Alive
<1>6. Reports
  BY <1>1, <1>2, <1>4, <1>5 DEF Reports, Alive
<1>7. CoreTypeOK'
  BY <1>1, <1>2, <1>4 DEF CoreInv, CoreTypeOK, EventPushes
<1>8. Legs'
  BY <1>1, <1>2 DEF CoreInv, Legs
<1>9. Linked'
  <2>1. \A i \in 1 .. Len(ua) : ua[i] \in Calls
    BY DEF CoreInv, CoreTypeOK
  <2>2. QED
    BY <1>1, <1>5, <2>1 DEF CoreInv, Linked
<1>10. QED
  BY <1>6, <1>7, <1>8, <1>9 DEF CoreInv

LEMMA HoldReports ==
  ASSUME CoreInv, NEW c \in Calls, NEW type \in {"held", "resumed"}, RemoteHold(c, type)
  PROVE  CoreInv' /\ Reports
<1>1. UNCHANGED <<ua, leg, next>> /\ Alive(c) /\ Alive(c)'
  BY DEF RemoteHold, Alive
<1>2. [type |-> type, call |-> c] \in AppEvent
  BY DEF AppEvent
<1>3. EventPushes([type |-> type, call |-> c])
  BY <1>2, EventPushed DEF RemoteHold, Emit, CoreInv, CoreTypeOK
<1>4. Reports
  BY <1>1, <1>3 DEF Reports
<1>5. CoreInv'
  BY <1>1, <1>3 DEF CoreInv, CoreTypeOK, Legs, Linked, EventPushes, Alive
<1>6. QED
  BY <1>4, <1>5

LEMMA NetworkKinds ==
  ASSUME CoreInv, Network
  PROVE  CoreInv' /\ (Begins \/ Reports \/ \E d \in Calls : Closes(d))
<1>1. CASE RemoteInvite
  BY <1>1, NewCallBegins DEF RemoteInvite
<1>2. ASSUME NEW c \in Calls, RemoteAnswer(c) PROVE CoreInv' /\ Reports
  BY <1>2, AnswerReports
<1>3. ASSUME NEW c \in Calls, RemoteHangup(c) PROVE CoreInv' /\ Closes(c)
  BY <1>3, CloseEnds DEF RemoteHangup
<1>4. ASSUME NEW c \in Calls, RemoteTransferred(c) PROVE CoreInv' /\ Closes(c)
  BY <1>4, CloseEnds DEF RemoteTransferred, Alive
<1>5. ASSUME NEW c \in Calls, NEW type \in {"held", "resumed"}, RemoteHold(c, type)
      PROVE  CoreInv' /\ Reports
  BY <1>5, HoldReports
<1>6. QED
  BY <1>1, <1>2, <1>3, <1>4, <1>5 DEF Network

-----------------------------------------------------------------------------
(* The channel between baresip and the screen.                             *)

LEMMA CallsPassed ==
  ASSUME CoreInv
  PROVE  next \in Nat /\ 1 .. next - 1 \subseteq Calls /\ \A c \in Calls : c \in Nat /\ (c < next <=> c \in 1 .. next - 1)
BY CoreCallsAssumption DEF CoreInv, CoreTypeOK, Calls

\* A new event is the last one waiting.
LEMMA PushTells ==
  ASSUME NEW d, NEW type, EventPushes([type |-> type, call |-> d])
  PROVE  \A c : /\ Waiting(c)' <=> Waiting(c) \/ c = d
                /\ Opening(c)' <=> Opening(c) \/ (c = d /\ type \in {"incoming", "outgoing"})
                /\ Closing(c)' <=> Closing(c) \/ (c = d /\ type \in {"closed", "transferred"})
                /\ Told(c)' <=> Told(c) \/ (c = d /\ type = "established")
<1> DEFINE e == [type |-> type, call |-> d]
<1>1. \A i \in 1 .. Len(events) : i \in 1 .. Len(events') /\ events'[i] = events[i]
  BY DEF EventPushes
<1>2. Len(events') \in 1 .. Len(events') /\ events'[Len(events')].type = type /\ events'[Len(events')].call = d
  BY DEF EventPushes
<1>3. \A i \in 1 .. Len(events') : \/ i \in 1 .. Len(events) /\ events'[i] = events[i]
                                   \/ events'[i].type = type /\ events'[i].call = d
  BY <1>2 DEF EventPushes
<1>4. TAKE c
<1>5. Waiting(c)' <=> Waiting(c) \/ c = d
  BY <1>1, <1>2, <1>3 DEF Waiting
<1>6. Opening(c)' <=> Opening(c) \/ (c = d /\ type \in {"incoming", "outgoing"})
  BY <1>1, <1>2, <1>3 DEF Opening, OpenAt
<1>7. Closing(c)' <=> Closing(c) \/ (c = d /\ type \in {"closed", "transferred"})
  BY <1>1, <1>2, <1>3 DEF Closing, CloseAt
<1>8. Told(c)' <=> Told(c) \/ (c = d /\ type = "established")
  BY <1>1, <1>2, <1>3 DEF Told
<1>9. QED
  BY <1>5, <1>6, <1>7, <1>8

LEMMA OrderPushed ==
  ASSUME CoreInv, Ordered, NEW d, NEW type, EventPushes([type |-> type, call |-> d]),
         next' \in Nat, next <= next', d \in 1 .. next' - 1,
         type \in {"incoming", "outgoing"} => ~ Waiting(d),
         ~ Closing(d),
         \A c \in Calls : /\ leg[c].st = "gone" => leg'[c].st = "gone"
                          /\ leg[c].answered => leg'[c].answered,
         type \in {"closed", "transferred"} => leg'[d].st = "gone",
         type = "established" => leg'[d].answered
  PROVE  Ordered'
<1>1. \A i \in 1 .. Len(events') : \/ i \in 1 .. Len(events) /\ events'[i] = events[i]
                                   \/ /\ i = Len(events') /\ \A j \in 1 .. Len(events) : j < i
                                      /\ events'[i].type = type /\ events'[i].call = d
  BY DEF EventPushes
<1>2. \A i \in 1 .. Len(events') : events'[i].call \in 1 .. next' - 1
  <2>1. \A i \in 1 .. Len(events) : events[i].call \in 1 .. next' - 1
    BY CallsPassed DEF Ordered
  <2>2. QED
    BY <1>1, <2>1
<1>3. ASSUME NEW i \in 1 .. Len(events'), NEW j \in 1 .. Len(events'), i # j, events'[i].call = events'[j].call
      PROVE  (OpenAt(i)' => i < j) /\ (CloseAt(i)' => j < i)
  <2>1. CASE /\ i \in 1 .. Len(events) /\ events'[i] = events[i]
             /\ j \in 1 .. Len(events) /\ events'[j] = events[j]
    BY <1>3, <2>1 DEF Ordered, OpenAt, CloseAt
  <2>2. CASE /\ i \in 1 .. Len(events) /\ events'[i] = events[i]
             /\ \A k \in 1 .. Len(events) : k < j
             /\ events'[j].type = type /\ events'[j].call = d
    <3>1. ~ CloseAt(i)'
      BY <1>3, <2>2 DEF Closing, CloseAt
    <3>2. QED
      BY <2>2, <3>1
  <2>3. CASE /\ j \in 1 .. Len(events) /\ events'[j] = events[j]
             /\ \A k \in 1 .. Len(events) : k < i
             /\ events'[i].type = type /\ events'[i].call = d
    <3>1. ~ OpenAt(i)'
      BY <1>3, <2>3 DEF Waiting, OpenAt
    <3>2. QED
      BY <2>3, <3>1
  <2>4. QED
    BY <1>1, <1>3, <2>1, <2>2, <2>3
<1>4. ASSUME NEW c \in Calls PROVE (Closing(c)' => leg'[c].st = "gone") /\ (Told(c)' => leg'[c].answered)
  BY PushTells DEF Ordered
<1>5. QED
  BY <1>2, <1>3, <1>4 DEF Ordered

\* Of a call that the first event opens nothing else opens, and of one that it
\* closes nothing waits.
LEMMA PopTells ==
  ASSUME CoreInv, Ordered, NEW h, h = Head(events), EventPops, UNCHANGED <<leg, next>>
  PROVE  /\ Ordered' /\ h.call \in Calls /\ h.call < next
         /\ Waiting(h.call)
         /\ \A c : c # h.call =>
              /\ Waiting(c)' <=> Waiting(c)
              /\ Opening(c)' <=> Opening(c)
              /\ Closing(c)' <=> Closing(c)
              /\ Told(c)' <=> Told(c)
         /\ ~ Opening(h.call)'
         /\ h.type \in {"incoming", "outgoing"} =>
                   Opening(h.call) /\ (Closing(h.call)' <=> Closing(h.call)) /\ (Told(h.call)' <=> Told(h.call))
         /\ h.type \in {"closed", "transferred"} => Closing(h.call) /\ ~ Waiting(h.call)' /\ ~ Told(h.call)
                                                         /\ ~ Opening(h.call)
         /\ h.type \in {"established", "held", "resumed"} =>
                   (Closing(h.call)' <=> Closing(h.call)) /\ ~ Opening(h.call)
         /\ h.type = "established" => Told(h.call)
         /\ h.type \in {"held", "resumed"} => (Told(h.call)' <=> Told(h.call))
<1>1. /\ h = events[1] /\ 1 \in 1 .. Len(events) /\ h \in AppEvent
      /\ \A i \in 1 .. Len(events') : i + 1 \in 1 .. Len(events) /\ i + 1 # 1 /\ events'[i] = events[i + 1]
      /\ \A i \in 1 .. Len(events) : i # 1 => i - 1 \in 1 .. Len(events') /\ events'[i - 1] = events[i]
  BY DEF EventPops
<1>2. ASSUME NEW c
      PROVE  /\ Waiting(c)' => \E i \in 1 .. Len(events) : i # 1 /\ events[i].call = c
             /\ Opening(c)' => \E i \in 1 .. Len(events) : i # 1 /\ events[i].call = c /\ OpenAt(i)
             /\ Closing(c)' => \E i \in 1 .. Len(events) : i # 1 /\ events[i].call = c /\ CloseAt(i)
             /\ Told(c)' => \E i \in 1 .. Len(events) : i # 1 /\ events[i].call = c /\ events[i].type = "established"
  <2>1. Waiting(c)' => \E i \in 1 .. Len(events) : i # 1 /\ events[i].call = c
    <3>1. SUFFICES ASSUME NEW j \in 1 .. Len(events'), events'[j].call = c
                   PROVE  \E i \in 1 .. Len(events) : i # 1 /\ events[i].call = c
      BY DEF Waiting
    <3>2. j + 1 \in 1 .. Len(events) /\ j + 1 # 1 /\ events[j + 1].call = c
      BY <1>1, <3>1
    <3>3. QED
      BY <3>2
  <2>2. Opening(c)' => \E i \in 1 .. Len(events) : i # 1 /\ events[i].call = c /\ OpenAt(i)
    BY <1>1 DEF Opening, OpenAt
  <2>3. Closing(c)' => \E i \in 1 .. Len(events) : i # 1 /\ events[i].call = c /\ CloseAt(i)
    BY <1>1 DEF Closing, CloseAt
  <2>4. Told(c)' => \E i \in 1 .. Len(events) : i # 1 /\ events[i].call = c /\ events[i].type = "established"
    BY <1>1 DEF Told
  <2>5. QED
    BY <2>1, <2>2, <2>3, <2>4
<1>3. ASSUME NEW c, NEW i \in 1 .. Len(events), i # 1, events[i].call = c
      PROVE  /\ Waiting(c)'
             /\ OpenAt(i) => Opening(c)'
             /\ CloseAt(i) => Closing(c)'
             /\ events[i].type = "established" => Told(c)'
  <2>1. i - 1 \in 1 .. Len(events') /\ events'[i - 1] = events[i]
    BY <1>1, <1>3
  <2>2. Waiting(c)'
    BY <1>3, <2>1 DEF Waiting
  <2>3. OpenAt(i) => Opening(c)'
    BY <1>3, <2>1 DEF Opening, OpenAt
  <2>4. CloseAt(i) => Closing(c)'
    BY <1>3, <2>1 DEF Closing, CloseAt
  <2>5. events[i].type = "established" => Told(c)'
    BY <1>3, <2>1 DEF Told
  <2>6. QED
    BY <2>2, <2>3, <2>4, <2>5
<1>4. h.call \in Calls /\ h.call < next /\ Waiting(h.call)
  BY <1>1, CallsPassed DEF Ordered, Waiting
<1>5. \A c : c # h.call => /\ Waiting(c)' <=> Waiting(c)
                           /\ Opening(c)' <=> Opening(c)
                           /\ Closing(c)' <=> Closing(c)
                           /\ Told(c)' <=> Told(c)
  <2>1. TAKE c
  <2>2. Waiting(c)' => Waiting(c)
    <3>1. Waiting(c)' => \E i \in 1 .. Len(events) : events[i].call = c
      BY <1>2
    <3>2. QED
      BY <3>1 DEF Waiting
  <2>3. Opening(c)' => Opening(c)
    <3>1. Opening(c)' => \E i \in 1 .. Len(events) : events[i].call = c /\ OpenAt(i)
      BY <1>2
    <3>2. QED
      BY <3>1 DEF Opening
  <2>4. Closing(c)' => Closing(c)
    <3>1. Closing(c)' => \E i \in 1 .. Len(events) : events[i].call = c /\ CloseAt(i)
      BY <1>2
    <3>2. QED
      BY <3>1 DEF Closing
  <2>5. Told(c)' => Told(c)
    <3>1. Told(c)' => \E i \in 1 .. Len(events) : events[i].call = c /\ events[i].type = "established"
      BY <1>2
    <3>2. QED
      BY <3>1 DEF Told
  <2>6. ASSUME c # h.call PROVE Waiting(c) => Waiting(c)'
    BY <1>1, <1>3, <2>6 DEF Waiting
  <2>7. ASSUME c # h.call PROVE Opening(c) => Opening(c)'
    BY <1>1, <1>3, <2>7 DEF Opening
  <2>8. ASSUME c # h.call PROVE Closing(c) => Closing(c)'
    BY <1>1, <1>3, <2>8 DEF Closing
  <2>9. ASSUME c # h.call PROVE Told(c) => Told(c)'
    BY <1>1, <1>3, <2>9 DEF Told
  <2>10. QED
    BY <2>2, <2>3, <2>4, <2>5, <2>6, <2>7, <2>8, <2>9
<1>6. \A i \in 1 .. Len(events) : i # 1 => i > 1 /\ ~ (i < 1)
  OBVIOUS
<1>7. \A i \in 1 .. Len(events) : i # 1 /\ events[i].call = h.call => ~ OpenAt(i) /\ ~ CloseAt(1)
  BY <1>1, <1>6 DEF Ordered
<1>8. ~ Opening(h.call)'
  BY <1>2, <1>7
<1>9. ASSUME h.type \in {"incoming", "outgoing"}
      PROVE  Opening(h.call) /\ (Closing(h.call)' <=> Closing(h.call)) /\ (Told(h.call)' <=> Told(h.call))
  <2>1. OpenAt(1) /\ ~ CloseAt(1) /\ events[1].type # "established"
    BY <1>1, <1>9 DEF OpenAt, CloseAt
  <2>2. Opening(h.call)
    BY <1>1, <2>1 DEF Opening
  <2>3. Closing(h.call) => Closing(h.call)'
    BY <1>3, <2>1 DEF Closing
  <2>4. Told(h.call) => Told(h.call)'
    BY <1>3, <2>1 DEF Told
  <2>5. (Closing(h.call)' => Closing(h.call)) /\ (Told(h.call)' => Told(h.call))
    BY <1>2 DEF Closing, Told
  <2>6. QED
    BY <2>2, <2>3, <2>4, <2>5
<1>10. ASSUME h.type \in {"closed", "transferred"}
       PROVE  Closing(h.call) /\ ~ Waiting(h.call)' /\ ~ Told(h.call) /\ ~ Opening(h.call)
  <2>1. CloseAt(1) /\ ~ OpenAt(1) /\ events[1].type # "established"
    BY <1>1, <1>10 DEF OpenAt, CloseAt
  <2>2. \A i \in 1 .. Len(events) : events[i].call = h.call => i = 1
    BY <1>7, <2>1
  <2>3. ~ Waiting(h.call)'
    BY <1>2, <2>2
  <2>4. QED
    BY <1>1, <2>1, <2>2, <2>3 DEF Closing, Told, Opening
<1>11. ASSUME h.type \in {"established", "held", "resumed"}
       PROVE  (Closing(h.call)' <=> Closing(h.call)) /\ ~ Opening(h.call)
  <2>1. ~ CloseAt(1) /\ ~ OpenAt(1)
    BY <1>1, <1>11 DEF OpenAt, CloseAt
  <2>2. Closing(h.call) => Closing(h.call)'
    BY <1>3, <2>1 DEF Closing
  <2>3. Closing(h.call)' => Closing(h.call)
    BY <1>2 DEF Closing
  <2>4. ~ Opening(h.call)
    BY <1>7, <2>1 DEF Opening
  <2>5. QED
    BY <2>2, <2>3, <2>4
<1>12. h.type = "established" => Told(h.call)
  BY <1>1 DEF Told
<1>13. ASSUME h.type \in {"held", "resumed"} PROVE Told(h.call)' <=> Told(h.call)
  <2>1. Told(h.call) => Told(h.call)'
    BY <1>1, <1>3, <1>13 DEF Told
  <2>2. Told(h.call)' => Told(h.call)
    BY <1>2 DEF Told
  <2>3. QED
    BY <2>1, <2>2
<1>14. Ordered'
  <2>1. \A i \in 1 .. Len(events') : events'[i].call \in 1 .. next' - 1
    BY <1>1 DEF Ordered
  <2>2. \A i, j \in 1 .. Len(events') : i # j /\ events'[i].call = events'[j].call =>
          (OpenAt(i)' => i < j) /\ (CloseAt(i)' => j < i)
    <3>1. TAKE i, j \in 1 .. Len(events')
    <3>2. i \in Nat /\ j \in Nat
      OBVIOUS
    <3>3. i # j /\ events'[i].call = events'[j].call =>
            (OpenAt(i + 1) => i + 1 < j + 1) /\ (CloseAt(i + 1) => j + 1 < i + 1)
      <4>1. /\ i + 1 \in 1 .. Len(events) /\ j + 1 \in 1 .. Len(events)
            /\ events'[i] = events[i + 1] /\ events'[j] = events[j + 1]
        BY <1>1
      <4>2. i # j => i + 1 # j + 1
        BY <3>2
      <4>3. QED
        BY <4>1, <4>2 DEF Ordered
    <3>4. events'[i] = events[i + 1]
      BY <1>1
    <3>5. (OpenAt(i)' <=> OpenAt(i + 1)) /\ (CloseAt(i)' <=> CloseAt(i + 1))
      BY <3>4 DEF OpenAt, CloseAt
    <3>6. (i + 1 < j + 1 => i < j) /\ (j + 1 < i + 1 => j < i)
      BY <3>2
    <3>7. QED
      BY <3>3, <3>5, <3>6
  <2>3. \A c \in Calls : (Closing(c)' => leg'[c].st = "gone") /\ (Told(c)' => leg'[c].answered)
    <3>1. TAKE c \in Calls
    <3>2. /\ Closing(c)' => \E i \in 1 .. Len(events) : events[i].call = c /\ CloseAt(i)
          /\ Told(c)' => \E i \in 1 .. Len(events) : events[i].call = c /\ events[i].type = "established"
      BY <1>2
    <3>3. (Closing(c)' => Closing(c)) /\ (Told(c)' => Told(c))
      BY <3>2 DEF Closing, Told
    <3>4. QED
      BY <3>3 DEF Ordered
  <2>4. QED
    BY <2>1, <2>2, <2>3 DEF Ordered
<1>15. QED
  BY <1>4, <1>5, <1>8, <1>9, <1>10, <1>11, <1>12, <1>13, <1>14

-----------------------------------------------------------------------------
(* What the screen shows, while its events wait.                           *)

\* A key changes what is shown of the calls, not which there are.
Relabel ==
  /\ Len(calls') = Len(calls)
  /\ \A i \in 1 .. Len(calls) :
       /\ calls'[i].id = calls[i].id /\ calls'[i].started = calls[i].started
       /\ calls'[i].declined \in {calls[i].declined, "Rejected"}

LEMMA ShownAgain ==
  ASSUME Len(calls') = Len(calls), \A i \in 1 .. Len(calls) : calls'[i].id = calls[i].id
  PROVE  \A c : Shown(c)' <=> Shown(c)
BY DEF Shown

LEMMA MinorKeeps ==
  ASSUME CoreInv, SessionInv, Minor, Relabel, UNCHANGED report
  PROVE  SessionInv'
<1>1. \A c : Shown(c)' <=> Shown(c)
  BY ShownAgain DEF Relabel
<1>2. UNCHANGED <<events, next>>
  BY DEF Minor
<1>3. \A c \in Calls : /\ leg'[c].answered = leg[c].answered /\ leg'[c].deflected = leg[c].deflected
                       /\ leg'[c].st = "gone" <=> leg[c].st = "gone"
  BY DEF Minor, Like
<1>4. \A c : /\ Waiting(c)' <=> Waiting(c)
             /\ Opening(c)' <=> Opening(c)
             /\ Closing(c)' <=> Closing(c)
             /\ Told(c)' <=> Told(c)
  BY <1>2 DEF Waiting, Opening, Closing, Told, OpenAt, CloseAt
<1>5. Ordered'
  BY <1>2, <1>3, <1>4 DEF SessionInv, Ordered, OpenAt, CloseAt
<1>6. Followed'
  <2>1. /\ \A i \in 1 .. Len(calls') : calls'[i].id \in 1 .. next' - 1
        /\ \A i, j \in 1 .. Len(calls') : calls'[i].id = calls'[j].id => i = j
    BY <1>2 DEF SessionInv, Followed, Relabel
  <2>2. QED
    BY <1>1, <1>2, <1>3, <1>4, <2>1 DEF SessionInv, Followed
<1>7. Noted'
  <2>1. ASSUME NEW i \in 1 .. Len(calls')
        PROVE  /\ calls'[i].started => leg'[calls'[i].id].answered
               /\ leg'[calls'[i].id].answered => calls'[i].started \/ Told(calls[i].id)'
               /\ calls'[i].declined = "Deflected" => leg'[calls'[i].id].deflected
               /\ leg'[calls'[i].id].deflected => calls'[i].declined # "no"
    <3>1. /\ i \in 1 .. Len(calls)
          /\ calls'[i].id = calls[i].id /\ calls'[i].started = calls[i].started
          /\ calls'[i].declined \in {calls[i].declined, "Rejected"} /\ calls[i].id \in Calls
      BY CallsPassed DEF Relabel, SessionInv, Followed
    <3>2. PICK c \in Calls : c = calls[i].id
      BY <3>1
    <3>3. Told(c)' <=> Told(c)
      BY <1>4
    <3>4. Told(calls[i].id)' <=> Told(c)'
      BY <3>1, <3>2 DEF Told
    <3>5. QED
      BY <1>3, <3>1, <3>2, <3>3, <3>4 DEF SessionInv, Noted
  <2>2. QED
    BY <1>1, <1>3, <1>4, <2>1 DEF SessionInv, Noted
<1>8. QED
  BY <1>5, <1>6, <1>7 DEF SessionInv

LEMMA BeginsKeeps ==
  ASSUME CoreInv, SessionInv, Begins, UNCHANGED <<calls, report>>
  PROVE  SessionInv'
<1>1. PICK type \in {"incoming", "outgoing"} : EventPushes([type |-> type, call |-> next])
  BY DEF Begins
<1>2. PICK d \in Calls : d = next
  BY DEF Begins
<1>3. /\ d \in Nat /\ next = d /\ next' = d + 1 /\ EventPushes([type |-> type, call |-> d])
      /\ \A c \in Calls : c # d => leg'[c] = leg[c]
      /\ leg[d].st = "new" /\ leg'[d].st = "ringing" /\ ~ leg'[d].answered /\ ~ leg'[d].deflected
  BY <1>1, <1>2, CallsPassed DEF Begins, CoreInv, Legs
<1>4. ~ Waiting(d) /\ ~ Closing(d) /\ ~ Shown(d) /\ ~ Opening(d) /\ ~ Told(d)
  BY <1>3 DEF SessionInv, Ordered, Followed, Waiting, Closing, Shown, Opening, Told
<1>5. report[d] = "none"
  BY <1>3 DEF SessionInv, Followed
<1>6. \A c : /\ Waiting(c)' <=> Waiting(c) \/ c = d
             /\ Opening(c)' <=> Opening(c) \/ c = d
             /\ Closing(c)' <=> Closing(c)
             /\ Told(c)' <=> Told(c)
             /\ Shown(c)' <=> Shown(c)
  BY <1>3, PushTells, ShownAgain
<1>7. Ordered'
  <2>1. next' \in Nat /\ next <= next' /\ d \in 1 .. next' - 1
    BY <1>3 DEF Calls
  <2>2. \A c \in Calls : /\ leg[c].st = "gone" => leg'[c].st = "gone"
                         /\ leg[c].answered => leg'[c].answered
    BY <1>3 DEF CoreInv, Legs
  <2>3. QED
    BY <1>3, <1>4, <2>1, <2>2, OrderPushed DEF SessionInv
<1>8. Followed'
  <2>1. \A i \in 1 .. Len(calls) : calls[i].id \in 1 .. next' - 1
    BY <1>3 DEF SessionInv, Followed
  <2>2. \A c \in Calls : c < next' /\ c # d => c < next
    BY <1>3 DEF Calls
  <2>3. QED
    BY <1>3, <1>4, <1>5, <1>6, <2>1, <2>2 DEF SessionInv, Followed
<1>9. Noted'
  <2>1. \A i \in 1 .. Len(calls) : calls[i].id # d /\ calls[i].id \in Calls
    BY <1>4, CallsPassed DEF SessionInv, Followed, Shown
  <2>2. QED
    BY <1>3, <1>4, <1>5, <1>6, <2>1 DEF SessionInv, Noted
<1>10. QED
  BY <1>7, <1>8, <1>9 DEF SessionInv

\* The end of a call, whether the screen declined it or not.
LEMMA EndsKeep ==
  ASSUME CoreInv, SessionInv, NEW d, Ends(d), UNCHANGED report, Len(calls') = Len(calls),
         \A i \in 1 .. Len(calls) :
           /\ calls'[i].id = calls[i].id /\ calls'[i].started = calls[i].started
           /\ calls[i].id # d => calls'[i].declined = calls[i].declined,
         \/ leg'[d].deflected = leg[d].deflected /\ \A i \in 1 .. Len(calls) : calls'[i] = calls[i]
         \/ /\ leg'[d].deflected /\ Shown(d)
            /\ \A i \in 1 .. Len(calls) : calls[i].id = d => calls'[i].declined = "Deflected"
  PROVE  SessionInv'
<1>1. /\ d \in Calls /\ Alive(d) /\ next' = next /\ leg'[d].st = "gone"
      /\ leg'[d].answered = leg[d].answered
      /\ \A c \in Calls : c # d => leg'[c] = leg[c]
  BY DEF Ends
<1>2. PICK type \in {"closed", "transferred"} : EventPushes([type |-> type, call |-> d])
  BY DEF Ends
<1>3. \A c : /\ Waiting(c)' <=> Waiting(c) \/ c = d
             /\ Opening(c)' <=> Opening(c)
             /\ Closing(c)' <=> Closing(c) \/ c = d
             /\ Told(c)' <=> Told(c)
             /\ Shown(c)' <=> Shown(c)
  BY <1>2, PushTells, ShownAgain
<1>4. ~ Closing(d) /\ report[d] = "none" /\ leg[d].st # "gone" /\ d < next /\ next \in Nat
  <2>1. leg[d].st # "gone" /\ leg[d].st # "new"
    BY <1>1 DEF Alive
  <2>2. QED
    BY <1>1, <2>1, CallsPassed DEF SessionInv, Ordered, Followed, CoreInv, Legs, Calls
<1>5. Ordered'
  <2>1. next' \in Nat /\ next <= next' /\ d \in 1 .. next' - 1
    BY <1>1, <1>4, CallsPassed
  <2>2. \A c \in Calls : /\ leg[c].st = "gone" => leg'[c].st = "gone"
                         /\ leg[c].answered => leg'[c].answered
    BY <1>1
  <2>3. QED
    BY <1>1, <1>2, <1>4, <2>1, <2>2, OrderPushed DEF SessionInv
<1>6. Followed'
  <2>1. /\ \A i \in 1 .. Len(calls') : calls'[i].id \in 1 .. next' - 1
        /\ \A i, j \in 1 .. Len(calls') : calls'[i].id = calls'[j].id => i = j
    <3>1. /\ \A i \in 1 .. Len(calls) : calls[i].id \in 1 .. next - 1
          /\ \A i, j \in 1 .. Len(calls) : calls[i].id = calls[j].id => i = j
      BY DEF SessionInv, Followed
    <3>2. \A i \in 1 .. Len(calls') : i \in 1 .. Len(calls) /\ calls'[i].id = calls[i].id
      OBVIOUS
    <3>3. next' = next
      BY <1>1
    <3>4. QED
      BY <3>1, <3>2, <3>3
  <2>2. QED
    BY <1>1, <1>3, <1>4, <2>1 DEF SessionInv, Followed
<1>7. Noted'
  <2>1. ASSUME NEW i \in 1 .. Len(calls')
        PROVE  /\ calls'[i].started => leg'[calls'[i].id].answered
               /\ leg'[calls'[i].id].answered => calls'[i].started \/ Told(calls[i].id)'
               /\ calls'[i].declined = "Deflected" => leg'[calls'[i].id].deflected
               /\ leg'[calls'[i].id].deflected => calls'[i].declined # "no"
    <3>1. /\ i \in 1 .. Len(calls) /\ calls[i].id \in Calls
          /\ calls'[i].id = calls[i].id /\ calls'[i].started = calls[i].started
          /\ calls[i].id # d => calls'[i].declined = calls[i].declined
      BY CallsPassed DEF SessionInv, Followed
    <3>2. PICK c \in Calls : c = calls[i].id
      BY <3>1
    <3>3. Told(calls[i].id)' <=> Told(c)
      <4>1. Told(calls[i].id)' <=> Told(c)'
        BY <3>1, <3>2 DEF Told
      <4>2. QED
        BY <1>3, <4>1
    <3>4. /\ calls[i].started => leg[c].answered
          /\ leg[c].answered => calls[i].started \/ Told(c)
          /\ calls[i].declined = "Deflected" => leg[c].deflected
          /\ leg[c].deflected => calls[i].declined # "no"
      BY <3>1, <3>2 DEF SessionInv, Noted
    <3>5. QED
      BY <1>1, <3>1, <3>2, <3>3, <3>4
  <2>2. \A c \in Calls : /\ report[c] = "none" /\ leg'[c].deflected => Shown(c)
                         /\ report[c] = "none" /\ leg'[c].answered /\ ~ Shown(c) => Told(c)
                         /\ report[c] # "none" => c # d
    BY <1>1, <1>4 DEF SessionInv, Noted
  <2>3. QED
    BY <1>1, <1>3, <2>1, <2>2 DEF SessionInv, Noted
<1>8. QED
  BY <1>5, <1>6, <1>7 DEF SessionInv

LEMMA ReportsKeep ==
  ASSUME CoreInv, SessionInv, Reports, UNCHANGED <<calls, report>>
  PROVE  SessionInv'
<1>1. PICK d \in Calls, type \in {"established", "held", "resumed"} :
         /\ Alive(d) /\ Alive(d)'
         /\ EventPushes([type |-> type, call |-> d])
         /\ type = "established" => leg'[d].answered
         /\ type # "established" => leg'[d].answered = leg[d].answered
         /\ leg[d].answered => leg'[d].answered
         /\ leg'[d].deflected = leg[d].deflected /\ leg'[d].dir = leg[d].dir
         /\ \A c \in Calls \ {d} : leg'[c] = leg[c]
  BY DEF Reports
<1>2. \A c : /\ Waiting(c)' <=> Waiting(c) \/ c = d
             /\ Opening(c)' <=> Opening(c)
             /\ Closing(c)' <=> Closing(c)
             /\ Told(c)' <=> Told(c) \/ (c = d /\ type = "established")
             /\ Shown(c)' <=> Shown(c)
  BY <1>1, PushTells, ShownAgain
<1>3. next' = next /\ next \in Nat /\ leg[d].st # "gone" /\ leg'[d].st # "gone" /\ d < next
  <2>1. leg[d].st # "gone" /\ leg'[d].st # "gone" /\ leg[d].st # "new"
    BY <1>1 DEF Alive
  <2>2. QED
    BY <2>1, CallsPassed DEF Reports, CoreInv, Legs, Calls
<1>4. ~ Closing(d) /\ report[d] = "none"
  BY <1>3 DEF SessionInv, Ordered, Followed
<1>5. Ordered'
  <2>1. next' \in Nat /\ next <= next' /\ d \in 1 .. next' - 1
    BY <1>3, CallsPassed
  <2>2. \A c \in Calls : /\ leg[c].st = "gone" => leg'[c].st = "gone"
                         /\ leg[c].answered => leg'[c].answered
    BY <1>1, <1>3
  <2>3. QED
    BY <1>1, <1>4, <2>1, <2>2, OrderPushed DEF SessionInv
<1>6. Followed'
  BY <1>1, <1>2, <1>3, <1>4 DEF SessionInv, Followed
<1>7. Noted'
  <2>1. \A i \in 1 .. Len(calls) : calls[i].id \in Calls
    BY CallsPassed DEF SessionInv, Followed
  <2>2. \A c \in Calls : /\ leg[c].answered => leg'[c].answered
                         /\ leg'[c].answered /\ ~ leg[c].answered => Told(c)'
                         /\ leg'[c].deflected = leg[c].deflected
                         /\ report[c] # "none" => leg'[c] = leg[c]
    BY <1>1, <1>2, <1>4
  <2>3. QED
    BY <1>2, <2>1, <2>2 DEF SessionInv, Noted
<1>8. QED
  BY <1>5, <1>6, <1>7 DEF SessionInv

\* The screen takes the first event of the channel.
LEMMA TakePops ==
  ASSUME CoreInv, NEW types, Take(types)
  PROVE  /\ CoreInv' /\ EventPops /\ UNCHANGED <<ua, leg, next, keys>> /\ todo = <<>>
         /\ Head(events).type \in types /\ Head(events) \in AppEvent
<1>1. events \in Seq(AppEvent) /\ events # <<>> /\ events' = Tail(events) /\ UNCHANGED <<ua, leg, next, keys>>
  BY DEF Take, CoreInv, CoreTypeOK
<1>2. EventPops
  BY <1>1, EventPopped
<1>3. CoreInv'
  BY <1>1, <1>2 DEF EventPops, CoreInv, CoreTypeOK, Legs, Linked, Alive
<1>4. QED
  BY <1>1, <1>2, <1>3 DEF Take, Free, EventPops

LEMMA OpenKeeps ==
  ASSUME CoreInv, SessionInv, Screen, EventPops, UNCHANGED <<leg, next, report>>,
         Head(events).type \in {"incoming", "outgoing"},
         calls' = Append(calls, NewEntry(Head(events).call))
  PROVE  SessionInv' /\ calls' \in Seq(Call) /\ calls' # <<>> /\ Len(calls') \in Nat \ {0}
<1>1. PICK h \in AppEvent : h = Head(events)
  BY DEF EventPops
<1> DEFINE e == NewEntry(h.call)
<1>2. /\ Ordered' /\ h.call \in Calls /\ h.call < next /\ Waiting(h.call)
      /\ \A c : c # h.call => /\ Waiting(c)' <=> Waiting(c)
                              /\ Opening(c)' <=> Opening(c)
                              /\ Closing(c)' <=> Closing(c)
                              /\ Told(c)' <=> Told(c)
      /\ ~ Opening(h.call)' /\ Opening(h.call)
      /\ Closing(h.call)' <=> Closing(h.call)
      /\ Told(h.call)' <=> Told(h.call)
  BY <1>1, PopTells DEF SessionInv
<1>3. e \in Call /\ e.id = h.call /\ ~ e.started /\ e.declined = "no"
  BY <1>2 DEF NewEntry, Call
<1> HIDE DEF e
<1>4. /\ calls' \in Seq(Call) /\ Len(calls) \in Nat /\ Len(calls') = Len(calls) + 1
      /\ \A i \in 1 .. Len(calls) : calls'[i] = calls[i]
      /\ calls'[Len(calls) + 1] = e
  BY <1>1, <1>3, Appended DEF Screen, e
<1>5. /\ \A i \in 1 .. Len(calls') : \/ i \in 1 .. Len(calls) /\ calls'[i] = calls[i]
                                     \/ i = Len(calls') /\ calls'[i] = e
      /\ \A i \in 1 .. Len(calls) : i \in 1 .. Len(calls') /\ calls'[i] = calls[i]
      /\ Len(calls') \in 1 .. Len(calls') /\ calls'[Len(calls')] = e
  BY <1>4
<1>6. ~ Shown(h.call) /\ report[h.call] = "none"
  BY <1>2 DEF SessionInv, Followed
<1>7. \A c : Shown(c)' <=> Shown(c) \/ c = h.call
  BY <1>3, <1>5 DEF Shown
<1>8. Followed'
  <2>1. \A i \in 1 .. Len(calls') : calls'[i].id \in 1 .. next' - 1
    <3>1. h.call \in 1 .. next - 1
      BY <1>2, CallsPassed
    <3>2. QED
      BY <1>3, <1>5, <3>1 DEF SessionInv, Followed
  <2>2. \A i, j \in 1 .. Len(calls') : calls'[i].id = calls'[j].id => i = j
    BY <1>3, <1>5, <1>6 DEF SessionInv, Followed, Shown
  <2>3. QED
    BY <1>2, <1>6, <1>7, <2>1, <2>2 DEF SessionInv, Followed
<1>9. ~ leg[h.call].deflected
  BY <1>2, <1>6 DEF SessionInv, Noted
<1>10. leg[h.call].answered => Told(h.call)
  BY <1>2, <1>6 DEF SessionInv, Noted
<1>11. Noted'
  <2>1. ASSUME NEW i \in 1 .. Len(calls')
        PROVE  /\ calls'[i].started => leg[calls'[i].id].answered
               /\ leg[calls'[i].id].answered => calls'[i].started \/ Told(calls[i].id)'
               /\ calls'[i].declined = "Deflected" => leg[calls'[i].id].deflected
               /\ leg[calls'[i].id].deflected => calls'[i].declined # "no"
    <3>1. CASE i = Len(calls') /\ calls'[i] = e
      <4>1. Told(calls[i].id)' <=> Told(h.call)'
        BY <1>3, <3>1 DEF Told
      <4>2. QED
        BY <1>2, <1>3, <1>9, <1>10, <3>1, <4>1
    <3>2. CASE i \in 1 .. Len(calls) /\ calls'[i] = calls[i]
      <4>1. PICK c \in Calls : c = calls[i].id /\ c # h.call
        BY <1>6, <3>2, CallsPassed DEF SessionInv, Followed, Shown
      <4>2. Told(calls[i].id)' <=> Told(c)'
        BY <3>2, <4>1 DEF Told
      <4>3. /\ calls[i].started => leg[c].answered
            /\ leg[c].answered => calls[i].started \/ Told(c)
            /\ calls[i].declined = "Deflected" => leg[c].deflected
            /\ leg[c].deflected => calls[i].declined # "no"
        BY <3>2, <4>1 DEF SessionInv, Noted
      <4>4. QED
        BY <1>2, <3>2, <4>1, <4>2, <4>3
    <3>3. QED
      BY <1>5, <3>1, <3>2
  <2>2. QED
    BY <1>2, <1>6, <1>7, <1>9, <1>10, <2>1 DEF SessionInv, Noted
<1>12. QED
  BY <1>2, <1>4, <1>8, <1>11, EmptySeq DEF SessionInv

LEMMA StateKeeps ==
  ASSUME CoreInv, SessionInv, EventPops, UNCHANGED <<leg, next, report>>, NEW h, h = Head(events),
         h.type \in {"established", "held", "resumed"}, Len(calls') = Len(calls),
         \A i \in 1 .. Len(calls) :
           /\ calls'[i].id = calls[i].id /\ calls'[i].declined = calls[i].declined
           /\ calls'[i].started <=> calls[i].started \/ (calls[i].id = h.call /\ h.type = "established")
  PROVE  SessionInv'
<1>1. /\ Ordered' /\ h.call \in Calls /\ h.call < next /\ Waiting(h.call)
      /\ \A c : c # h.call => /\ Waiting(c)' <=> Waiting(c)
                              /\ Opening(c)' <=> Opening(c)
                              /\ Closing(c)' <=> Closing(c)
                              /\ Told(c)' <=> Told(c)
      /\ ~ Opening(h.call)' /\ ~ Opening(h.call)
      /\ Closing(h.call)' <=> Closing(h.call)
      /\ h.type = "established" => Told(h.call)
      /\ h.type \in {"held", "resumed"} => (Told(h.call)' <=> Told(h.call))
  BY PopTells DEF SessionInv
<1>2. \A c : Shown(c)' <=> Shown(c)
  BY ShownAgain
<1>3. report[h.call] = "none" /\ Shown(h.call)
  BY <1>1 DEF SessionInv, Followed
<1>4. Followed'
  <2>1. /\ \A i \in 1 .. Len(calls') : calls'[i].id \in 1 .. next' - 1
        /\ \A i, j \in 1 .. Len(calls') : calls'[i].id = calls'[j].id => i = j
    BY DEF SessionInv, Followed
  <2>2. QED
    BY <1>1, <1>2, <1>3, <2>1 DEF SessionInv, Followed
<1>5. h.type = "established" => leg[h.call].answered
  BY <1>1 DEF SessionInv, Ordered
<1>6. Noted'
  <2>1. ASSUME NEW i \in 1 .. Len(calls')
        PROVE  /\ calls'[i].started => leg[calls'[i].id].answered
               /\ leg[calls'[i].id].answered => calls'[i].started \/ Told(calls[i].id)'
               /\ calls'[i].declined = "Deflected" => leg[calls'[i].id].deflected
               /\ leg[calls'[i].id].deflected => calls'[i].declined # "no"
    <3>1. PICK c \in Calls : c = calls[i].id
      BY CallsPassed DEF SessionInv, Followed
    <3>2. Told(calls[i].id)' <=> Told(c)'
      BY <3>1 DEF Told
    <3>3. /\ calls[i].started => leg[c].answered
          /\ leg[c].answered => calls[i].started \/ Told(c)
          /\ calls[i].declined = "Deflected" => leg[c].deflected
          /\ leg[c].deflected => calls[i].declined # "no"
      BY <3>1 DEF SessionInv, Noted
    <3>4. QED
      BY <1>1, <1>5, <3>1, <3>2, <3>3
  <2>2. QED
    BY <1>1, <1>2, <1>3, <2>1 DEF SessionInv, Noted
<1>7. QED
  BY <1>1, <1>4, <1>6 DEF SessionInv

\* What is reported of a call that was on the screen, as it was noted there.
LEMMA OutcomeTrue ==
  ASSUME CoreInv, SessionInv, Screen, NEW d \in Calls, ~ Told(d),
         NEW k \in 1 .. Len(calls), calls[k].id = d
  PROVE  LET o == Outcome(calls[k]) IN
           /\ o \in {"answered", "unanswered", "missed", "rejected", "deflected"}
           /\ (o = "answered") <=> leg[d].answered
           /\ o = "deflected" => leg[d].deflected
           /\ leg[d].deflected => o \in {"deflected", "rejected"}
<1>1. /\ calls[k].started <=> leg[d].answered
      /\ calls[k].declined = "Deflected" => leg[d].deflected
      /\ leg[d].deflected => calls[k].declined # "no"
  BY DEF SessionInv, Noted
<1>2. leg[d].deflected => leg[d].dir = "in" /\ ~ leg[d].answered
  BY DEF CoreInv, Legs
<1>3. calls[k].declined \in {"no", "Rejected", "Deflected"}
  <2>1. calls \in Seq(Call)
    BY DEF Screen
  <2>2. calls[k] \in Call
    BY <2>1
  <2>3. QED
    BY <2>2 DEF Call
<1>4. QED
  BY <1>1, <1>2, <1>3 DEF Outcome

LEMMA RestShown ==
  ASSUME calls \in Seq(Call), NEW k \in 1 .. Len(calls)
  PROVE  LET p == Unlink(calls, k) IN
           /\ \A j \in 1 .. Len(p) : Was(j, k) \in 1 .. Len(calls) /\ Was(j, k) # k /\ p[j] = calls[Was(j, k)]
           /\ \A i, j \in 1 .. Len(p) : Was(i, k) = Was(j, k) => i = j
           /\ \A i \in 1 .. Len(calls) : i # k => \E j \in 1 .. Len(p) : Was(j, k) = i
BY Remaining

LEMMA ClosedKeeps ==
  ASSUME CoreInv, SessionInv, Screen, EventPops, UNCHANGED <<leg, next>>,
         NEW h, h = Head(events), h.type \in {"closed", "transferred"},
         NEW k \in 1 .. Len(calls), calls[k].id = h.call,
         Len(calls') = Len(Unlink(calls, k)),
         \A j \in 1 .. Len(calls') :
           LET e == Unlink(calls, k)[j] IN
             calls'[j].id = e.id /\ calls'[j].started = e.started /\ calls'[j].declined = e.declined,
         report' = [report EXCEPT ![h.call] = Outcome(calls[k])]
  PROVE  SessionInv' /\ report' \in [Calls -> {"none", "answered", "unanswered", "missed", "rejected", "deflected"}]
<1>1. /\ Ordered' /\ h.call \in Calls /\ h.call < next /\ Waiting(h.call)
      /\ \A c : c # h.call => /\ Waiting(c)' <=> Waiting(c)
                              /\ Opening(c)' <=> Opening(c)
                              /\ Closing(c)' <=> Closing(c)
                              /\ Told(c)' <=> Told(c)
      /\ ~ Opening(h.call)' /\ Closing(h.call) /\ ~ Waiting(h.call)' /\ ~ Told(h.call)
  BY PopTells DEF SessionInv
<1>2. leg[h.call].st = "gone"
  BY <1>1 DEF SessionInv, Ordered
<1> DEFINE o == Outcome(calls[k])
<1>3. /\ o \in {"answered", "unanswered", "missed", "rejected", "deflected"}
      /\ (o = "answered") <=> leg[h.call].answered
      /\ o = "deflected" => leg[h.call].deflected
      /\ leg[h.call].deflected => o \in {"deflected", "rejected"}
  BY <1>1, OutcomeTrue
<1> HIDE DEF o
<1>4. /\ report' \in [Calls -> {"none", "answered", "unanswered", "missed", "rejected", "deflected"}]
      /\ report'[h.call] = o /\ \A c \in Calls : c # h.call => report'[c] = report[c]
  BY <1>1, <1>3 DEF Screen, o
<1> DEFINE p == Unlink(calls, k)
<1>5. /\ \A j \in 1 .. Len(p) : Was(j, k) \in 1 .. Len(calls) /\ Was(j, k) # k /\ p[j] = calls[Was(j, k)]
      /\ \A i, j \in 1 .. Len(p) : Was(i, k) = Was(j, k) => i = j
      /\ \A i \in 1 .. Len(calls) : i # k => \E j \in 1 .. Len(p) : Was(j, k) = i
  <2>1. calls \in Seq(Call)
    BY DEF Screen
  <2>2. QED
    BY <2>1, RestShown
<1>6. /\ Len(calls') = Len(p)
      /\ \A j \in 1 .. Len(p) : /\ calls'[j].id = p[j].id /\ calls'[j].started = p[j].started
                                /\ calls'[j].declined = p[j].declined
  OBVIOUS
<1> HIDE DEF p
<1>7. \A c : Shown(c)' <=> Shown(c) /\ c # h.call
  <2>1. TAKE c
  <2>2. ASSUME Shown(c)' PROVE Shown(c) /\ c # h.call
    <3>1. PICK j \in 1 .. Len(p) : calls'[j].id = c
      BY <1>6, <2>2 DEF Shown
    <3>2. Was(j, k) \in 1 .. Len(calls) /\ Was(j, k) # k /\ calls[Was(j, k)].id = c
      BY <1>5, <1>6, <3>1
    <3>3. QED
      BY <3>2 DEF Shown, SessionInv, Followed
  <2>3. ASSUME Shown(c), c # h.call PROVE Shown(c)'
    <3>1. PICK i \in 1 .. Len(calls) : calls[i].id = c /\ i # k
      BY <2>3 DEF Shown
    <3>2. PICK j \in 1 .. Len(p) : Was(j, k) = i
      BY <1>5, <3>1
    <3>3. j \in 1 .. Len(calls') /\ calls'[j].id = c
      BY <1>5, <1>6, <3>1, <3>2
    <3>4. QED
      BY <3>3 DEF Shown
  <2>4. QED
    BY <2>2, <2>3
<1>8. Followed'
  <2>1. \A i \in 1 .. Len(calls') : calls'[i].id \in 1 .. next' - 1
    <3>1. \A j \in 1 .. Len(calls) : calls[j].id \in 1 .. next' - 1
      BY DEF SessionInv, Followed
    <3>2. QED
      BY <1>5, <1>6, <3>1
  <2>2. \A i, j \in 1 .. Len(calls') : calls'[i].id = calls'[j].id => i = j
    <3>1. TAKE i, j \in 1 .. Len(calls')
    <3>2. /\ i \in 1 .. Len(p) /\ calls'[i].id = calls[Was(i, k)].id /\ Was(i, k) \in 1 .. Len(calls)
          /\ j \in 1 .. Len(p) /\ calls'[j].id = calls[Was(j, k)].id /\ Was(j, k) \in 1 .. Len(calls)
      BY <1>5, <1>6
    <3>3. calls'[i].id = calls'[j].id => Was(i, k) = Was(j, k)
      BY <3>2 DEF SessionInv, Followed
    <3>4. QED
      BY <1>5, <3>2, <3>3
  <2>3. QED
    BY <1>1, <1>2, <1>3, <1>4, <1>7, <2>1, <2>2 DEF SessionInv, Followed
<1>9. Noted'
  <2>1. ASSUME NEW i \in 1 .. Len(calls')
        PROVE  /\ calls'[i].started => leg[calls'[i].id].answered
               /\ leg[calls'[i].id].answered => calls'[i].started \/ Told(calls[i].id)'
               /\ calls'[i].declined = "Deflected" => leg[calls'[i].id].deflected
               /\ leg[calls'[i].id].deflected => calls'[i].declined # "no"
    <3>1. PICK j \in 1 .. Len(calls) :
             /\ j # k /\ calls'[i].id = calls[j].id /\ calls'[i].started = calls[j].started
             /\ calls'[i].declined = calls[j].declined
      <4>1. /\ i \in 1 .. Len(p) /\ Was(i, k) \in 1 .. Len(calls) /\ Was(i, k) # k
            /\ p[i] = calls[Was(i, k)]
        BY <1>5, <1>6
      <4>2. QED
        BY <1>6, <4>1
    <3>2. PICK c \in Calls : c = calls[j].id /\ c # h.call
      BY <3>1, CallsPassed DEF SessionInv, Followed
    <3>3. Told(calls[i].id)' <=> Told(c)'
      BY <3>1, <3>2 DEF Told
    <3>4. /\ calls[j].started => leg[c].answered
          /\ leg[c].answered => calls[j].started \/ Told(c)
          /\ calls[j].declined = "Deflected" => leg[c].deflected
          /\ leg[c].deflected => calls[j].declined # "no"
      BY <3>2 DEF SessionInv, Noted
    <3>5. QED
      BY <1>1, <3>1, <3>2, <3>3, <3>4
  <2>2. QED
    BY <1>1, <1>3, <1>4, <1>7, <2>1 DEF SessionInv, Noted
<1>10. QED
  BY <1>1, <1>4, <1>8, <1>9 DEF SessionInv

-----------------------------------------------------------------------------
(* What a handler leaves behind it: the list it shows and its commands.    *)

IInv == CoreInv /\ SessionInv /\ Screen /\ Picked

SelectionFits == selected_call \in Nat \ {0} /\ selected_call <= IF calls = <<>> THEN 1 ELSE Len(calls)

\* Commands that nothing was sent of yet.
Plan(s) ==
  /\ s \in Seq(Command)
  /\ \A i \in 1 .. Len(s) :
       /\ s[i].cmd = "select" => s[i].picked
       /\ s[i].picked => s[i].for \in Calls /\ s[i].at <= next
       /\ s[i].picked /\ s[i].cmd # "select" =>
            i > 1 /\ s[i - 1].cmd = "select" /\ s[i - 1].for = s[i].for

LEMMA CmdTyped ==
  ASSUME CoreInv, NEW cmd \in Commands, NEW c \in 0 .. MaxCalls
  PROVE  /\ Cmd(cmd, c) \in Command /\ [Cmd(cmd, c) EXCEPT !.picked = TRUE] \in Command
         /\ next \in Nat /\ Calls \subseteq 0 .. MaxCalls
<1>1. next \in Nat /\ Calls \subseteq 0 .. MaxCalls
  BY CallsPassed, CoreCallsAssumption DEF Calls
<1>2. QED
  BY <1>1 DEF Cmd, Command

LEMMA PlanOnly ==
  ASSUME CoreInv, NEW cmd \in Commands \ {"select"}, NEW c \in 0 .. MaxCalls
  PROVE  Plan(Only(cmd, c))
<1>1. Cmd(cmd, c) \in Command
  BY CmdTyped
<1>2. Only(cmd, c) \in Seq(Command) /\ Len(Only(cmd, c)) = 1 /\ Only(cmd, c)[1] = Cmd(cmd, c)
  BY <1>1 DEF Only
<1>3. Cmd(cmd, c).cmd = cmd /\ ~ Cmd(cmd, c).picked
  BY DEF Cmd
<1>4. QED
  BY <1>2, <1>3 DEF Plan

LEMMA PlanOnCall ==
  ASSUME CoreInv, NEW cmd \in Commands \ {"select"}, NEW c \in Calls
  PROVE  Plan(OnCall(cmd, c)) /\ Plan(<< Head(OnCall("select", c)) >>)
<1> DEFINE a == [Cmd("select", c) EXCEPT !.picked = TRUE]
           b == [Cmd(cmd, c) EXCEPT !.picked = TRUE]
<1>1. a \in Command /\ b \in Command /\ next \in Nat
  BY CmdTyped, CoreCallsAssumption DEF Commands, Calls
<1>2. /\ a.cmd = "select" /\ a.picked /\ a.for = c /\ a.at = next
      /\ b.cmd = cmd /\ b.picked /\ b.for = c /\ b.at = next
  BY DEF Cmd
<1>3. OnCall(cmd, c) = <<a, b>> /\ Head(OnCall("select", c)) = a
  BY DEF OnCall
<1> HIDE DEF a, b
<1>4. <<a, b>> \in Seq(Command) /\ Len(<<a, b>>) = 2 /\ <<a, b>>[1] = a /\ <<a, b>>[2] = b
  BY <1>1
<1>5. <<a>> \in Seq(Command) /\ Len(<<a>>) = 1 /\ <<a>>[1] = a
  BY <1>1
<1>6. Plan(<<a, b>>)
  <2>1. \A i \in 1 .. 2 : i = 1 \/ i = 2
    OBVIOUS
  <2>2. QED
    BY <1>1, <1>2, <1>4, <2>1 DEF Plan
<1>7. Plan(<<a>>)
  BY <1>1, <1>2, <1>5 DEF Plan
<1>8. QED
  BY <1>3, <1>6, <1>7

LEMMA PlanBoth ==
  ASSUME NEW s, NEW t, Plan(s), Plan(t)
  PROVE  Plan(s \o t)
<1>1. s \in Seq(Command) /\ t \in Seq(Command) /\ Len(s) \in Nat /\ Len(t) \in Nat
  BY DEF Plan
<1>2. s \o t \in Seq(Command) /\ Len(s \o t) = Len(s) + Len(t)
      /\ \A i \in 1 .. Len(s) + Len(t) : (s \o t)[i] = IF i <= Len(s) THEN s[i] ELSE t[i - Len(s)]
  BY <1>1, ConcatProperties
<1> DEFINE u == s \o t
<1>3. \A i \in 1 .. Len(s) : u[i] = s[i]
  BY <1>1, <1>2
<1>4. \A i \in 1 .. Len(t) : u[Len(s) + i] = t[i]
  BY <1>1, <1>2
<1> HIDE DEF u
<1>5. ASSUME NEW i \in 1 .. Len(s) + Len(t)
      PROVE  /\ u[i].cmd = "select" => u[i].picked
             /\ u[i].picked => u[i].for \in Calls /\ u[i].at <= next
             /\ u[i].picked /\ u[i].cmd # "select" =>
                  i > 1 /\ u[i - 1].cmd = "select" /\ u[i - 1].for = u[i].for
  <2>1. CASE i \in 1 .. Len(s)
    <3>1. u[i] = s[i] /\ (i > 1 => u[i - 1] = s[i - 1])
      BY <1>1, <1>3, <2>1
    <3>2. QED
      BY <2>1, <3>1 DEF Plan
  <2>2. CASE i \notin 1 .. Len(s)
    <3>0. i - Len(s) \in 1 .. Len(t) /\ i = Len(s) + (i - Len(s))
      BY <1>1, <2>2
    <3>1. PICK j \in 1 .. Len(t) : i = Len(s) + j
      BY <3>0
    <3>2. u[i] = t[j] /\ (j > 1 => u[i - 1] = t[j - 1])
      <4>1. j > 1 => j - 1 \in 1 .. Len(t) /\ i - 1 = Len(s) + (j - 1)
        BY <1>1, <3>1
      <4>2. QED
        BY <1>4, <3>1, <4>1
    <3>3. j > 1 => i > 1
      BY <1>1, <3>1
    <3>4. QED
      BY <3>1, <3>2, <3>3 DEF Plan
  <2>3. QED
    BY <2>1, <2>2
<1>6. QED
  BY <1>2, <1>5 DEF Plan, u

LEMMA PlanNone == Plan(<<>>)
BY EmptySeq DEF Plan

LEMMA PlanPicked ==
  ASSUME Plan(todo'), UNCHANGED next
  PROVE  Picked'
BY DEF Plan, Picked

\* A key: the screen is relabelled and commands are planned.
LEMMA KeyKeeps ==
  ASSUME IInv, UNCHANGED core, UNCHANGED report, Relabel, calls' \in Seq(Call), SelectionFits', Plan(todo')
  PROVE  IInv'
<1>1. CoreInv' /\ Minor
  BY StillMinor DEF IInv
<1>2. SessionInv'
  BY <1>1, MinorKeeps DEF IInv
<1>3. Picked'
  BY PlanPicked DEF core
<1>4. Screen'
  BY DEF Screen, SelectionFits, IInv, Plan
<1>5. QED
  BY <1>1, <1>2, <1>3, <1>4 DEF IInv

LEMMA CallIn ==
  ASSUME IInv, NEW i \in 1 .. Len(calls)
  PROVE  calls[i] \in Call /\ calls[i].id \in Calls /\ calls # <<>> /\ Len(calls) \in Nat \ {0}
<1>1. calls \in Seq(Call)
  BY DEF IInv, Screen
<1>2. calls[i] \in Call /\ Len(calls) \in Nat
  BY <1>1
<1>3. QED
  BY <1>1, <1>2, EmptySeq DEF Call

LEMMA SelectedIn ==
  ASSUME IInv, calls # <<>>
  PROVE  selected_call \in 1 .. Len(calls) /\ Selected \in Calls /\ Len(calls) \in Nat
<1>1. calls \in Seq(Call) /\ selected_call \in Nat \ {0} /\ selected_call <= Len(calls)
  BY DEF IInv, Screen
<1>2. selected_call \in 1 .. Len(calls) /\ Len(calls) \in Nat
  BY <1>1
<1>3. QED
  BY <1>2, CallIn DEF Selected

LEMMA SameList ==
  ASSUME IInv, UNCHANGED calls
  PROVE  Relabel /\ calls' \in Seq(Call)
BY DEF IInv, Screen, Relabel

LEMMA Relabelled ==
  ASSUME IInv, NEW i \in 1 .. Len(calls), NEW e \in Call, calls' = [calls EXCEPT ![i] = e],
         e.id = calls[i].id, e.started = calls[i].started, e.declined \in {calls[i].declined, "Rejected"}
  PROVE  Relabel /\ calls' \in Seq(Call)
<1>1. calls \in Seq(Call)
  BY DEF IInv, Screen
<1>2. /\ calls' \in Seq(Call) /\ Len(calls') = Len(calls)
      /\ \A j \in 1 .. Len(calls) : calls'[j] = IF j = i THEN e ELSE calls[j]
  BY <1>1, ExceptSeq
<1>3. QED
  BY <1>2 DEF Relabel

LEMMA StateSet ==
  ASSUME IInv, NEW i \in 1 .. Len(calls), NEW state \in {"Ringing", "Established", "OnHold"}, SetState(i, state)
  PROVE  Relabel /\ calls' \in Seq(Call)
<1> DEFINE e == [calls[i] EXCEPT !.state = state]
<1>1. calls[i] \in Call
  BY CallIn
<1>2. e \in Call /\ e.id = calls[i].id /\ e.started = calls[i].started /\ e.declined = calls[i].declined
  BY <1>1 DEF Call
<1>3. calls' = [calls EXCEPT ![i] = e]
  BY DEF SetState
<1> HIDE DEF e
<1>4. QED
  BY <1>2, <1>3, Relabelled

LEMMA RejectedSet ==
  ASSUME IInv, NEW i \in 1 .. Len(calls), calls' = [calls EXCEPT ![i].declined = "Rejected"]
  PROVE  Relabel /\ calls' \in Seq(Call)
<1> DEFINE e == [calls[i] EXCEPT !.declined = "Rejected"]
<1>1. calls[i] \in Call
  BY CallIn
<1>2. e \in Call /\ e.id = calls[i].id /\ e.started = calls[i].started /\ e.declined = "Rejected"
  BY <1>1 DEF Call
<1>3. calls' = [calls EXCEPT ![i] = e]
  OBVIOUS
<1> HIDE DEF e
<1>4. QED
  BY <1>2, <1>3, Relabelled

LEMMA SelectionStays ==
  ASSUME IInv, Relabel, calls' \in Seq(Call), UNCHANGED selected_call
  PROVE  SelectionFits'
<1>1. Len(calls') = Len(calls) /\ calls \in Seq(Call)
  BY DEF Relabel, IInv, Screen
<1>2. calls' # <<>> <=> calls # <<>>
  BY <1>1, EmptySeq
<1>3. QED
  BY <1>1, <1>2 DEF SelectionFits, IInv, Screen

-----------------------------------------------------------------------------
(* The keys, one by one.                                                   *)

LEMMA KeyStays ==
  ASSUME IInv, UNCHANGED <<core, report, selected_call>>, Relabel, calls' \in Seq(Call), Plan(todo')
  PROVE  IInv'
BY SelectionStays, KeyKeeps

LEMMA KeyIdle ==
  ASSUME IInv, UNCHANGED <<core, report, selected_call, calls>>, Plan(todo')
  PROVE  IInv'
BY SameList, KeyStays

LEMMA PlaceCallKeeps == ASSUME IInv, PlaceCall PROVE IInv'
<1>1. UNCHANGED <<core, report, selected_call>>
  BY DEF PlaceCall
<1>2. Plan(Only("dial", 0))
  BY PlanOnly, CoreCallsAssumption DEF IInv, Commands
<1>3. CASE AutoHold /\ Active
  <2>1. calls # <<>>
    BY <1>3, EmptySeq DEF Active, InState
  <2>2. selected_call \in 1 .. Len(calls) /\ Selected \in Calls
    BY <2>1, SelectedIn
  <2>3. Plan(OnCall("hold", Selected))
    BY <2>2, PlanOnCall DEF IInv, Commands
  <2>4. Plan(todo')
    BY <1>2, <1>3, <2>3, PlanBoth DEF PlaceCall
  <2>5. SetState(selected_call, "OnHold")
    BY <1>3 DEF PlaceCall
  <2>6. QED
    BY <1>1, <2>2, <2>4, <2>5, StateSet, KeyStays
<1>4. CASE ~ (AutoHold /\ Active)
  BY <1>1, <1>2, <1>4, KeyIdle DEF PlaceCall
<1>5. QED
  BY <1>3, <1>4

LEMMA AcceptIncomingKeeps == ASSUME IInv, AcceptIncoming PROVE IInv'
<1>1. UNCHANGED <<core, report>>
  BY DEF AcceptIncoming
<1>2. PICK i \in 1 .. Len(calls) :
       /\ selected_call' = i
       /\ \/ \E j \in 1 .. Len(calls) :
               /\ todo' = OnCall("hold", calls[j].id) \o OnCall("accept", calls[i].id)
               /\ SetState(j, "OnHold")
          \/ todo' = OnCall("accept", calls[i].id) /\ UNCHANGED calls
  BY DEF AcceptIncoming
<1>3. Plan(OnCall("accept", calls[i].id))
  BY CallIn, PlanOnCall DEF IInv, Commands
<1>4. Relabel /\ calls' \in Seq(Call) /\ Plan(todo')
  <2>1. CASE todo' = OnCall("accept", calls[i].id) /\ UNCHANGED calls
    BY <1>3, <2>1, SameList
  <2>2. ASSUME NEW j \in 1 .. Len(calls),
               todo' = OnCall("hold", calls[j].id) \o OnCall("accept", calls[i].id),
               SetState(j, "OnHold")
        PROVE  Relabel /\ calls' \in Seq(Call) /\ Plan(todo')
    <3>1. Plan(OnCall("hold", calls[j].id))
      BY CallIn, PlanOnCall DEF IInv, Commands
    <3>2. QED
      BY <1>3, <2>2, <3>1, PlanBoth, StateSet
  <2>3. QED
    BY <1>2, <2>1, <2>2
<1>5. SelectionFits'
  <2>1. i \in Nat \ {0} /\ i <= Len(calls)
    BY CallIn
  <2>2. QED
    BY <1>2, <1>4, <2>1 DEF SelectionFits, Relabel
<1>6. QED
  BY <1>1, <1>4, <1>5, KeyKeeps

LEMMA RejectIncomingKeeps == ASSUME IInv, RejectIncoming PROVE IInv'
<1>1. UNCHANGED <<core, report, selected_call>>
  BY DEF RejectIncoming
<1>2. PICK i \in 1 .. Len(calls) :
       todo' = OnCall("reject", calls[i].id) /\ calls' = [calls EXCEPT ![i].declined = "Rejected"]
  BY DEF RejectIncoming
<1>3. Plan(todo')
  BY <1>2, CallIn, PlanOnCall DEF IInv, Commands
<1>4. QED
  BY <1>1, <1>2, <1>3, RejectedSet, KeyStays

LEMMA HangupSelectedKeeps == ASSUME IInv, HangupSelected PROVE IInv'
<1>1. UNCHANGED <<core, report, selected_call>> /\ calls # <<>>
  BY DEF HangupSelected
<1>2. selected_call \in 1 .. Len(calls) /\ Selected \in Calls
  BY <1>1, SelectedIn
<1>3. Plan(OnCall("reject", Selected)) /\ Plan(OnCall("hangup", Selected))
  BY <1>2, PlanOnCall DEF IInv, Commands
<1>4. CASE RingsIn(selected_call)
  <2>1. todo' = OnCall("reject", Selected) /\ calls' = [calls EXCEPT ![selected_call].declined = "Rejected"]
    BY <1>4 DEF HangupSelected
  <2>2. QED
    BY <1>1, <1>2, <1>3, <2>1, RejectedSet, KeyStays
<1>5. CASE ~ RingsIn(selected_call)
  BY <1>1, <1>3, <1>5, KeyIdle DEF HangupSelected
<1>6. QED
  BY <1>4, <1>5

LEMMA HangupCurrentKeeps == ASSUME IInv, HangupCurrent PROVE IInv'
<1>1. UNCHANGED <<core, report, selected_call, calls>> /\ todo' = Only("hangup", 0)
  BY DEF HangupCurrent, screen
<1>2. Plan(todo')
  BY <1>1, PlanOnly, CoreCallsAssumption DEF IInv, Commands
<1>3. QED
  BY <1>1, <1>2, KeyIdle

LEMMA OnSelected ==
  ASSUME IInv, Active \/ OnHold \/ calls # <<>>
  PROVE  /\ selected_call \in 1 .. Len(calls) /\ Selected \in Calls
         /\ \A cmd \in Commands \ {"select"} : Plan(Only(cmd, Selected))
<1>1. calls # <<>>
  BY EmptySeq DEF Active, OnHold, InState
<1>2. selected_call \in 1 .. Len(calls) /\ Selected \in Calls
  BY <1>1, SelectedIn
<1>3. Selected \in 0 .. MaxCalls
  BY <1>2 DEF Calls
<1>4. QED
  BY <1>2, <1>3, PlanOnly DEF IInv

LEMMA ToggleHoldKeeps == ASSUME IInv, ToggleHold PROVE IInv'
<1>1. UNCHANGED <<core, report, selected_call>> /\ (Active \/ OnHold)
  BY DEF ToggleHold
<1>2. Plan(todo')
  BY <1>1, OnSelected DEF ToggleHold, Commands
<1>3. PICK state \in {"Established", "OnHold"} : SetState(selected_call, state)
  BY DEF ToggleHold
<1>4. QED
  BY <1>1, <1>2, <1>3, OnSelected, StateSet, KeyStays

LEMMA ToggleMuteKeeps == ASSUME IInv, ToggleMute PROVE IInv'
<1>1. UNCHANGED <<core, report, selected_call, calls>> /\ Active /\ todo' = Only("mute", Selected)
  BY DEF ToggleMute
<1>2. Plan(todo')
  BY <1>1, OnSelected DEF Commands
<1>3. QED
  BY <1>1, <1>2, KeyIdle

LEMMA DeafenKeeps == ASSUME IInv, Deafen PROVE IInv'
<1>1. UNCHANGED <<core, report, selected_call, calls>> /\ Active /\ todo = <<>>
      /\ todo' \in {todo, Only("mute", Selected)}
  BY DEF Deafen, Free
<1>2. Plan(todo')
  BY <1>1, OnSelected, PlanNone DEF Commands
<1>3. QED
  BY <1>1, <1>2, KeyIdle

LEMMA SwitchLineKeeps == ASSUME IInv, SwitchLine PROVE IInv'
<1> DEFINE to == (selected_call % Len(calls)) + 1
           holds == AutoHold /\ Active
           resumes == AutoHold /\ InState(calls, to, "OnHold")
<1>1. /\ UNCHANGED <<core, report>> /\ Len(calls) > 1 /\ selected_call' = to
      /\ todo' = (IF holds THEN OnCall("hold", Selected) ELSE <<>>)
                 \o (IF resumes THEN OnCall("resume", calls[to].id)
                     ELSE << Head(OnCall("select", calls[to].id)) >>)
      /\ calls' = [i \in 1 .. Len(calls) |->
           [calls[i] EXCEPT !.state = IF holds /\ i = selected_call THEN "OnHold"
                                      ELSE IF resumes /\ i = to THEN "Established"
                                      ELSE @]]
  BY DEF SwitchLine
<1>2. calls \in Seq(Call) /\ Len(calls) \in Nat \ {0} /\ calls # <<>>
  BY <1>1, EmptySeq DEF IInv, Screen
<1>3. selected_call \in 1 .. Len(calls) /\ Selected \in Calls
  BY <1>2, SelectedIn
<1>4. to \in 1 .. Len(calls)
  BY <1>2, <1>3
<1> HIDE DEF to
<1>5. Plan(todo')
  <2>1. /\ Plan(OnCall("hold", Selected)) /\ Plan(OnCall("resume", calls[to].id))
        /\ Plan(<< Head(OnCall("select", calls[to].id)) >>)
    <3>1. calls[to].id \in Calls /\ CoreInv
      BY <1>4, CallIn DEF IInv
    <3>2. "hold" \in Commands \ {"select"} /\ "resume" \in Commands \ {"select"}
      BY DEF Commands
    <3>3. QED
      BY <1>3, <3>1, <3>2, PlanOnCall
  <2> DEFINE s == IF holds THEN OnCall("hold", Selected) ELSE <<>>
             t == IF resumes THEN OnCall("resume", calls[to].id)
                  ELSE << Head(OnCall("select", calls[to].id)) >>
  <2>2. Plan(s) /\ Plan(t) /\ todo' = s \o t
    BY <1>1, <2>1, PlanNone
  <2> HIDE DEF s, t
  <2>3. QED
    BY <2>2, PlanBoth
<1> HIDE DEF holds, resumes
<1>6. \A i \in 1 .. Len(calls) :
        /\ calls'[i] \in Call /\ calls'[i].id = calls[i].id /\ calls'[i].started = calls[i].started
        /\ calls'[i].declined = calls[i].declined
  <2>1. TAKE i \in 1 .. Len(calls)
  <2>2. calls[i] \in Call
    BY CallIn
  <2>3. PICK state \in {"Ringing", "Established", "OnHold"} : calls'[i] = [calls[i] EXCEPT !.state = state]
    BY <1>1, <2>2 DEF Call
  <2>4. QED
    BY <2>2, <2>3 DEF Call
<1>7. Len(calls') = Len(calls) /\ calls' \in Seq(Call)
  <2>1. calls' \in [1 .. Len(calls) -> Call]
    BY <1>1, <1>6
  <2>2. QED
    BY <1>2, <2>1, FunctionSeq
<1>8. Relabel
  BY <1>6, <1>7 DEF Relabel
<1>9. SelectionFits'
  BY <1>1, <1>2, <1>4, <1>7 DEF SelectionFits
<1>10. QED
  BY <1>1, <1>5, <1>7, <1>8, <1>9, KeyKeeps

LEMMA TransferCommandKeeps == ASSUME IInv, TransferCommand PROVE IInv'
<1>1. UNCHANGED <<core, report, selected_call, calls>> /\ Active /\ todo' = Only("transfer", Selected)
  BY DEF TransferCommand, screen
<1>2. Plan(todo')
  BY <1>1, OnSelected DEF Commands
<1>3. QED
  BY <1>1, <1>2, KeyIdle

LEMMA PendingEndKeeps == ASSUME IInv, NEW cmd \in {"exec", "hangup"}, PendingEnd(cmd) PROVE IInv'
<1>1. UNCHANGED <<core, report, selected_call, calls>> /\ todo' = Only(cmd, 0)
  BY DEF PendingEnd
<1>2. Plan(todo')
  BY <1>1, PlanOnly, CoreCallsAssumption DEF IInv, Commands
<1>3. QED
  BY <1>1, <1>2, KeyIdle

LEMMA ModeKeeps ==
  ASSUME IInv, UNCHANGED <<core, report, selected_call, calls, todo>>, Free
  PROVE  IInv'
BY PlanNone, KeyIdle DEF Free

-----------------------------------------------------------------------------
(* Deflection, events, commands and the network.                           *)

\* Whatever a step does, a 302 goes to an incoming call that rings, and to no other.
SparesRest ==
  \A c \in Calls : leg'[c].deflected /\ ~ leg[c].deflected
       => /\ leg[c].dir = "in" /\ leg[c].st = "ringing"
          /\ \A d \in Calls \ {c} : leg'[d] = leg[d]

LEMMA DeflectCallKeeps ==
  ASSUME IInv, NEW c, DeflectCall(c), UNCHANGED <<todo, report, selected_call>>, todo = <<>>
  PROVE  IInv' /\ SparesRest
<1>1. CASE UNCHANGED <<core, calls>>
  <2>1. Plan(todo') /\ SparesRest
    BY <1>1, PlanNone DEF SparesRest, core
  <2>2. QED
    BY <1>1, <2>1, KeyIdle
<1>2. CASE /\ \E i \in 1 .. Len(calls) : calls[i].id = c /\ RingsIn(i) /\ CanDeflect(c)
           /\ Deflect(c) /\ DeclineDeflected(c)
  <2>1. Shown(c) /\ c \in Calls
    BY <1>2, CallIn DEF Shown
  <2>2. CoreInv' /\ Ends(c) /\ leg'[c].deflected
    BY <1>2, <2>1, DeflectEnds DEF IInv
  <2>3. \A i \in 1 .. Len(calls) :
          /\ calls'[i] \in Call /\ calls'[i].id = calls[i].id /\ calls'[i].started = calls[i].started
          /\ calls[i].id # c => calls'[i].declined = calls[i].declined
          /\ calls[i].id = c => calls'[i].declined = "Deflected"
    <3>1. TAKE i \in 1 .. Len(calls)
    <3>2. calls[i] \in Call
      BY CallIn
    <3>3. calls'[i] = IF calls[i].id = c THEN [calls[i] EXCEPT !.declined = "Deflected"] ELSE calls[i]
      BY <1>2 DEF DeclineDeflected
    <3>4. QED
      BY <3>2, <3>3 DEF Call
  <2>4. Len(calls') = Len(calls) /\ calls' \in Seq(Call) /\ calls \in Seq(Call)
    <3>1. calls' \in [1 .. Len(calls) -> Call] /\ calls \in Seq(Call) /\ Len(calls) \in Nat
      BY <1>2, <2>3 DEF DeclineDeflected, IInv, Screen
    <3>2. QED
      BY <3>1, FunctionSeq
  <2>5. SessionInv'
    BY <2>1, <2>2, <2>3, <2>4, EndsKeep DEF IInv
  <2>6. Screen'
    <3>1. calls' # <<>> <=> calls # <<>>
      BY <2>4, EmptySeq
    <3>2. QED
      BY <2>4, <3>1 DEF IInv, Screen
  <2>7. Picked'
    BY PlanNone, PlanPicked, <2>2 DEF Ends
  <2>8. SparesRest
    BY <2>1, <2>2 DEF SparesRest, Ends, CanDeflect
  <2>9. QED
    BY <2>2, <2>5, <2>6, <2>7, <2>8 DEF IInv
<1>3. QED
  BY <1>1, <1>2 DEF DeflectCall

LEMMA CoreSpares == ASSUME UNCHANGED leg PROVE SparesRest
BY DEF SparesRest

LEMMA DeflectCommandKeeps == ASSUME IInv, DeflectCommand PROVE IInv' /\ SparesRest
<1>1. PICK i \in 1 .. Len(calls) : DeflectCall(calls[i].id)
  BY DEF DeflectCommand
<1>2. UNCHANGED <<todo, report, selected_call>> /\ todo = <<>>
  BY DEF DeflectCommand, Free
<1>3. QED
  BY <1>1, <1>2, DeflectCallKeeps

LEMMA InputEnterKeeps == ASSUME IInv, InputEnter PROVE IInv' /\ SparesRest
<1>1. UNCHANGED <<report, selected_call>> /\ todo = <<>>
      /\ transfer_mode.mode \in {"BlindInput", "AttendedInput", "DeflectInput"}
  BY DEF InputEnter, Typing, Free
<1> DEFINE c == IF calls = <<>> THEN 0 ELSE Selected
<1>2. c \in 0 .. MaxCalls
  BY SelectedIn, CoreCallsAssumption DEF Calls
<1> HIDE DEF c
<1>3. CASE transfer_mode.mode = "BlindInput"
  <2>1. UNCHANGED <<core, calls>> /\ todo' = Only("transfer", c)
    BY <1>3 DEF InputEnter, c
  <2>2. Plan(todo')
    BY <1>2, <2>1, PlanOnly DEF IInv, Commands
  <2>3. QED
    BY <1>1, <2>1, <2>2, KeyIdle, CoreSpares DEF core
<1>4. CASE transfer_mode.mode = "AttendedInput"
  <2>1. /\ UNCHANGED core /\ todo' = Only("hold", c) \o Only("dial", 0)
        /\ IF calls = <<>> THEN UNCHANGED calls ELSE SetState(selected_call, "OnHold")
    BY <1>4 DEF InputEnter, c
  <2>2. Plan(Only("hold", c)) /\ Plan(Only("dial", 0))
    BY <1>2, PlanOnly, CoreCallsAssumption DEF IInv, Commands
  <2>3. Plan(todo')
    BY <2>1, <2>2, PlanBoth
  <2>4. Relabel /\ calls' \in Seq(Call)
    BY <2>1, SameList, SelectedIn, StateSet
  <2>5. QED
    BY <1>1, <2>1, <2>3, <2>4, KeyStays, CoreSpares DEF core
<1>5. CASE transfer_mode.mode = "DeflectInput"
  <2>1. DeflectCall(transfer_mode.id) /\ UNCHANGED todo
    BY <1>5 DEF InputEnter
  <2>2. QED
    BY <1>1, <2>1, DeflectCallKeeps
<1>6. QED
  BY <1>1, <1>3, <1>4, <1>5

LEMMA KeysKeep == ASSUME IInv, Keys PROVE IInv' /\ SparesRest
<1>1. CASE \/ PlaceCall \/ AcceptIncoming \/ RejectIncoming
           \/ HangupSelected \/ HangupCurrent \/ ToggleHold \/ ToggleMute \/ Deafen \/ SwitchLine
           \/ TransferCommand \/ \E cmd \in {"exec", "hangup"} : PendingEnd(cmd)
  <2>1. IInv'
    BY <1>1, PlaceCallKeeps, AcceptIncomingKeeps, RejectIncomingKeeps, HangupSelectedKeeps,
       HangupCurrentKeeps, ToggleHoldKeeps, ToggleMuteKeeps, DeafenKeeps, SwitchLineKeeps,
       TransferCommandKeeps, PendingEndKeeps
  <2>2. UNCHANGED core
    BY <1>1 DEF PlaceCall, AcceptIncoming, RejectIncoming, HangupSelected, HangupCurrent, ToggleHold,
       ToggleMute, Deafen, SwitchLine, TransferCommand, PendingEnd
  <2>3. QED
    BY <2>1, <2>2, CoreSpares DEF core
<1>2. CASE DeflectCommand
  BY <1>2, DeflectCommandKeeps
<1>3. ASSUME NEW mode, OpenTransfer(mode) PROVE IInv' /\ SparesRest
  BY <1>3, ModeKeeps, CoreSpares DEF OpenTransfer, Normal, core
<1>4. CASE InputEsc
  BY <1>4, ModeKeeps, CoreSpares DEF InputEsc, Typing, core
<1>5. CASE InputEnter
  BY <1>5, InputEnterKeeps
<1>6. QED
  BY <1>1, <1>2, <1>3, <1>4, <1>5 DEF Keys

LEMMA NewEntryIn == ASSUME NEW c \in Calls PROVE NewEntry(c) \in Call
BY DEF NewEntry, Call

LEMMA IncomingKeeps == ASSUME IInv, HandleIncoming \/ HandleOutgoing PROVE IInv' /\ SparesRest
<1>1. /\ Take({"incoming", "outgoing"}) /\ UNCHANGED <<todo, report>>
      /\ calls' = Append(calls, NewEntry(Head(events).call))
      /\ UNCHANGED selected_call \/ selected_call' = Len(calls')
  BY DEF HandleIncoming, HandleOutgoing, Take
<1>2. /\ CoreInv' /\ EventPops /\ UNCHANGED <<ua, leg, next, keys>> /\ todo = <<>>
      /\ Head(events).type \in {"incoming", "outgoing"}
  BY <1>1, TakePops DEF IInv
<1>3. SessionInv' /\ calls' \in Seq(Call) /\ calls' # <<>> /\ Len(calls') \in Nat \ {0}
  BY <1>1, <1>2, OpenKeeps DEF IInv
<1>4. Screen'
  <2>1. /\ selected_call \in Nat \ {0} /\ selected_call <= IF calls = <<>> THEN 1 ELSE Len(calls)
        /\ calls \in Seq(Call) /\ report \in [Calls -> {"none", "answered", "unanswered", "missed", "rejected", "deflected"}]
    BY DEF IInv, Screen
  <2>2. Len(calls) \in Nat /\ Len(calls) <= Len(calls')
    <3>1. NewEntry(Head(events).call) \in Call
      BY <1>2, NewEntryIn DEF EventPops, AppEvent
    <3>2. QED
      BY <1>1, <2>1, <3>1, Appended
  <2>3. selected_call' \in Nat \ {0} /\ selected_call' <= Len(calls')
    BY <1>1, <1>3, <2>1, <2>2
  <2>4. QED
    BY <1>1, <1>2, <1>3, <2>1, <2>3, EmptySeq DEF Screen
<1>5. Picked'
  BY <1>1, <1>2, PlanNone, PlanPicked
<1>6. QED
  BY <1>2, <1>3, <1>4, <1>5, CoreSpares DEF IInv

LEMMA HandleStateKeeps == ASSUME IInv, HandleState PROVE IInv' /\ SparesRest
<1>1. /\ Take({"established", "held", "resumed"}) /\ UNCHANGED <<todo, report, selected_call>>
      /\ calls' = [i \in 1 .. Len(calls) |->
           IF calls[i].id # Head(events).call THEN calls[i]
           ELSE [calls[i] EXCEPT
                  !.state = IF Head(events).type = "held" THEN "OnHold" ELSE "Established",
                  !.started = @ \/ Head(events).type = "established"]]
  BY DEF HandleState
<1>2. /\ CoreInv' /\ EventPops /\ UNCHANGED <<ua, leg, next, keys>> /\ todo = <<>>
      /\ Head(events).type \in {"established", "held", "resumed"} /\ Head(events) \in AppEvent
  BY <1>1, TakePops DEF IInv
<1>3. PICK h \in AppEvent : h = Head(events)
  BY <1>2
<1>4. \A i \in 1 .. Len(calls) :
        /\ calls'[i] \in Call /\ calls'[i].id = calls[i].id /\ calls'[i].declined = calls[i].declined
        /\ calls'[i].started <=> calls[i].started \/ (calls[i].id = h.call /\ h.type = "established")
  <2>1. TAKE i \in 1 .. Len(calls)
  <2>2. calls[i] \in Call
    BY CallIn
  <2> DEFINE state == IF h.type = "held" THEN "OnHold" ELSE "Established"
             started == calls[i].started \/ h.type = "established"
  <2>3. state \in {"Established", "OnHold"} /\ started \in BOOLEAN
    OBVIOUS
  <2>4. calls'[i] = IF calls[i].id # h.call THEN calls[i]
                    ELSE [calls[i] EXCEPT !.state = state, !.started = started]
    BY <1>1, <1>3
  <2>5. started <=> calls[i].started \/ h.type = "established"
    OBVIOUS
  <2> HIDE DEF state, started
  <2>6. CASE calls[i].id # h.call
    BY <2>2, <2>4, <2>6
  <2>7. CASE calls[i].id = h.call
    <3>1. calls'[i] = [calls[i] EXCEPT !.state = state, !.started = started]
      BY <2>4, <2>7
    <3>2. /\ calls'[i] \in Call /\ calls'[i].id = calls[i].id
          /\ calls'[i].declined = calls[i].declined /\ calls'[i].started = started
      BY <2>2, <2>3, <3>1 DEF Call
    <3>3. QED
      BY <2>5, <2>7, <3>2
  <2>8. QED
    BY <2>6, <2>7
<1>5. Len(calls') = Len(calls) /\ calls' \in Seq(Call) /\ calls \in Seq(Call)
  <2> DEFINE n == Len(calls)
             F(i) == IF calls[i].id # Head(events).call THEN calls[i]
                     ELSE [calls[i] EXCEPT
                            !.state = IF Head(events).type = "held" THEN "OnHold" ELSE "Established",
                            !.started = @ \/ Head(events).type = "established"]
  <2>1. calls' = [i \in 1 .. n |-> F(i)]
    BY <1>1
  <2> HIDE DEF F
  <2>2. \A i \in 1 .. n : F(i) \in Call
    BY <1>4, <2>1
  <2>3. calls' \in [1 .. n -> Call]
    BY <2>1, <2>2
  <2>4. calls \in Seq(Call) /\ n \in Nat
    BY DEF IInv, Screen
  <2>5. QED
    BY <2>3, <2>4, FunctionSeq
<1>6. SessionInv'
  BY <1>1, <1>2, <1>3, <1>4, <1>5, StateKeeps DEF IInv
<1>7. Screen'
  <2>1. calls' # <<>> <=> calls # <<>>
    BY <1>5, EmptySeq
  <2>2. QED
    BY <1>1, <1>2, <1>5, <2>1 DEF IInv, Screen
<1>8. Picked'
  BY <1>1, <1>2, PlanNone, PlanPicked
<1>9. QED
  BY <1>2, <1>6, <1>7, <1>8, CoreSpares DEF IInv

LEMMA ShownListed == \A c : Listed(calls, c) <=> Shown(c)
BY DEF Listed, Shown

LEMMA HandleClosedKeeps == ASSUME IInv, HandleClosed PROVE IInv' /\ SparesRest
<1>1. Take({"closed", "transferred"})
  BY DEF HandleClosed
<1>2. /\ CoreInv' /\ EventPops /\ UNCHANGED <<ua, leg, next, keys>> /\ todo = <<>>
      /\ Head(events).type \in {"closed", "transferred"} /\ Head(events) \in AppEvent
  BY <1>1, TakePops DEF IInv
<1>3. PICK h \in AppEvent : h = Head(events)
  BY <1>2
<1>4. Shown(h.call) /\ calls \in Seq(Call)
  <2>1. h.call \in Calls /\ h.call < next /\ Waiting(h.call) /\ ~ Opening(h.call)
    BY <1>2, <1>3, PopTells DEF IInv, SessionInv
  <2>2. QED
    BY <2>1 DEF IInv, SessionInv, Followed, Screen
<1> DEFINE k == CHOOSE i \in 1 .. Len(calls) : calls[i].id = h.call
           rest == Unlink(calls, k)
           sel == Reselect(rest)
<1>5. k \in 1 .. Len(calls) /\ calls[k].id = h.call
  BY <1>4 DEF Shown
<1>6. Drop(calls, h.call) = rest
  BY <1>4, ShownListed DEF Drop
<1>7. /\ report' = [report EXCEPT ![h.call] = Outcome(calls[k])] /\ selected_call' = sel
      /\ \/ /\ InState(rest, sel, "OnHold")
            /\ calls' = [rest EXCEPT ![sel].state = "Established"]
            /\ todo' = OnCall("resume", rest[sel].id)
         \/ calls' = rest /\ UNCHANGED todo
  BY <1>3, <1>4, <1>6, ShownListed DEF HandleClosed
<1> HIDE DEF k
<1>8. rest \in Seq(Call) /\ Len(rest) \in Nat /\ \A j \in 1 .. Len(rest) : rest[j] \in Call
  BY <1>4, <1>5, Remaining
<1>9. sel \in Nat \ {0} /\ sel <= IF rest = <<>> THEN 1 ELSE Len(rest)
  <2>1. selected_call \in Nat \ {0} /\ selected_call <= IF calls = <<>> THEN 1 ELSE Len(calls)
    BY DEF IInv, Screen
  <2>2. Len(calls) = Len(rest) + 1 /\ (rest = <<>> <=> Len(rest) = 0) /\ calls # <<>>
    BY <1>4, <1>5, <1>8, Unlinked, EmptySeq
  <2> HIDE DEF rest
  <2>3. QED
    BY <1>8, <2>1, <2>2 DEF Reselect
<1> HIDE DEF rest, sel
<1>10. /\ calls' \in Seq(Call) /\ Len(calls') = Len(rest)
       /\ \A j \in 1 .. Len(rest) : /\ calls'[j].id = rest[j].id /\ calls'[j].started = rest[j].started
                                    /\ calls'[j].declined = rest[j].declined
  <2>1. CASE calls' = rest
    BY <1>8, <2>1
  <2>2. CASE InState(rest, sel, "OnHold") /\ calls' = [rest EXCEPT ![sel].state = "Established"]
    <3> DEFINE e == [rest[sel] EXCEPT !.state = "Established"]
    <3>1. sel \in 1 .. Len(rest) /\ rest[sel] \in Call
      BY <1>8, <2>2 DEF InState
    <3>2. /\ e \in Call /\ e.id = rest[sel].id /\ e.started = rest[sel].started
          /\ e.declined = rest[sel].declined
      BY <3>1 DEF Call
    <3>3. calls' = [rest EXCEPT ![sel] = e]
      BY <2>2
    <3> HIDE DEF e
    <3>4. /\ calls' \in Seq(Call) /\ Len(calls') = Len(rest)
          /\ \A j \in 1 .. Len(rest) : calls'[j] = IF j = sel THEN e ELSE rest[j]
      BY <1>8, <3>1, <3>2, <3>3, ExceptSeq
    <3>5. QED
      BY <3>2, <3>4
  <2>3. QED
    BY <1>7, <2>1, <2>2
<1>11. SessionInv' /\ report' \in [Calls -> {"none", "answered", "unanswered", "missed", "rejected", "deflected"}]
  BY <1>2, <1>3, <1>5, <1>7, <1>10, ClosedKeeps DEF IInv, rest
<1>12. Plan(todo')
  <2>1. CASE UNCHANGED todo
    BY <1>2, <2>1, PlanNone
  <2>2. CASE InState(rest, sel, "OnHold") /\ todo' = OnCall("resume", rest[sel].id)
    <3>1. rest[sel].id \in Calls
      BY <1>8, <2>2 DEF InState, Call
    <3>2. QED
      BY <2>2, <3>1, PlanOnCall DEF IInv, Commands
  <2>3. QED
    BY <1>7, <2>1, <2>2
<1>13. Screen'
  <2>1. calls' = <<>> <=> rest = <<>>
    BY <1>8, <1>10, EmptySeq
  <2>2. todo' \in Seq(Command)
    BY <1>12 DEF Plan
  <2>3. QED
    BY <1>7, <1>9, <1>10, <1>11, <2>1, <2>2 DEF Screen
<1>14. QED
  BY <1>2, <1>11, <1>12, <1>13, PlanPicked, CoreSpares DEF IInv

LEMMA EventsKeep == ASSUME IInv, Events PROVE IInv' /\ SparesRest
BY IncomingKeeps, HandleStateKeeps, HandleClosedKeeps DEF Events

\* What a command or the network does to the session: nothing but what it hears.
LEMMA KindKeeps ==
  ASSUME IInv, CoreInv', UNCHANGED <<calls, selected_call, report>>,
         Minor \/ Begins \/ Reports \/ \E d \in Calls : Closes(d)
  PROVE  SessionInv' /\ SparesRest /\ next' \in Nat /\ next <= next'
<1>0. next \in Nat /\ next + 1 \in Nat /\ next <= next + 1
  BY CallsPassed DEF IInv
<1>1. CASE Minor
  <2>1. SessionInv'
    BY <1>1, SameList, MinorKeeps DEF IInv
  <2>2. SparesRest
    BY <1>1 DEF SparesRest, Minor, Like
  <2>3. QED
    BY <1>0, <1>1, <2>1, <2>2 DEF Minor
<1>2. CASE Begins
  <2>1. SessionInv'
    BY <1>2, BeginsKeeps DEF IInv
  <2>2. SparesRest
    BY <1>2 DEF SparesRest, Begins
  <2>3. QED
    BY <1>0, <1>2, <2>1, <2>2 DEF Begins
<1>3. CASE Reports
  <2>1. SessionInv'
    BY <1>3, ReportsKeep DEF IInv
  <2>2. SparesRest
    BY <1>3 DEF SparesRest, Reports
  <2>3. QED
    BY <1>0, <1>3, <2>1, <2>2 DEF Reports
<1>4. ASSUME NEW d \in Calls, Closes(d) PROVE SessionInv' /\ SparesRest /\ next' = next
  <2>1. SessionInv'
    BY <1>4, EndsKeep DEF IInv, Closes
  <2>2. SparesRest
    BY <1>4 DEF SparesRest, Closes, Ends
  <2>3. QED
    BY <1>4, <2>1, <2>2 DEF Closes, Ends
<1>5. QED
  BY <1>0, <1>1, <1>2, <1>3, <1>4

LEMMA SendCommandKeeps == ASSUME IInv, SendCommand PROVE IInv' /\ SparesRest
<1>1. /\ todo # <<>> /\ Perform(Head(todo).cmd, Head(todo).for) /\ todo' = Tail(todo)
      /\ UNCHANGED <<calls, selected_call, report>> /\ todo \in Seq(Command)
  BY DEF SendCommand, screen, IInv, Screen
<1>2. /\ todo' \in Seq(Command) /\ Len(todo) \in Nat \ {0} /\ Len(todo') = Len(todo) - 1
      /\ \A i \in 1 .. Len(todo) - 1 : todo'[i] = todo[i + 1]
      /\ Head(todo) = todo[1] /\ Head(todo) \in Command
  BY <1>1, Popped
<1>3. 1 \in 1 .. Len(todo) /\ todo[1].cmd \in Commands /\ (todo[1].cmd = "select" => todo[1].for \in Calls)
  <2>1. 1 \in 1 .. Len(todo)
    BY <1>2
  <2>2. QED
    BY <1>2, <2>1 DEF IInv, Picked, Command
<1>4. CoreInv' /\ (Minor \/ Begins \/ \E d \in Calls : Closes(d))
  BY <1>1, <1>2, <1>3, PerformKinds DEF IInv
<1>5. SessionInv' /\ SparesRest /\ next' \in Nat /\ next <= next'
  BY <1>1, <1>4, KindKeeps
<1>6. Screen'
  BY <1>1, <1>2 DEF IInv, Screen
<1>7. Picked'
  <2>1. ASSUME NEW i \in 1 .. Len(todo')
        PROVE  /\ todo'[i].cmd = "select" => todo'[i].picked
               /\ todo'[i].picked => todo'[i].for \in Calls /\ todo'[i].at <= next'
               /\ todo'[i].picked /\ todo'[i].cmd # "select" /\ i > 1 =>
                    /\ todo'[i - 1].cmd = "select" /\ todo'[i - 1].for = todo'[i].for
               /\ todo'[i].picked /\ todo'[i].cmd # "select" /\ i = 1 /\ Alive(todo[i].for)' =>
                    Current' = todo'[i].for \/ next' > todo'[i].at
    <3>1. /\ i + 1 \in 1 .. Len(todo) /\ todo'[i] = todo[i + 1] /\ todo[i + 1] \in Command /\ i + 1 > 1
          /\ i + 1 - 1 = i /\ (i > 1 => todo'[i - 1] = todo[i])
      BY <1>1, <1>2
    <3>2. PICK m \in 1 .. Len(todo) : m = i + 1 /\ m > 1 /\ m - 1 = i /\ todo'[i] = todo[m] /\ todo[m] \in Command
      BY <3>1
    <3>3. /\ todo[m].cmd = "select" => todo[m].picked
          /\ todo[m].picked => todo[m].for \in Calls /\ todo[m].at <= next
          /\ todo[m].picked /\ todo[m].cmd # "select" =>
               todo[i].cmd = "select" /\ todo[i].for = todo[m].for
      BY <3>2 DEF IInv, Picked
    <3>4. todo[m].picked => todo[m].at <= next'
      <4>1. todo[m].at \in Nat /\ next \in Nat
        BY <3>2, CallsPassed DEF Command, IInv
      <4>2. QED
        BY <1>5, <3>3, <4>1
    <3>5. ASSUME todo[m].picked, todo[m].cmd # "select", i = 1, Alive(todo[i].for)' PROVE Current' = todo[m].for
      <4>1. todo[1].cmd = "select" /\ todo[1].for = todo[m].for /\ todo[1].for \in Calls
        BY <1>3, <3>3, <3>5
      <4>2. SelectCall(todo[1].for)
        BY <1>1, <1>2, <4>1 DEF Perform
      <4>3. UNCHANGED leg /\ (Alive(todo[1].for) => Current' = todo[1].for)
        BY <4>1, <4>2, SelectMinor DEF IInv
      <4>4. Alive(todo[m].for)
        BY <3>2, <3>5, <4>3 DEF Alive
      <4>5. QED
        BY <4>1, <4>3, <4>4
    <3>6. QED
      BY <3>1, <3>2, <3>3, <3>4, <3>5
  <2>2. QED
    BY <2>1 DEF Picked
<1>8. QED
  BY <1>4, <1>5, <1>6, <1>7 DEF IInv

LEMMA NetworkKeeps == ASSUME IInv, Network PROVE IInv' /\ SparesRest
<1>1. UNCHANGED <<calls, selected_call, todo, report>>
  BY DEF Network, screen
<1>2. CoreInv' /\ (Begins \/ Reports \/ \E d \in Calls : Closes(d))
  BY NetworkKinds DEF IInv
<1>3. SessionInv' /\ SparesRest /\ next' \in Nat /\ next <= next'
  BY <1>1, <1>2, KindKeeps
<1>4. Screen'
  BY <1>1 DEF IInv, Screen
<1>5. Picked'
  <2>1. SUFFICES ASSUME NEW i \in 1 .. Len(todo)
        PROVE  /\ todo[i].cmd = "select" => todo[i].picked
               /\ todo[i].picked => todo[i].for \in Calls /\ todo[i].at <= next'
               /\ todo[i].picked /\ todo[i].cmd # "select" /\ i > 1 =>
                    /\ todo[i - 1].cmd = "select" /\ todo[i - 1].for = todo[i].for
               /\ todo[i].picked /\ todo[i].cmd # "select" /\ i = 1 /\ Alive(todo[i].for)' =>
                    Current' = todo[i].for \/ next' > todo[i].at
    BY <1>1 DEF Picked
  <2>2. todo[i] \in Command /\ todo[i].at \in Nat
    <3>1. todo \in Seq(Command)
      BY DEF IInv, Screen
    <3>2. todo[i] \in Command
      BY <3>1
    <3>3. QED
      BY <3>2 DEF Command
  <2>3. /\ todo[i].cmd = "select" => todo[i].picked
        /\ todo[i].picked => todo[i].for \in Calls /\ todo[i].at <= next
        /\ todo[i].picked /\ todo[i].cmd # "select" /\ i > 1 =>
             /\ todo[i - 1].cmd = "select" /\ todo[i - 1].for = todo[i].for
        /\ todo[i].picked /\ todo[i].cmd # "select" /\ i = 1 /\ Alive(todo[i].for) =>
             Current = todo[i].for \/ next > todo[i].at
    BY DEF IInv, Picked
  <2>4. todo[i].picked => todo[i].at <= next'
    BY <1>3, <2>2, <2>3, CallsPassed DEF IInv
  <2>5. ASSUME todo[i].picked, todo[i].cmd # "select", i = 1, Alive(todo[i].for)'
        PROVE  Current' = todo[i].for \/ next' > todo[i].at
    <3>1. PICK c \in Calls : c = todo[i].for
      BY <2>3, <2>5
    <3>2. leg'[c].st \in {"ringing", "answered", "up"}
      BY <1>1, <2>5, <3>1 DEF Alive
    <3>3. CASE Begins
      BY <2>2, <2>3, <2>5, <3>3, CallsPassed DEF Begins, IInv
    <3>4. CASE Reports
      <4>1. Alive(c)
        BY <3>2, <3>4 DEF Reports, Alive
      <4>2. Current = c \/ next > todo[i].at
        BY <2>3, <2>5, <3>1, <4>1
      <4>3. Current' = Current /\ next' = next
        BY <3>4 DEF Reports, Current
      <4>4. QED
        BY <3>1, <4>2, <4>3
    <3>5. ASSUME NEW d \in Calls, Closes(d) PROVE Current' = todo[i].for \/ next' > todo[i].at
      <4>1. c # d /\ Alive(c) /\ next' = next
        BY <3>2, <3>5 DEF Closes, Ends, Alive
      <4>2. Current = c \/ next > todo[i].at
        BY <2>3, <2>5, <3>1, <4>1
      <4>3. Len(ua) \in 1 .. Len(ua)
        <5>1. PICK j \in 1 .. Len(ua) : ua[j] = c
          BY <4>1 DEF IInv, CoreInv, Linked
        <5>2. ua # <<>>
          BY <5>1, EmptySeq
        <5>3. QED
          BY <5>2, CurrentAlive DEF IInv
      <4>4. Current = c => Current' = c
        <5>1. ASSUME Current = c PROVE Current' = c
          <6> DEFINE p == Without(ua, d)
          <6>1. ua[Len(ua)] = c /\ ua' = p
            BY <3>5, <5>1 DEF Current, Closes
          <6>2. p[Len(p)] = ua[Len(ua)]
            BY <4>1, <4>3, <6>1, Rest DEF IInv
          <6> HIDE DEF p
          <6>3. QED
            BY <6>1, <6>2 DEF Current
        <5>2. QED
          BY <5>1
      <4>5. QED
        BY <3>1, <4>1, <4>2, <4>4
    <3>6. QED
      BY <1>2, <3>3, <3>4, <3>5
  <2>6. QED
    BY <2>3, <2>4, <2>5
<1>6. QED
  BY <1>2, <1>3, <1>4, <1>5 DEF IInv

-----------------------------------------------------------------------------
(* The theorems.                                                           *)

LEMMA StutterKeeps == ASSUME IInv, UNCHANGED vars PROVE IInv' /\ SparesRest
<1>1. UNCHANGED <<core, report, selected_call, calls, todo>>
  BY DEF vars, screen
<1>2. CoreInv' /\ Minor
  BY <1>1, StillMinor DEF IInv
<1>3. SessionInv' /\ SparesRest
  BY <1>1, <1>2, KindKeeps DEF IInv
<1>4. Screen'
  BY <1>1 DEF IInv, Screen
<1>5. Picked'
  BY <1>1 DEF IInv, Picked, core, Alive, Current
<1>6. QED
  BY <1>2, <1>3, <1>4, <1>5 DEF IInv

LEMMA InitIInv == Init => IInv
<1> SUFFICES ASSUME Init PROVE IInv
  OBVIOUS
<1>2. /\ ua = <<>> /\ next = 1 /\ events = <<>> /\ calls = <<>> /\ selected_call = 1 /\ todo = <<>>
      /\ report = [c \in Calls |-> "none"]
      /\ leg = [c \in Calls |->
                 [dir |-> "in", st |-> "new", hold |-> FALSE, mic |-> FALSE,
                  referred |-> FALSE, deflected |-> FALSE, answered |-> FALSE]]
  BY DEF Init, CoreInit
<1>3. CoreTypeOK
  BY <1>2, CoreCallsAssumption DEF CoreTypeOK, Leg
<1>4. \A c \in Calls : leg[c].st = "new" /\ ~ leg[c].answered /\ ~ leg[c].deflected /\ ~ Alive(c) /\ c >= next
  BY <1>2 DEF Alive, Calls
<1>5. Legs
  BY <1>4 DEF Legs
<1>6. Linked
  BY <1>2, <1>4 DEF Linked
<1>7. \A c : ~ Waiting(c) /\ ~ Opening(c) /\ ~ Closing(c) /\ ~ Told(c) /\ ~ Shown(c)
  BY <1>2 DEF Waiting, Opening, Closing, Told, Shown
<1>8. Ordered
  BY <1>2, <1>7 DEF Ordered
<1>9. Followed
  <2>1. \A c \in Calls : ~ (c < next)
    BY <1>2 DEF Calls
  <2>2. QED
    BY <1>2, <1>4, <1>7, <2>1 DEF Followed
<1>10. Noted
  BY <1>2, <1>4, <1>7 DEF Noted
<1>11. Screen /\ Picked
  BY <1>2 DEF Screen, Picked
<1>12. QED
  BY <1>3, <1>5, <1>6, <1>8, <1>9, <1>10, <1>11 DEF IInv, CoreInv, SessionInv

LEMMA NextIInv == IInv /\ [Next]_vars => IInv' /\ SparesRest
BY KeysKeep, EventsKeep, SendCommandKeeps, NetworkKeeps, StutterKeeps DEF Next

LEMMA IInvListsAgree == IInv => ListsAgree
<1> SUFFICES ASSUME IInv PROVE ListsAgree
  OBVIOUS
<1>2. \A c \in Calls : c \in Reported({"incoming", "outgoing"}) <=> Opening(c)
  BY DEF Reported, Opening, OpenAt
<1>3. \A c \in Calls : c \in Reported({"closed", "transferred"}) <=> Closing(c)
  BY DEF Reported, Closing, CloseAt
<1>4. \A c \in Calls : c \in {calls[i].id : i \in 1 .. Len(calls)} <=> Shown(c)
  BY DEF Shown
<1>5. {calls[i].id : i \in 1 .. Len(calls)} \subseteq Calls
  BY CallIn
<1>6. Reported({"incoming", "outgoing"}) \subseteq Calls
  BY CallsPassed DEF Reported, IInv, SessionInv, Ordered
<1>7. ASSUME NEW c \in Calls PROVE Alive(c) <=> (Shown(c) \/ Opening(c)) /\ ~ Closing(c)
  <2>1. /\ leg[c].st \in {"new", "ringing", "answered", "up", "gone"}
        /\ leg[c].st = "new" <=> ~ (c < next)
        /\ Closing(c) => leg[c].st = "gone"
        /\ Shown(c) => c < next
        /\ Opening(c) => c < next
    <3>1. leg[c] \in Leg /\ (leg[c].st = "new" <=> c >= next) /\ c \in Nat /\ next \in Nat
      BY CallsPassed DEF IInv, CoreInv, CoreTypeOK, Legs
    <3>2. Shown(c) => c < next
      BY CallsPassed DEF Shown, IInv, SessionInv, Followed
    <3>3. Opening(c) => c < next
      BY CallsPassed DEF Opening, IInv, SessionInv, Ordered
    <3>4. Closing(c) => leg[c].st = "gone"
      BY DEF IInv, SessionInv, Ordered
    <3>5. leg[c].st = "new" <=> ~ (c < next)
      BY <3>1
    <3>6. QED
      BY <3>1, <3>2, <3>3, <3>4, <3>5 DEF Leg
  <2>2. /\ report[c] # "none" => leg[c].st = "gone" /\ ~ Shown(c) /\ ~ Waiting(c)
        /\ report[c] = "none" /\ leg[c].st = "gone" => Closing(c)
        /\ report[c] = "none" /\ c < next => Shown(c) \/ Opening(c)
    BY DEF IInv, SessionInv, Followed
  <2>3. Opening(c) => Waiting(c)
    BY DEF Opening, Waiting
  <2>4. QED
    BY <2>1, <2>2, <2>3 DEF Alive
<1>8. \A i, j \in 1 .. Len(calls) : calls[i].id = calls[j].id => i = j
  BY DEF IInv, SessionInv, Followed
<1>9. {c \in Calls : Alive(c)} =
        ({calls[i].id : i \in 1 .. Len(calls)} \cup Reported({"incoming", "outgoing"}))
        \ Reported({"closed", "transferred"})
  <2> DEFINE ids == {calls[i].id : i \in 1 .. Len(calls)}
             opens == Reported({"incoming", "outgoing"})
             closes == Reported({"closed", "transferred"})
  <2>1. ids \subseteq Calls /\ opens \subseteq Calls
    BY <1>5, <1>6
  <2>2. \A c \in Calls : Alive(c) <=> (c \in ids \/ c \in opens) /\ c \notin closes
    BY <1>2, <1>3, <1>4, <1>7
  <2> HIDE DEF ids, opens, closes
  <2>3. {c \in Calls : Alive(c)} = (ids \cup opens) \ closes
    BY <2>1, <2>2
  <2>4. QED
    BY <2>3 DEF ids, opens, closes
<1>10. QED
  BY <1>8, <1>9 DEF ListsAgree

LEMMA IInvEndsAreTrue == IInv => EndsAreTrue
<1> SUFFICES ASSUME IInv, NEW c \in Calls
      PROVE  /\ report[c] # "none" =>
                  /\ leg[c].st = "gone" /\ ~ Listed(calls, c)
                  /\ (report[c] = "answered") <=> leg[c].answered
                  /\ report[c] = "deflected" => leg[c].deflected
                  /\ leg[c].deflected => report[c] \in {"deflected", "rejected"}
             /\ leg[c].st = "gone" /\ report[c] = "none" => c \in Reported({"closed", "transferred"})
  BY DEF EndsAreTrue
<1>2. Listed(calls, c) <=> Shown(c)
  BY ShownListed
<1>3. c \in Reported({"closed", "transferred"}) <=> Closing(c)
  BY DEF Reported, Closing, CloseAt
<1>4. QED
  BY <1>2, <1>3 DEF IInv, SessionInv, Followed, Noted

LEMMA IInvSelectedIsHit == IInv => SelectedIsHit
<1> SUFFICES ASSUME IInv, todo # <<>>, Head(todo).picked, Head(todo).cmd # "select", Alive(Head(todo).for)
      PROVE  Current = Head(todo).for \/ next > Head(todo).at
  BY DEF SelectedIsHit
<1>2. todo \in Seq(Command)
  BY DEF IInv, Screen
<1>3. Head(todo) = todo[1] /\ Len(todo) \in Nat \ {0}
  BY <1>2, Popped
<1>4. 1 \in 1 .. Len(todo)
  BY <1>3
<1>5. QED
  BY <1>3, <1>4 DEF IInv, Picked

LEMMA SpecIInv == Spec => []IInv
BY InitIInv, NextIInv, PTL DEF Spec

\* The screen's list (call.rs) with the waiting events applied has exactly the
\* calls of baresip's list, each once, whatever keys, events and network do.
THEOREM ListsAgreeSafe == Spec => []ListsAgree
BY SpecIInv, IInvListsAgree, PTL

\* The hook and the history entry of a call (handle_call_closed) say what became
\* of it, and a call that is gone has them unless its last event still waits.
THEOREM EndsAreTrueSafe == Spec => []EndsAreTrue
BY SpecIInv, IInvEndsAreTrue, PTL

\* A command for a call that select_call made current meets that call, unless it
\* has ended or a newer call took the tail in between (phone.rs).
THEOREM SelectedIsHitSafe == Spec => []SelectedIsHit
BY SpecIInv, IInvSelectedIsHit, PTL

\* A deflection ends an incoming call that rings and touches no other (phone.rs,
\* deflect), however out of date the list it was chosen from.
THEOREM DeflectSparesSafe == Spec => DeflectSpares
<1>1. IInv /\ [Next]_vars => [\A c \in Calls : leg'[c].deflected /\ ~ leg[c].deflected
       => /\ leg[c].dir = "in" /\ leg[c].st = "ringing"
          /\ \A d \in Calls \ {c} : leg'[d] = leg[d]]_vars
  BY NextIInv DEF SparesRest
<1>2. QED
  BY <1>1, SpecIInv, PTL DEF Spec, DeflectSpares

-----------------------------------------------------------------------------
(* The form.                                                               *)

FormShape(o) ==
  o = [open |-> o.open, fields |-> o.fields, lists |-> o.lists, tab |-> o.tab, focused |-> o.focused,
       error |-> o.error, is_new |-> o.is_new, base |-> o.base]
FieldsShape(fs) == fs = [f \in FieldId \ SubMenus |-> fs[f]]
OpenForm(o) ==
  /\ FormShape(o) /\ o.open /\ o.is_new \in BOOLEAN /\ o.tab \in 1 .. TabCount
  /\ FieldsShape(o.fields) /\ o.fields["PasswordSource"] \in 1 .. 3

\* The property, of any form.
UnderFocus(o) ==
  /\ o.focused \in 1 .. CancelPos(o)
  /\ o.error # "none" => OnField(o) /\ Focus(o) = o.error
FormInv == form = NoForm \/ (OpenForm(form) /\ UnderFocus(form))

Field ==
  {"ProfileName", "DisplayName", "Username", "PasswordSource", "Password", "PasswordFile", "PasswordCmd",
   "Domain", "AuthUser", "SipHeaders", "Notes", "Transport", "Outbound", "StunServer", "Encryption", "Regint",
   "AudioCodecs", "Notify", "Mwi", "AutoHold", "HeaderViews", "Deflect", "DeflectTarget", "RejectCode"}

\* A tab has as many rows whatever the source of the password is.
LEMMA AccountRows ==
  ASSUME NEW n \in BOOLEAN, NEW s \in 1 .. 3
  PROVE  /\ Account(n, s) \in Seq(Field)
         /\ Len(Account(n, s)) = IF n THEN 9 ELSE 8
         /\ {"Username", "Domain"} \subseteq Range(Account(n, s))
         /\ n => "ProfileName" \in Range(Account(n, s))
<1> DEFINE rest == << "DisplayName", "Username", "PasswordSource", Passwords[s],
                      "Domain", "AuthUser", "SipHeaders", "Notes" >>
<1>1. Passwords[s] \in Field
  <2>1. s = 1 \/ s = 2 \/ s = 3
    OBVIOUS
  <2>2. QED
    BY <2>1 DEF Passwords, Field
<1>2. /\ rest \in Seq(Field) /\ Len(rest) = 8 /\ DOMAIN rest = 1 .. 8
      /\ rest[2] = "Username" /\ rest[5] = "Domain"
  <2>1. rest \in Seq(Field)
    <3>1. /\ "DisplayName" \in Field /\ "Username" \in Field /\ "PasswordSource" \in Field /\ "Domain" \in Field
          /\ "AuthUser" \in Field /\ "SipHeaders" \in Field /\ "Notes" \in Field
      BY DEF Field
    <3>2. QED
      BY <1>1, <3>1
  <2>2. QED
    BY <2>1
<1> HIDE DEF rest
<1>3. CASE ~ n
  <2>1. Account(n, s) = rest
    BY <1>2, <1>3 DEF Account, rest
  <2>2. QED
    BY <1>2, <1>3, <2>1 DEF Range
<1>4. CASE n
  <2> DEFINE name == << "ProfileName" >>
             rows == name \o rest
  <2>1. name \in Seq(Field) /\ Len(name) = 1 /\ name[1] = "ProfileName"
    BY DEF Field
  <2>2. Account(n, s) = rows
    BY <1>4 DEF Account, rest
  <2> HIDE DEF name
  <2>3. /\ rows \in Seq(Field) /\ Len(rows) = 9
        /\ \A i \in 1 .. 9 : rows[i] = IF i <= 1 THEN name[i] ELSE rest[i - 1]
    <3>1. /\ rows \in Seq(Field) /\ Len(rows) = Len(name) + Len(rest)
          /\ \A i \in 1 .. Len(name) + Len(rest) :
               rows[i] = IF i <= Len(name) THEN name[i] ELSE rest[i - Len(name)]
      BY <1>2, <2>1, ConcatProperties
    <3> HIDE DEF rows
    <3>2. QED
      BY <1>2, <2>1, <3>1
  <2> HIDE DEF rows
  <2>4. rows[1] = "ProfileName" /\ rows[3] = "Username" /\ rows[6] = "Domain"
    BY <1>2, <2>1, <2>3
  <2>5. DOMAIN rows = 1 .. 9
    BY <2>3, LenProperties
  <2>6. "Username" \in Range(rows) /\ "Domain" \in Range(rows) /\ "ProfileName" \in Range(rows)
    BY <2>4, <2>5 DEF Range
  <2>7. QED
    BY <1>4, <2>2, <2>3, <2>6
<1>5. QED
  BY <1>3, <1>4

LEMMA RowsOfTabs ==
  ASSUME NEW n \in BOOLEAN, NEW s \in 1 .. 3
  PROVE  /\ \A t \in 1 .. TabCount : /\ Tabs(n, s)[t] \in Seq(Field)
                                     /\ Len(Tabs(n, s)[t]) = Len(Tabs(n, 1)[t])
         /\ {"Username", "Domain"} \subseteq Range(Tabs(n, s)[1])
         /\ n => "ProfileName" \in Range(Tabs(n, s)[1])
         /\ "Regint" \in Range(Tabs(n, s)[2])
         /\ "RejectCode" \in Range(Tabs(n, s)[5])
<1>1. /\ Tabs(n, s)[1] = Account(n, s) /\ Tabs(n, 1)[1] = Account(n, 1)
      /\ \A t \in 2 .. 5 : Tabs(n, s)[t] = Tabs(n, 1)[t] /\ Tabs(n, s)[t] \in Seq(Field)
  BY DEF Tabs, Field
<1>2. "Regint" \in Range(Tabs(n, s)[2])
  <2>1. Tabs(n, s)[2][5] = "Regint" /\ 5 \in DOMAIN (Tabs(n, s)[2])
    BY DEF Tabs
  <2>2. QED
    BY <2>1 DEF Range
<1>3. "RejectCode" \in Range(Tabs(n, s)[5])
  <2>1. Tabs(n, s)[5][3] = "RejectCode" /\ 3 \in DOMAIN (Tabs(n, s)[5])
    BY DEF Tabs
  <2>2. QED
    BY <2>1 DEF Range
<1>4. 1 \in 1 .. 3
  OBVIOUS
<1>5. ASSUME NEW t \in 1 .. TabCount
      PROVE  Tabs(n, s)[t] \in Seq(Field) /\ Len(Tabs(n, s)[t]) = Len(Tabs(n, 1)[t])
  <2>1. t = 1 \/ t \in 2 .. 5
    BY DEF TabCount
  <2>2. Account(n, s) \in Seq(Field) /\ Len(Account(n, s)) = IF n THEN 9 ELSE 8
    BY AccountRows
  <2>3. Len(Account(n, 1)) = IF n THEN 9 ELSE 8
    BY <1>4, AccountRows
  <2>4. CASE t = 1
    BY <1>1, <2>2, <2>3, <2>4
  <2>5. CASE t \in 2 .. 5
    BY <1>1, <2>5
  <2>6. QED
    BY <2>1, <2>4, <2>5
<1>6. QED
  BY <1>1, <1>2, <1>3, <1>5, AccountRows

LEMMA Landing ==
  ASSUME NEW q \in Seq(Field), NEW x \in Range(q)
  PROVE  At(q, x) \in 1 .. Len(q) /\ q[At(q, x)] = x
BY DEF At, Range

\* The field that is at fault has a row.
LEMMA FaultHasRow ==
  ASSUME NEW o, OpenForm(o), NEW e, ~ Valid(o, e)
  PROVE  \E t \in 1 .. TabCount : FirstFault(o, e) \in Range(TabRows(o, t))
<1> DEFINE F(i) == WrongAt(o, i, e) /\ \A j \in 1 .. i - 1 : ~ WrongAt(o, j, e)
<1>1. DOMAIN Checked = 1 .. 5
  BY DEF Checked
<1>2. PICK i \in 1 .. 5 : WrongAt(o, i, e)
  BY <1>1 DEF Valid
<1>3. \E k \in 1 .. 5 : F(k)
  BY <1>2
<1>4. FirstFault(o, e) = Checked[CHOOSE k \in 1 .. 5 : F(k)]
  BY <1>1 DEF FirstFault
<1> HIDE DEF F
<1>5. PICK k \in 1 .. 5 : F(k) /\ FirstFault(o, e) = Checked[k]
  BY <1>3, <1>4
<1>6. WrongAt(o, k, e)
  BY <1>5 DEF F
<1>7. k = 1 => o.is_new
  BY <1>6 DEF WrongAt, Checked, Wrong
<1>8. \A t \in 1 .. TabCount : TabRows(o, t) = Tabs(o.is_new, o.fields["PasswordSource"])[t]
  BY DEF TabRows
<1>9. /\ Checked[1] = "ProfileName" /\ Checked[2] = "Username" /\ Checked[3] = "Domain"
      /\ Checked[4] = "Regint" /\ Checked[5] = "RejectCode"
  BY DEF Checked
<1>10. o.is_new \in BOOLEAN /\ o.fields["PasswordSource"] \in 1 .. 3
  BY DEF OpenForm
<1> DEFINE f == FirstFault(o, e)
           R(t) == Range(TabRows(o, t))
<1>11. f \in R(1) \/ f \in R(2) \/ f \in R(5)
  <2>1. /\ {"Username", "Domain"} \subseteq R(1) /\ (o.is_new => "ProfileName" \in R(1))
        /\ "Regint" \in R(2) /\ "RejectCode" \in R(5)
    BY <1>8, <1>10, RowsOfTabs DEF TabCount
  <2> HIDE DEF R
  <2>2. QED
    BY <1>5, <1>7, <1>9, <2>1
<1>12. QED
  BY <1>11 DEF TabCount

LEMMA FocusFieldLands ==
  ASSUME NEW o, OpenForm(o), NEW f, \E t \in 1 .. TabCount : f \in Range(TabRows(o, t))
  PROVE  LET g == [FocusField(o, f) EXCEPT !.error = f]
         IN  OpenForm(g) /\ UnderFocus(g)
<1> DEFINE t == CHOOSE i \in 1 .. TabCount : f \in Range(TabRows(o, i))
           p == At(TabRows(o, t), f)
           g == [FocusField(o, f) EXCEPT !.error = f]
<1>1. t \in 1 .. TabCount /\ f \in Range(TabRows(o, t))
  OBVIOUS
<1>2. g = [[o EXCEPT !.tab = t, !.focused = p] EXCEPT !.error = f]
  BY DEF FocusField
<1> HIDE DEF t, g
<1>3. TabRows(o, t) \in Seq(Field)
  BY <1>1, RowsOfTabs DEF TabRows, OpenForm
<1>4. p \in 1 .. Len(TabRows(o, t)) /\ TabRows(o, t)[p] = f
  BY <1>1, <1>3, Landing
<1> HIDE DEF p
<1>5. /\ FormShape(g) /\ g.open = o.open /\ g.fields = o.fields /\ g.is_new = o.is_new
      /\ g.tab = t /\ g.focused = p /\ g.error = f
  BY <1>2 DEF OpenForm, FormShape
<1>6. Rows(g) = TabRows(o, t)
  BY <1>5 DEF Rows, TabRows
<1>7. Len(TabRows(o, t)) \in Nat
  BY <1>3
<1>8. UnderFocus(g)
  BY <1>4, <1>5, <1>6, <1>7 DEF UnderFocus, CancelPos, OnField, Focus
<1>9. OpenForm(g)
  BY <1>1, <1>5 DEF OpenForm
<1>10. QED
  BY <1>8, <1>9 DEF g
-----------------------------------------------------------------------------
(* The views: a form that takes keys is open, and so is the form behind a  *)
(* sub-menu or the question whether to discard it.                         *)

PopupShape(o) ==
  /\ o = [kind |-> o.kind, name |-> o.name, yes |-> o.yes]
  /\ o.kind \in {"rename", "delete", "discard", "restart"}
DiskInv ==
  /\ disk = [n \in Names |-> disk[n]]
  /\ \A n \in Names : disk[n].is = "nothing" => disk[n] = Nothing
ViewInv ==
  /\ popup = NoPopup \/ PopupShape(popup)
  /\ (view = "form" /\ popup = NoPopup) => form.open
  /\ popup.kind = "discard" => form.open
  /\ menu # NoMenu => form.open

LEMMA FreshForm ==
  ASSUME NEW p, NEW n \in BOOLEAN
  PROVE  OpenForm(FormState(p, n)) /\ UnderFocus(FormState(p, n))
<1> DEFINE g == FormState(p, n)
<1>1. /\ FormShape(g) /\ g.open /\ g.is_new = n /\ g.tab = 1 /\ g.focused = 1
      /\ g.fields = BuildFields(p) /\ g.error = "none"
  BY DEF FormState, FormShape
<1>2. "PasswordSource" \in FieldId \ SubMenus
  <2>1. "PasswordSource" \in Range(Tabs(TRUE, 1)[1])
    <3>1. Tabs(TRUE, 1)[1] = Account(TRUE, 1) /\ Account(TRUE, 1)[4] = "PasswordSource"
          /\ 4 \in DOMAIN Account(TRUE, 1)
      BY DEF Tabs, Account
    <3>2. QED
      BY <3>1 DEF Range
  <2>2. 1 \in 1 .. 3 /\ 1 \in 1 .. TabCount
    BY DEF TabCount
  <2> DEFINE R(source, t) == Range(Tabs(TRUE, source)[t])
             All == {R(source, t) : source \in 1 .. 3, t \in 1 .. TabCount}
  <2>3. R(1, 1) \in All
    <3> HIDE DEF R
    <3>1. QED
      BY <2>2
  <2> HIDE DEF All
  <2>4. "PasswordSource" \in UNION All
    BY <2>1, <2>3
  <2>5. UNION All = FieldId
    BY DEF All, FieldId
  <2>6. QED
    BY <2>4, <2>5 DEF SubMenus
<1>3. FieldsShape(BuildFields(p)) /\ BuildFields(p)["PasswordSource"] = PasswordSource(p)
  <2> DEFINE B(f) == CASE f = "ProfileName" -> Blank
                       [] f = "PasswordSource" -> PasswordSource(p)
                       [] f \in {"Transport", "Encryption"} -> OptionOf(f, p[f])
                       [] f \in Optional -> Text(p[f])
                       [] OTHER -> p[f]
             b == BuildFields(p)
  <2>1. b = [f \in FieldId \ SubMenus |-> B(f)]
    BY DEF BuildFields
  <2>2. B("PasswordSource") = PasswordSource(p)
    BY DEF Optional
  <2> HIDE DEF B, b
  <2>3. FieldsShape(b)
    BY <2>1 DEF FieldsShape
  <2>4. b["PasswordSource"] = B("PasswordSource")
    BY <1>2, <2>1
  <2>5. QED
    BY <2>2, <2>3, <2>4 DEF b
<1>4. PasswordSource(p) \in 1 .. 3
  BY DEF PasswordSource
<1> HIDE DEF g
<1>5. OpenForm(g)
  BY <1>1, <1>3, <1>4 DEF OpenForm, TabCount
<1>6. Rows(g) \in Seq(Field)
  BY <1>5, RowsOfTabs DEF Rows, TabRows, OpenForm
<1>7. Len(Rows(g)) \in Nat
  BY <1>6
<1>8. UnderFocus(g)
  BY <1>1, <1>7 DEF UnderFocus, CancelPos
<1>9. QED
  BY <1>5, <1>8 DEF g

\* A form whose tab has as many rows as the focus needs and that shows no error.
LEMMA CleanForm ==
  ASSUME NEW o, OpenForm(o), NEW g, FormShape(g), g.open, g.is_new = o.is_new,
         g.error = "none", g.tab \in 1 .. TabCount, FieldsShape(g.fields),
         g.fields["PasswordSource"] \in 1 .. 3,
         g.focused = 1 \/ (g.tab = o.tab /\ g.focused \in 1 .. CancelPos(o))
  PROVE  OpenForm(g) /\ UnderFocus(g)
<1>1. OpenForm(g)
  BY DEF OpenForm
<1>2. /\ Rows(g) \in Seq(Field) /\ Rows(o) \in Seq(Field)
      /\ Len(Rows(g)) = Len(Tabs(g.is_new, 1)[g.tab]) /\ Len(Rows(o)) = Len(Tabs(o.is_new, 1)[o.tab])
  BY <1>1, RowsOfTabs DEF Rows, TabRows, OpenForm
<1>3. Len(Rows(g)) \in Nat /\ (g.tab = o.tab => Len(Rows(g)) = Len(Rows(o)))
  BY <1>2
<1>4. g.focused \in 1 .. CancelPos(g)
  BY <1>3 DEF CancelPos
<1>5. QED
  BY <1>1, <1>4 DEF UnderFocus

LEMMA CleanShape ==
  ASSUME OpenForm(form)
  PROVE  /\ FormShape(Clean) /\ Clean.error = "none"
         /\ Clean.fields = form.fields /\ Clean.open = form.open /\ Clean.is_new = form.is_new
         /\ Clean.tab = form.tab /\ Clean.focused = form.focused
<1> DEFINE g == Clean
<1>1. g = [form EXCEPT !.error = "none"] /\ FormShape(form)
  BY DEF Clean, OpenForm
<1> HIDE DEF g
<1>2. /\ FormShape(g) /\ g.error = "none"
      /\ g.fields = form.fields /\ g.open = form.open /\ g.is_new = form.is_new
      /\ g.tab = form.tab /\ g.focused = form.focused
  BY <1>1 DEF FormShape
<1>3. QED
  BY <1>2 DEF g

LEMMA FormOfKey ==
  ASSUME OpenForm(form), UnderFocus(form), SwitchTab \/ MoveFocus \/ FieldKey
  PROVE  OpenForm(form') /\ UnderFocus(form')
<1>1. FormShape(Clean) /\ Clean.error = "none"
      /\ Clean.fields = form.fields /\ Clean.open = form.open /\ Clean.is_new = form.is_new
      /\ Clean.tab = form.tab /\ Clean.focused = form.focused
  BY CleanShape
<1>2. CASE SwitchTab
  <2>1. PICK t \in 1 .. TabCount : form' = [Clean EXCEPT !.tab = t, !.focused = 1]
    BY <1>2 DEF SwitchTab
  <2>2. /\ FormShape(form') /\ form'.error = "none" /\ form'.fields = form.fields /\ form'.open = form.open
        /\ form'.is_new = form.is_new /\ form'.tab = t /\ form'.focused = 1
    BY <1>1, <2>1 DEF FormShape
  <2>3. QED
    BY <2>2, CleanForm DEF OpenForm
<1>3. CASE MoveFocus
  <2>1. PICK to \in 1 .. CancelPos(form) : form' = [Clean EXCEPT !.focused = to]
    BY <1>3 DEF MoveFocus
  <2>2. /\ FormShape(form') /\ form'.error = "none" /\ form'.fields = form.fields /\ form'.open = form.open
        /\ form'.is_new = form.is_new /\ form'.tab = form.tab /\ form'.focused = to
    BY <1>1, <2>1 DEF FormShape
  <2>3. QED
    BY <2>2, CleanForm DEF OpenForm
<1>4. CASE FieldKey
  <2> DEFINE f == Focus(form)
  <2>1. PICK v : /\ form' = [Clean EXCEPT !.fields[f] = v]
                 /\ f = "PasswordSource" => v \in 1 .. 3
    BY <1>4 DEF FieldKey, Toggles
  <2> HIDE DEF f
  <2>2. /\ FormShape(form') /\ form'.error = "none" /\ form'.fields = [form.fields EXCEPT ![f] = v]
        /\ form'.open = form.open
        /\ form'.is_new = form.is_new /\ form'.tab = form.tab /\ form'.focused = form.focused
    BY <1>1, <2>1 DEF FormShape
  <2>3. FieldsShape(form'.fields) /\ form'.fields["PasswordSource"] \in 1 .. 3
    <3>1. FieldsShape(form.fields) /\ form.fields["PasswordSource"] \in 1 .. 3
      BY DEF OpenForm
    <3> DEFINE fs == form.fields
               gs == form'.fields
    <3>2. gs = [fs EXCEPT ![f] = v]
      BY <2>2
    <3> HIDE DEF fs, gs
    <3>3. gs["PasswordSource"] = IF f = "PasswordSource" /\ f \in DOMAIN fs THEN v ELSE fs["PasswordSource"]
      BY <3>1, <3>2 DEF FieldsShape, fs
    <3>4. FieldsShape(gs)
      BY <3>1, <3>2 DEF FieldsShape, fs
    <3>5. QED
      BY <2>1, <3>1, <3>3, <3>4 DEF fs, gs
  <2>4. form.focused \in 1 .. CancelPos(form)
    BY DEF UnderFocus
  <2>5. QED
    BY <2>2, <2>3, <2>4, CleanForm DEF OpenForm
<1>5. QED
  BY <1>2, <1>3, <1>4

LEMMA FormCleaned ==
  ASSUME OpenForm(form), UnderFocus(form), form' = Clean
  PROVE  OpenForm(form') /\ UnderFocus(form')
<1>1. /\ FormShape(form') /\ form'.error = "none" /\ form'.fields = form.fields /\ form'.open = form.open
      /\ form'.is_new = form.is_new /\ form'.tab = form.tab /\ form'.focused = form.focused
  BY CleanShape
<1>2. QED
  BY <1>1, CleanForm DEF OpenForm, UnderFocus

LEMMA FormOfSave ==
  ASSUME OpenForm(form), NEW e, SaveRefused(e)
  PROVE  OpenForm(form') /\ UnderFocus(form')
<1>1. form' = [FocusField(form, FirstFault(form, e)) EXCEPT !.error = FirstFault(form, e)]
  BY DEF SaveRefused
<1>2. \E t \in 1 .. TabCount : FirstFault(form, e) \in Range(TabRows(form, t))
  BY FaultHasRow DEF SaveRefused
<1>3. QED
  BY <1>1, <1>2, FocusFieldLands

LEMMA FormOfMenu ==
  ASSUME OpenForm(form), UnderFocus(form), NEW l, NEW r, form' = [form EXCEPT !.lists[l] = r]
  PROVE  OpenForm(form') /\ UnderFocus(form')
<1>1. /\ FormShape(form') /\ form'.error = form.error /\ form'.fields = form.fields /\ form'.open = form.open
      /\ form'.is_new = form.is_new /\ form'.tab = form.tab /\ form'.focused = form.focused
  BY DEF OpenForm, FormShape
<1>2. Rows(form') = Rows(form)
  BY <1>1 DEF Rows, TabRows
<1>3. QED
  BY <1>1, <1>2 DEF OpenForm, UnderFocus, CancelPos, OnField, Focus

-----------------------------------------------------------------------------
(* From one view to the next.                                              *)

\* No form, no menu, no question.
LEMMA ViewsGone ==
  ASSUME form' = NoForm, menu' = NoMenu, popup' = NoPopup, view' # "form"
  PROVE  FormInv' /\ ViewInv'
BY DEF FormInv, ViewInv, NoPopup

LEMMA PickerShown == ASSUME NEW n, ShowPicker(n) PROVE FormInv' /\ ViewInv'
BY ViewsGone DEF ShowPicker

LEMMA Exited == ASSUME NEW how, NEW term, Exit(how, term) PROVE FormInv' /\ ViewInv'
BY ViewsGone DEF Exit

LEMMA Failed == ASSUME Fail PROVE FormInv' /\ ViewInv'
BY Exited DEF Fail

LEMMA Started == ASSUME NEW n, StartProfile(n) PROVE FormInv' /\ ViewInv'
<1>1. CASE Exit("error", terminal)
  BY <1>1, Exited
<1>2. CASE view' = "session" /\ form' = NoForm /\ menu' = NoMenu /\ popup' = NoPopup
  BY <1>2, ViewsGone
<1>3. QED
  BY <1>1, <1>2 DEF StartProfile

LEMMA FormClosed == ASSUME NEW n, CloseForm(n) PROVE FormInv' /\ ViewInv'
<1>1. CASE ShowPicker(n)
  BY <1>1, PickerShown
<1>2. CASE view' = "session" /\ form' = NoForm /\ menu' = NoMenu /\ popup' = NoPopup
  BY <1>2, ViewsGone
<1>3. QED
  BY <1>1, <1>2 DEF CloseForm

\* A form that is open whatever the popup.
LEMMA FormStaysOpen ==
  ASSUME OpenForm(form'), UnderFocus(form'), popup' = NoPopup \/ PopupShape(popup')
  PROVE  FormInv' /\ ViewInv'
BY DEF FormInv, ViewInv, OpenForm

LEMMA FormShown ==
  ASSUME ViewInv, NEW p, NEW n \in BOOLEAN, NEW kind, NEW name, ShowForm(p, n, kind, name)
  PROVE  FormInv' /\ ViewInv'
<1>1. form' = FormState(p, n) /\ popup' = popup
  BY DEF ShowForm
<1>2. OpenForm(form') /\ UnderFocus(form')
  BY <1>1, FreshForm
<1>3. popup' = NoPopup \/ PopupShape(popup')
  BY <1>1 DEF ViewInv
<1>4. QED
  BY <1>2, <1>3, FormStaysOpen

LEMMA SameViews ==
  ASSUME FormInv, ViewInv, UNCHANGED <<form, menu, view, popup>>
  PROVE  FormInv' /\ ViewInv'
BY DEF FormInv, ViewInv

LEMMA Asked ==
  ASSUME NEW kind \in {"rename", "delete", "discard", "restart"}, NEW name, NEW yes,
         popup' = [kind |-> kind, name |-> name, yes |-> yes]
  PROVE  PopupShape(popup') /\ popup'.kind = kind /\ popup' # NoPopup
BY DEF PopupShape, NoPopup

LEMMA FormIsOpen ==
  ASSUME FormInv, form.open
  PROVE  OpenForm(form) /\ UnderFocus(form)
BY DEF FormInv, NoForm

LEMMA ViewsStep == ASSUME FormInv, ViewInv, [ProfilesNext]_views PROVE FormInv' /\ ViewInv'
<1>1. CASE Launch
  BY <1>1, PickerShown, Started DEF Launch
<1>2. CASE MoveSelection \/ EditQuery \/ Elsewhere
  BY <1>2, SameViews DEF MoveSelection, EditQuery, Elsewhere
<1>3. CASE PickStart
  BY <1>3, PickerShown, Started DEF PickStart
<1>4. CASE PickNew
  BY <1>4, FormShown DEF PickNew
<1>5. CASE PickClone
  BY <1>5, FormShown, PickerShown DEF PickClone
<1>6. CASE PickEdit
  BY <1>6, FormShown, PickerShown DEF PickEdit
<1>7. CASE PickConfirm
  <2>1. PICK kind \in {"rename", "delete"} :
          popup' = [kind |-> kind, name |-> SelectedRow.name, yes |-> FALSE]
    BY <1>7 DEF PickConfirm
  <2>2. PopupShape(popup') /\ popup'.kind \in {"rename", "delete"} /\ popup' # NoPopup
    BY <2>1, Asked
  <2>3. UNCHANGED <<form, menu, view>>
    BY <1>7 DEF PickConfirm
  <2>4. QED
    BY <2>2, <2>3 DEF FormInv, ViewInv
<1>8. CASE PickQuit \/ SessionQuit
  BY <1>8, Exited DEF PickQuit, SessionQuit
<1>9. CASE ToggleAnswer
  <2>1. PopupShape(popup) /\ popup' = [popup EXCEPT !.yes = ~ @]
    BY <1>9 DEF ToggleAnswer, ViewInv, NoPopup
  <2>2. PopupShape(popup') /\ popup'.kind = popup.kind /\ popup' # NoPopup
    BY <2>1 DEF PopupShape, NoPopup
  <2>3. UNCHANGED <<form, menu, view>>
    BY <1>9 DEF ToggleAnswer
  <2>4. QED
    BY <2>2, <2>3 DEF FormInv, ViewInv
<1>10. CASE DeleteAnswered
  BY <1>10, PickerShown, Failed DEF DeleteAnswered
<1>11. CASE Rename
  BY <1>11, PickerShown, Failed DEF Rename
<1>12. CASE DiscardAnswered
  <2>1. CASE CloseForm(CancelFocus)
    BY <2>1, FormClosed
  <2>2. CASE No("discard") /\ popup' = NoPopup /\ UNCHANGED form
    <3>1. OpenForm(form) /\ UnderFocus(form)
      BY <2>2, FormIsOpen DEF No, ViewInv
    <3>2. QED
      BY <2>2, <3>1, FormStaysOpen
  <2>3. QED
    BY <1>12, <2>1, <2>2 DEF DiscardAnswered
<1>13. CASE RestartAnswered
  BY <1>13, Started, FormClosed DEF RestartAnswered
<1>14. ASSUME AtForm PROVE OpenForm(form) /\ UnderFocus(form) /\ popup = NoPopup
  BY <1>14, FormIsOpen DEF AtForm, ViewInv
<1>15. CASE FormKey
  <2>1. SwitchTab \/ MoveFocus \/ FieldKey
    BY <1>15 DEF FormKey
  <2>2. AtForm /\ popup' = popup
    BY <1>15 DEF FormKey
  <2>3. OpenForm(form') /\ UnderFocus(form')
    BY <1>14, <2>1, <2>2, FormOfKey
  <2>4. QED
    BY <1>14, <2>2, <2>3, FormStaysOpen
<1>16. CASE FormMenu
  <2>1. AtForm /\ popup' = popup /\ form' = Clean
    BY <1>16 DEF FormMenu, OpenMenu
  <2>2. OpenForm(form') /\ UnderFocus(form')
    BY <1>14, <2>1, FormCleaned
  <2>3. QED
    BY <1>14, <2>1, <2>2, FormStaysOpen
<1>17. CASE MenuStep
  <2>1. OpenForm(form) /\ UnderFocus(form) /\ popup' = popup
    BY <1>17, FormIsOpen DEF MenuStep, ViewInv
  <2>2. form' = form \/ LeaveMenu
    BY <1>17 DEF MenuStep, MenuMove, ToggleCodec, MoveCodec, AddHeader, RemoveHeader, TypeHeader
  <2>3. OpenForm(form') /\ UnderFocus(form')
    BY <2>1, <2>2, FormOfMenu DEF LeaveMenu
  <2>4. QED
    BY <2>1, <2>3, FormStaysOpen DEF ViewInv
<1>18. CASE FormCancel
  <2>1. CASE CloseForm(CancelFocus)
    BY <2>1, FormClosed
  <2>2. CASE form' = Clean /\ Ask("discard")
    <3>1. OpenForm(form') /\ UnderFocus(form')
      BY <1>14, <1>18, <2>2, FormCleaned DEF FormCancel
    <3>2. PopupShape(popup')
      BY <2>2, Asked DEF Ask
    <3>3. QED
      BY <3>1, <3>2, FormStaysOpen
  <2>3. QED
    BY <1>18, <2>1, <2>2 DEF FormCancel
<1>19. CASE FormEditor
  <2>1. CASE Fail
    BY <2>1, Failed
  <2>2. CASE popup' = popup /\ (form' = Clean \/ \E p : form' = FormState(p, FALSE))
    <3>1. OpenForm(form') /\ UnderFocus(form')
      BY <1>14, <1>19, <2>2, FormCleaned, FreshForm DEF FormEditor
    <3>2. QED
      BY <1>14, <1>19, <2>2, <3>1, FormStaysOpen DEF FormEditor
  <2>3. QED
    BY <1>19, <2>1, <2>2 DEF FormEditor
<1>20. CASE FormSave
  <2>1. CASE SaveRefused(Existing) /\ popup' = popup
    <3>1. OpenForm(form') /\ UnderFocus(form')
      BY <1>14, <1>20, <2>1, FormOfSave DEF FormSave
    <3>2. QED
      BY <1>14, <1>20, <2>1, <3>1, FormStaysOpen DEF FormSave
  <2>2. CASE \E n : ShowPicker(n)
    BY <2>2, PickerShown
  <2>3. CASE /\ form' = NoForm /\ menu' = menu
             /\ \E n : popup' = [kind |-> "restart", name |-> n, yes |-> TRUE]
    <3>1. PopupShape(popup') /\ popup'.kind = "restart" /\ popup' # NoPopup
      BY <2>3, Asked
    <3>2. menu' = NoMenu
      BY <1>20, <2>3 DEF FormSave, AtForm
    <3>3. QED
      BY <2>3, <3>1, <3>2 DEF FormInv, ViewInv
  <2>4. QED
    BY <1>20, <2>1, <2>2, <2>3 DEF FormSave
<1>21. CASE SessionEdit
  BY <1>21, FormShown, Failed DEF SessionEdit
<1>22. CASE SessionSwitch
  BY <1>22, PickerShown DEF SessionSwitch
<1>23. CASE UNCHANGED views
  BY <1>23, SameViews DEF views
<1>24. QED
  BY <1>1, <1>2, <1>3, <1>4, <1>5, <1>6, <1>7, <1>8, <1>9, <1>10, <1>11, <1>12, <1>13, <1>15,
     <1>16, <1>17, <1>18, <1>19, <1>20, <1>21, <1>22, <1>23 DEF ProfilesNext

-----------------------------------------------------------------------------
(* What is on disk.                                                        *)

InPicker == {items[i].name : i \in DOMAIN items}

\* The ways in which a step writes profiles.
EditsPicked == \E c \in Contents : /\ AtPicker /\ ~ Loads(SelectedRow.name)
                                   /\ disk' = [disk EXCEPT ![SelectedRow.name] = c]
EditsOpen == \E c \in Contents : /\ AtForm /\ ~ form.is_new
                                 /\ disk' = [disk EXCEPT ![origin.name] = c]
Deletes == /\ popup.kind = "delete" /\ popup.yes
           /\ disk' = [disk EXCEPT ![popup.name] = Nothing]
Renames == \E new \in Names \ InPicker :
             /\ popup.kind = "rename" /\ disk[popup.name].is # "nothing" /\ disk[new].is = "nothing"
             /\ disk' = [disk EXCEPT ![new] = disk[popup.name], ![popup.name] = Nothing]
Saves == /\ AtForm /\ Valid(form, Existing)
         /\ LET n == IF form.is_new THEN form.fields["ProfileName"] ELSE origin.name
            IN  disk' = [disk EXCEPT ![n] = Stored(Extract(form))]
Writes == EditsPicked \/ EditsOpen \/ Deletes \/ Renames \/ Saves

LEMMA DiskStep ==
  ASSUME [ProfilesNext]_views
  PROVE  UNCHANGED disk \/ Elsewhere \/ Writes
<1>1. CASE \/ MoveSelection \/ EditQuery \/ PickConfirm \/ PickQuit \/ ToggleAnswer
           \/ SessionSwitch \/ SessionQuit \/ FormKey \/ FormMenu \/ MenuStep
  BY <1>1 DEF MoveSelection, EditQuery, PickConfirm, PickQuit, ToggleAnswer,
     SessionSwitch, SessionQuit, FormKey, FormMenu, MenuStep, files
<1>2. ASSUME NEW n, StartProfile(n) PROVE UNCHANGED disk
  BY <1>2 DEF StartProfile, files
<1>3. ASSUME NEW p, NEW b, NEW kind, NEW n, ShowForm(p, b, kind, n) PROVE UNCHANGED disk
  BY <1>3 DEF ShowForm, files
<1>4. CASE Launch \/ PickStart \/ PickNew \/ PickClone \/ SessionEdit
  BY <1>2, <1>3, <1>4 DEF Launch, PickStart, PickNew, PickClone, SessionEdit, files
<1>5. CASE RestartAnswered \/ DiscardAnswered
  BY <1>2, <1>5 DEF RestartAnswered, DiscardAnswered, files
<1>6. CASE FormCancel
  BY <1>6 DEF FormCancel, Ask, files
<1>7. CASE PickEdit
  <2>1. CASE Loads(SelectedRow.name)
    BY <1>3, <1>7, <2>1 DEF PickEdit
  <2>2. CASE ~ Loads(SelectedRow.name) /\ ChangeFile(SelectedRow.name)
    <3>1. EditsPicked
      BY <1>7, <2>2 DEF PickEdit, OnRow, ChangeFile, EditsPicked
    <3>2. QED
      BY <3>1 DEF Writes
  <2>3. QED
    BY <1>7, <2>1, <2>2 DEF PickEdit
<1>8. CASE FormEditor
  <2>1. CASE form.is_new
    BY <1>8, <2>1 DEF FormEditor, files
  <2>2. CASE ~ form.is_new /\ ChangeFile(origin.name)
    <3>1. EditsOpen
      BY <1>8, <2>2 DEF FormEditor, ChangeFile, EditsOpen
    <3>2. QED
      BY <3>1 DEF Writes
  <2>3. QED
    BY <1>8, <2>1, <2>2 DEF FormEditor
<1>9. CASE DeleteAnswered
  <2>1. UNCHANGED files \/ Deletes
    BY <1>9 DEF DeleteAnswered, Yes, EnterAnswers, Deletes
  <2>2. QED
    BY <2>1 DEF files, Writes
<1>10. CASE Rename
  <2>1. UNCHANGED files \/ Renames
    BY <1>10 DEF Rename, Renames, InPicker
  <2>2. QED
    BY <2>1 DEF files, Writes
<1>11. CASE FormSave
  <2>1. UNCHANGED files \/ Saves
    BY <1>11 DEF FormSave, Saves
  <2>2. QED
    BY <2>1 DEF files, Writes
<1>12. CASE UNCHANGED views
  BY <1>12 DEF views, files
<1>13. QED
  BY <1>1, <1>4, <1>5, <1>6, <1>7, <1>8, <1>9, <1>10, <1>11, <1>12 DEF ProfilesNext

LEMMA DiskKept == ASSUME DiskInv, [ProfilesNext]_views PROVE DiskInv'
<1>1. CASE UNCHANGED disk
  BY <1>1 DEF DiskInv
<1>2. ASSUME NEW n, NEW c, c.is = "nothing" => c = Nothing, disk' = [disk EXCEPT ![n] = c]
      PROVE  DiskInv'
  BY <1>2 DEF DiskInv
<1>3. \A c \in Contents : c.is = "nothing" => c = Nothing
  BY DEF Contents, Nothing, Unreadable, Stored
<1>4. CASE Elsewhere
  BY <1>2, <1>3, <1>4 DEF Elsewhere, ChangeFile
<1>5. CASE EditsPicked \/ EditsOpen
  BY <1>2, <1>3, <1>5 DEF EditsPicked, EditsOpen
<1>6. CASE Deletes
  BY <1>2, <1>6 DEF Deletes
<1>7. CASE Renames
  <2> DEFINE old == popup.name
  <2>1. PICK new \in Names : /\ disk' = [disk EXCEPT ![new] = disk[old], ![old] = Nothing]
                             /\ disk[old].is # "nothing"
    BY <1>7 DEF Renames
  <2> HIDE DEF old
  <2>2. QED
    BY <2>1 DEF DiskInv
<1>8. CASE Saves
  <2>1. PICK n : disk' = [disk EXCEPT ![n] = Stored(Extract(form))]
    BY <1>8 DEF Saves
  <2>2. Stored(Extract(form)).is # "nothing"
    BY DEF Stored
  <2>3. QED
    BY <1>2, <2>1, <2>2
<1>9. QED
  BY <1>1, <1>4, <1>5, <1>6, <1>7, <1>8, DiskStep DEF Writes

ViewsInv == FormInv /\ ViewInv /\ DiskInv

LEMMA ViewsInit == ProfilesInit => ViewsInv
<1> SUFFICES ASSUME ProfilesInit PROVE ViewsInv
  OBVIOUS
<1>1. FormInv /\ ViewInv
  BY DEF ProfilesInit, FormInv, ViewInv, NoPopup
<1>2. \A c \in Contents : c.is = "nothing" => c = Nothing
  BY DEF Contents, Nothing, Unreadable, Stored
<1>3. disk \in [Names -> Contents]
  BY DEF ProfilesInit
<1>4. DiskInv
  BY <1>2, <1>3 DEF DiskInv
<1>5. QED
  BY <1>1, <1>4 DEF ViewsInv

LEMMA ViewsHold == ProfilesSpec => []ViewsInv
<1>1. ViewsInv /\ [ProfilesNext]_views => ViewsInv'
  BY ViewsStep, DiskKept DEF ViewsInv
<1>2. QED
  BY <1>1, ViewsInit, PTL DEF ProfilesSpec

\* An error of the form is about the field under the focus, and the focus is
\* on a row or a button (ErrorUnderFocus), whatever source the password has:
\* all three show as many rows.
THEOREM ErrorsUnderFocus == ProfilesSpec => []ErrorUnderFocus
<1>1. ViewsInv => ErrorUnderFocus
  BY FormIsOpen DEF ViewsInv, UnderFocus, ErrorUnderFocus
<1>2. QED
  BY <1>1, ViewsHold, PTL

\* What a step does to a profile that the picker lists.
SparesStep ==
  \A n \in Names :
    /\ ~ Elsewhere /\ disk[n].is # "nothing" /\ disk'[n] # disk[n]
    /\ n \in {items[i].name : i \in DOMAIN items}
    => \/ form.open /\ ~ form.is_new /\ origin.name = n
       \/ AtPicker /\ SelectedRow.name = n /\ ~ Loads(n)
       \/ popup.kind = "delete" /\ popup.name = n /\ popup.yes
       \/ /\ popup.kind = "rename" /\ popup.name = n
          /\ \E m \in Names : disk[m] = Nothing /\ disk'[m] = disk[n]

LEMMA SparesOfStep == ASSUME ViewsInv, [ProfilesNext]_views PROVE SparesStep
<1> SUFFICES ASSUME NEW n \in Names, ~ Elsewhere, disk[n].is # "nothing", disk'[n] # disk[n],
                    n \in InPicker
             PROVE  \/ form.open /\ ~ form.is_new /\ origin.name = n
                    \/ AtPicker /\ SelectedRow.name = n /\ ~ Loads(n)
                    \/ popup.kind = "delete" /\ popup.name = n /\ popup.yes
                    \/ /\ popup.kind = "rename" /\ popup.name = n
                       /\ \E m \in Names : disk[m] = Nothing /\ disk'[m] = disk[n]
  BY DEF SparesStep, InPicker
<1>1. DOMAIN disk = Names
  BY DEF ViewsInv, DiskInv
<1>2. AtForm => form.open
  BY DEF AtForm, ViewsInv, ViewInv
<1>3. CASE EditsPicked
  BY <1>1, <1>3 DEF EditsPicked
<1>4. CASE EditsOpen
  BY <1>1, <1>2, <1>4 DEF EditsOpen
<1>5. CASE Deletes
  BY <1>1, <1>5 DEF Deletes
<1>6. CASE Renames
  <2> DEFINE old == popup.name
  <2>1. PICK m \in Names \ InPicker :
               /\ popup.kind = "rename" /\ disk[old].is # "nothing" /\ disk[m].is = "nothing"
               /\ disk' = [disk EXCEPT ![m] = disk[old], ![old] = Nothing]
    BY <1>6 DEF Renames
  <2>2. disk[m] = Nothing
    BY <2>1 DEF ViewsInv, DiskInv
  <2> HIDE DEF old
  <2>3. n # m /\ old # m
    BY <2>1
  <2>4. old = n
    BY <1>1, <2>1, <2>3
  <2>5. disk'[m] = disk[n]
    BY <1>1, <2>1, <2>3, <2>4
  <2>6. QED
    BY <2>1, <2>2, <2>4, <2>5 DEF old
<1>7. CASE Saves
  <2>1. CASE form.is_new
    <3> DEFINE name == form.fields["ProfileName"]
    <3>1. disk' = [disk EXCEPT ![name] = Stored(Extract(form))]
      BY <1>7, <2>1 DEF Saves
    <3>2. ~ Wrong(form, "ProfileName", Existing)
      <4>1. 1 \in DOMAIN Checked /\ Checked[1] = "ProfileName"
        BY DEF Checked
      <4>2. QED
        BY <1>7, <4>1 DEF Saves, Valid, WrongAt
    <3>3. name \notin InPicker
      BY <2>1, <3>2 DEF Wrong, Existing, InPicker
    <3> HIDE DEF name
    <3>4. QED
      BY <1>1, <3>1, <3>3
  <2>2. CASE ~ form.is_new
    BY <1>1, <1>2, <1>7, <2>2 DEF Saves
  <2>3. QED
    BY <2>1, <2>2
<1>8. QED
  BY <1>3, <1>4, <1>5, <1>6, <1>7, DiskStep DEF Writes

\* No key, popup or view loses a profile that the picker listed (Spares): one
\* is overwritten or gone only through a form or an editor opened for it, by
\* its own confirmed deletion, or under the free name it was given.
THEOREM ProfilesSpared == ProfilesSpec => Spares
<1>1. ViewsInv /\ [ProfilesNext]_views => [SparesStep]_views
  BY SparesOfStep
<1>2. Spares <=> [][SparesStep]_views
  BY PTL DEF Spares, SparesStep
<1>3. QED
  BY <1>1, <1>2, ViewsHold, PTL DEF ProfilesSpec
=============================================================================
