-------------------------- MODULE McpEventLogProofs --------------------------
(***************************************************************************)
(* Proofs about the event log, for any number of clients and of bridges    *)
(* that append at once: no cursor waiter misses its wakeup, no event is    *)
(* skipped, and a page tells of what it passes over.  The order of the     *)
(* ring is known around every id whose append met no other: it is inside   *)
(* the ring where its number puts it, and what left before it is smaller.  *)
(***************************************************************************)
EXTENDS McpEventLog, FiniteSetTheorems, SequenceTheorems, TLAPS

NotStarted == \A g \in Gens : g > started => bridge[g] = "none"

\* The ring is in the order of the ids, two that crossed each other aside.
Ordered ==
  \A j, k \in 1 .. Len(entries) :
    j < k /\ (entries[j] \notin crossed \/ entries[k] \notin crossed)
      => entries[j] < entries[k]

\* What is on its way in is newer than what is in.
Ahead ==
  \A g \in Gens : \A k \in 1 .. Len(entries) :
    bridge[g] = "push" /\ (entries[k] \notin crossed \/ bid[g] \notin crossed)
      => entries[k] < bid[g]

\* Two ids on their way in at once have crossed.
Meet ==
  \A g, h \in Gens :
    bridge[g] = "push" /\ bridge[h] = "push" /\ g # h => bid[g] \in crossed

\* What left the ring is older than all that is in it or on its way.
Gone ==
  \A i \in Ids :
    i \notin crossed /\ i \notin Held \cup Flying
      => /\ entries # <<>>
         /\ \A k \in 1 .. Len(entries) : i < entries[k]
         /\ \A g \in Gens : bridge[g] = "push" => i < bid[g]

Behind == \A c \in Clients : cursor[c] < next_id

IInv == Ordered /\ Ahead /\ Meet /\ Gone /\ Behind /\ NoSkip

-----------------------------------------------------------------------------
(* Lemmas about the ring.                                                  *)

\* A sequence over a set is one over any larger set.
LEMMA SeqMono ==
  ASSUME NEW S, NEW T, S \subseteq T, NEW s \in Seq(S)
  PROVE  s \in Seq(T)
<1>1. /\ s \in [1 .. Len(s) -> S]
      /\ Len(s) \in Nat
  OBVIOUS
<1>2. s \in [1 .. Len(s) -> T]
  BY <1>1
<1>3. QED
  BY <1>1, <1>2, SeqDef

Pushed(s, x) ==
  LET p == Append(s, x) IN IF Len(p) > Capacity THEN Tail(p) ELSE p

\* The ring keeps its bound and its type under a push.
LEMMA PushFits ==
  ASSUME NEW S, NEW s \in Seq(S), NEW x \in S, Len(s) <= Capacity
  PROVE  Pushed(s, x) \in Seq(S) /\ Len(Pushed(s, x)) <= Capacity
<1>1. Append(s, x) \in Seq(S) /\ Len(Append(s, x)) = Len(s) + 1
  OBVIOUS
<1>2. CASE Len(Append(s, x)) > Capacity
  <2>1. Append(s, x) # <<>>
    BY <1>1
  <2>2. Tail(Append(s, x)) \in Seq(S) /\ Len(Tail(Append(s, x))) = Len(s)
    BY <1>1, <2>1
  <2>3. QED
    BY <1>2, <2>2 DEF Pushed
<1>3. CASE ~(Len(Append(s, x)) > Capacity)
  BY <1>1, <1>3, McpEventLogAssumption DEF Pushed
<1>4. QED
  BY <1>2, <1>3

\* A push adds at the back and drops at most the front.
LEMMA PushIs ==
  ASSUME NEW S, NEW s \in Seq(S), NEW x \in S, Len(s) <= Capacity
  PROVE  \E d \in {0, 1} :
           /\ d = 1 => Len(s) >= 1
           /\ Len(Pushed(s, x)) = Len(s) + 1 - d
           /\ \A k \in 1 .. Len(Pushed(s, x)) :
                IF k + d = Len(s) + 1 THEN Pushed(s, x)[k] = x
                                      ELSE Pushed(s, x)[k] = s[k + d]
<1> DEFINE p == Append(s, x)
<1>1. /\ p \in Seq(S) /\ p # <<>> /\ Len(s) \in Nat /\ Len(p) = Len(s) + 1
      /\ \A k \in 1 .. Len(p) : IF k = Len(s) + 1 THEN p[k] = x ELSE p[k] = s[k]
  OBVIOUS
<1>2. Pushed(s, x) = IF Len(p) > Capacity THEN Tail(p) ELSE p
  BY DEF Pushed
<1> HIDE DEF p
<1>3. CASE Len(p) > Capacity
  <2>1. Len(Tail(p)) = Len(s) /\ \A k \in 1 .. Len(s) : Tail(p)[k] = p[k + 1]
    BY <1>1
  <2>2. Len(s) >= 1
    BY <1>1, <1>3, McpEventLogAssumption
  <2>3. ASSUME NEW k \in 1 .. Len(s)
        PROVE  IF k + 1 = Len(s) + 1 THEN Tail(p)[k] = x ELSE Tail(p)[k] = s[k + 1]
    BY <1>1, <2>1
  <2>4. Pushed(s, x) = Tail(p)
    BY <1>2, <1>3
  <2>5. Len(Pushed(s, x)) = Len(s) + 1 - 1
    BY <1>1, <2>1, <2>4
  <2>6. QED
    BY <1>1, <2>1, <2>2, <2>3, <2>4, <2>5
<1>4. CASE ~(Len(p) > Capacity)
  <2>1. Pushed(s, x) = p
    BY <1>2, <1>4
  <2>2. ASSUME NEW k \in 1 .. Len(p)
        PROVE  IF k + 0 = Len(s) + 1 THEN p[k] = x ELSE p[k] = s[k + 0]
    BY <1>1
  <2>3. Len(p) = Len(s) + 1 - 0
    BY <1>1
  <2>4. QED
    BY <2>1, <2>2, <2>3
<1>5. QED
  BY <1>3, <1>4

\* A page holds no newer event without the older ones.
LEMMA PageIsPrefix ==
  ASSUME TypeOK, NEW c \in Clients, NEW k \in Page(c), NEW j \in After(c), j <= k
  PROVE  j \in Page(c)
<1> DEFINE Below(n) == {i \in After(c) : i < n}
<1>1. After(c) \subseteq 1 .. Len(entries) /\ Len(entries) \in Nat
  BY DEF After, TypeOK
<1>2. IsFiniteSet(1 .. Len(entries))
  BY <1>1, FS_Interval
<1>3. IsFiniteSet(Below(k))
  BY <1>1, <1>2, FS_Subset
<1>4. Below(j) \subseteq Below(k)
  BY <1>1 DEF Page
<1>5. Cardinality(Below(j)) <= Cardinality(Below(k))
  BY <1>3, <1>4, FS_Subset
<1>6. IsFiniteSet(Below(j))
  BY <1>3, <1>4, FS_Subset
<1>7. Cardinality(Below(j)) \in Nat /\ Cardinality(Below(k)) \in Nat
  BY <1>3, <1>6, FS_CardinalityType
<1>8. Cardinality(Below(k)) < PageLimit
  BY DEF Page
<1>9. Cardinality(Below(j)) < PageLimit
  BY <1>5, <1>7, <1>8, McpEventLogAssumption
<1>10. QED
  BY <1>9 DEF Page

-----------------------------------------------------------------------------
(* Types, the bound of the ring, and that unstarted bridges do nothing.    *)

InFlight == \A g \in Gens : bridge[g] = "push" => bid[g] \in Ids

Shape == TypeOK /\ NotStarted /\ InFlight

LEMMA ShapeInit == Init => Shape
<1> SUFFICES ASSUME Init PROVE Shape
  OBVIOUS
<1>1. Ids = {}
  BY DEF Init, Ids
<1>2. entries \in Seq(Ids) /\ Len(entries) = 0
  BY <1>1 DEF Init
<1>3. name \in [Ids -> Names]
  BY <1>1 DEF Init
<1>4. Len(entries) <= Capacity
  BY <1>2, McpEventLogAssumption
<1>5. started \in 0 .. MaxWorkers /\ NotStarted
  BY McpEventLogAssumption DEF Init, NotStarted
<1>6. QED
  BY <1>2, <1>3, <1>4, <1>5 DEF Init, Shape, TypeOK, InFlight

LEMMA ShapeStep == Shape /\ [Next]_vars => Shape'
<1> SUFFICES ASSUME Shape, [Next]_vars PROVE Shape'
  OBVIOUS
<1> USE DEF Shape
<1>1. CASE Start
  <2>1. /\ started' = started + 1 /\ started + 1 \in Gens
        /\ bridge' = [bridge EXCEPT ![started + 1] = "run"]
        /\ UNCHANGED <<entries, next_id, name, crossed, bid, clients>>
    BY <1>1, McpEventLogAssumption DEF Start, Gens, log, TypeOK
  <2>2. TypeOK'
    BY <2>1, McpEventLogAssumption DEF TypeOK, Gens, Ids, clients
  <2>3. NotStarted'
    BY <2>1 DEF TypeOK, NotStarted, Gens
  <2>4. InFlight'
    BY <2>1 DEF TypeOK, InFlight, Ids
  <2>5. QED
    BY <2>2, <2>3, <2>4
<1>2. ASSUME NEW g \in Gens, AppendId(g)
      PROVE  Shape'
  <2>1. PICK n \in Names :
          name' = [i \in 1 .. next_id |-> IF i = next_id THEN n ELSE name[i]]
    BY <1>2 DEF AppendId
  <2>2. /\ next_id' = next_id + 1 /\ bid' = [bid EXCEPT ![g] = next_id]
        /\ bridge[g] = "run" /\ bridge' = [bridge EXCEPT ![g] = "push"]
        /\ UNCHANGED <<entries, started, clients>>
    BY <1>2 DEF AppendId
  <2>3. Ids' = 1 .. next_id /\ Ids \subseteq Ids'
    BY <2>2 DEF Ids, TypeOK
  <2>4. name' \in [Ids' -> Names]
    <3>1. next_id \in Nat \ {0} /\ \A i \in 1 .. next_id - 1 : name[i] \in Names
      BY DEF TypeOK, Ids
    <3>2. ASSUME NEW i \in 1 .. next_id
          PROVE  (IF i = next_id THEN n ELSE name[i]) \in Names
      <4>1. CASE i = next_id
        BY <4>1
      <4>2. CASE i # next_id
        <5>1. i \in 1 .. next_id - 1
          BY <3>1, <4>2
        <5>2. QED
          BY <3>1, <4>2, <5>1
      <4>3. QED
        BY <4>1, <4>2
    <3>3. QED
      BY <2>1, <2>3, <3>2
  <2>5. entries' \in Seq(Ids')
    BY <2>2, <2>3, SeqMono DEF TypeOK
  <2>6. next_id' \in Nat \ {0} /\ bid' \in [Gens -> Nat]
    BY <2>2 DEF TypeOK
  <2>11. crossed' \subseteq Ids'
    <3>1. Flying \subseteq Ids
      BY DEF Flying, InFlight
    <3>2. next_id \in Ids'
      BY <2>3 DEF TypeOK
    <3>3. crossed' \subseteq crossed \cup Flying \cup {next_id}
      BY <1>2 DEF AppendId
    <3>4. QED
      BY <2>3, <3>1, <3>2, <3>3 DEF TypeOK
  <2>7. TypeOK'
    BY <2>2, <2>4, <2>5, <2>6, <2>11 DEF TypeOK, clients
  <2>8. NotStarted'
    BY <2>2 DEF TypeOK, NotStarted
  <2>9. InFlight'
    BY <2>2, <2>3 DEF TypeOK, InFlight
  <2>10. QED
    BY <2>7, <2>8, <2>9
<1>3. ASSUME NEW g \in Gens, AppendPush(g)
      PROVE  Shape'
  <2>1. /\ entries' = Pushed(entries, bid[g])
        /\ bridge[g] = "push" /\ bridge' = [bridge EXCEPT ![g] = "notify"]
        /\ UNCHANGED <<next_id, name, crossed, started, bid, clients>>
    BY <1>3 DEF AppendPush, Pushed
  <2>2. entries' \in Seq(Ids) /\ Len(entries') <= Capacity
    BY <1>3, <2>1, PushFits DEF TypeOK, InFlight
  <2>3. TypeOK'
    BY <2>1, <2>2 DEF TypeOK, clients, Ids
  <2>4. NotStarted'
    BY <2>1 DEF TypeOK, NotStarted
  <2>5. InFlight'
    BY <2>1 DEF TypeOK, InFlight, Ids
  <2>6. QED
    BY <2>3, <2>4, <2>5
<1>4. ASSUME NEW g \in Gens, AppendNotify(g) \/ BridgeEnd(g)
      PROVE  Shape'
  <2>1. PICK b \in {"run", "ended"} :
          /\ bridge[g] \in {"run", "notify"} /\ bridge' = [bridge EXCEPT ![g] = b]
          /\ woken' = woken \/ woken' = [c \in Clients |-> TRUE]
          /\ UNCHANGED <<entries, next_id, name, crossed, started, bid>>
          /\ UNCHANGED <<pc, filter, cursor, seen, early, told>>
    BY <1>4 DEF AppendNotify, BridgeEnd, log, clients
  <2>2. woken' \in [Clients -> BOOLEAN]
    BY <2>1 DEF TypeOK
  <2>3. TypeOK'
    BY <2>1, <2>2 DEF TypeOK, Ids
  <2>4. NotStarted'
    BY <2>1 DEF TypeOK, NotStarted
  <2>5. InFlight'
    BY <2>1 DEF TypeOK, InFlight, Ids
  <2>6. QED
    BY <2>3, <2>4, <2>5
<1>5. ASSUME NEW c \in Clients, AgentEvents(c)
      PROVE  Shape'
  <2>1. /\ UNCHANGED <<entries, next_id, name, crossed, started, bridge, bid, pc, filter, woken>>
        /\ told' = [told EXCEPT ![c] = IF Truncated(c) THEN Oldest - 1 ELSE @]
    BY <1>5 DEF AgentEvents, log, bridges
  <2>2. \A k \in Page(c) : entries[k] \in Nat
    BY DEF Page, After, TypeOK, Ids
  <2>3. Newest \in Nat
    BY DEF Newest, TypeOK, Ids
  <2>4. cursor' \in [Clients -> Nat]
    BY <1>5, <2>2, <2>3 DEF AgentEvents, TypeOK
  <2>5. seen' \in [Clients -> SUBSET Nat] /\ early' \in [Clients -> SUBSET Nat]
    <3>1. Held \subseteq Nat /\ Flying \subseteq Nat
      BY DEF Held, Flying, TypeOK, Ids
    <3>2. CASE /\ seen' = [seen EXCEPT ![c] = @ \cup {entries[k] : k \in Page(c)}]
               /\ UNCHANGED early
      BY <2>2, <3>2 DEF TypeOK
    <3>3. CASE /\ seen' = [seen EXCEPT ![c] = @ \cup Held]
               /\ early' = [early EXCEPT ![c] = @ \cup Flying]
      BY <3>1, <3>3 DEF TypeOK
    <3>4. QED
      BY <1>5, <3>2, <3>3 DEF AgentEvents
  <2>6. Oldest \in Nat /\ cursor[c] \in Nat
    BY DEF Oldest, TypeOK, Ids
  <2>7. Truncated(c) => Oldest - 1 \in Nat
    BY <2>6 DEF Truncated
  <2>8. told' \in [Clients -> Nat]
    BY <2>1, <2>7 DEF TypeOK
  <2>9. QED
    BY <2>1, <2>4, <2>5, <2>8 DEF TypeOK, NotStarted, InFlight, Ids
<1>6. ASSUME NEW c \in Clients, NEW f \in SUBSET Names \ {{}}, WaitEvent(c, f)
      PROVE  Shape'
  <2>1. /\ UNCHANGED <<entries, next_id, name, crossed, started, bridge, bid, woken, early, told>>
        /\ filter' = [filter EXCEPT ![c] = f]
    BY <1>6 DEF WaitEvent, log, bridges
  <2>2. CASE Deliver(c, f)
    <3>1. \A k \in 1 .. Len(entries) : entries[k] \in Nat
      BY DEF TypeOK, Ids
    <3>2. /\ cursor' \in [Clients -> Nat] /\ seen' \in [Clients -> SUBSET Nat]
          /\ pc' = [pc EXCEPT ![c] = "idle"]
      BY <2>2, <3>1 DEF Deliver, Matches, After, TypeOK
    <3>3. QED
      BY <2>1, <3>2 DEF TypeOK, NotStarted, InFlight, Ids
  <2>3. CASE pc' = [pc EXCEPT ![c] = "loop"] /\ UNCHANGED <<cursor, seen>>
    BY <2>1, <2>3 DEF TypeOK, NotStarted, InFlight, Ids
  <2>4. QED
    BY <1>6, <2>2, <2>3 DEF WaitEvent
<1>7. ASSUME NEW c \in Clients, WaitCheck(c)
      PROVE  Shape'
  <2>1. UNCHANGED <<entries, next_id, name, crossed, started, bridge, bid, filter, woken, early, told>>
    BY <1>7 DEF WaitCheck, log, bridges
  <2>2. CASE Deliver(c, filter[c])
    <3>1. \A k \in 1 .. Len(entries) : entries[k] \in Nat
      BY DEF TypeOK, Ids
    <3>2. /\ cursor' \in [Clients -> Nat] /\ seen' \in [Clients -> SUBSET Nat]
          /\ pc' = [pc EXCEPT ![c] = "idle"]
      BY <2>2, <3>1 DEF Deliver, Matches, After, TypeOK
    <3>3. QED
      BY <2>1, <3>2 DEF TypeOK, NotStarted, InFlight, Ids
  <2>3. CASE pc' = [pc EXCEPT ![c] = "parked"] /\ UNCHANGED <<cursor, seen>>
    BY <2>1, <2>3 DEF TypeOK, NotStarted, InFlight, Ids
  <2>4. QED
    BY <1>7, <2>2, <2>3 DEF WaitCheck
<1>8. ASSUME NEW c \in Clients, WaitArm(c) \/ WaitWake(c) \/ WaitTimeout(c)
      PROVE  Shape'
  <2>1. /\ UNCHANGED <<entries, next_id, name, crossed, started, bridge, bid, filter, cursor>>
        /\ UNCHANGED <<seen, early, told>>
        /\ \E q \in {"idle", "loop", "armed"} : pc' = [pc EXCEPT ![c] = q]
        /\ woken' = woken \/ woken' = [woken EXCEPT ![c] = FALSE]
    BY <1>8 DEF WaitArm, WaitWake, WaitTimeout, log, bridges
  <2>2. woken' \in [Clients -> BOOLEAN]
    BY <2>1 DEF TypeOK
  <2>3. pc' \in [Clients -> {"idle", "loop", "armed", "parked"}]
    BY <2>1 DEF TypeOK
  <2>4. QED
    BY <2>1, <2>2, <2>3 DEF TypeOK, NotStarted, InFlight, Ids
<1>9. CASE UNCHANGED vars
  BY <1>9 DEF vars, log, bridges, clients, TypeOK, NotStarted, InFlight, Ids
<1>10. QED
  BY <1>1, <1>2, <1>3, <1>4, <1>5, <1>6, <1>7, <1>8, <1>9 DEF Next, Bridge, Client, Wait

\* The types hold, the ring keeps its capacity, and a bridge appends only ids
\* it was given, whatever bridges overlap.
THEOREM TypeInvariant == Spec => []TypeOK
<1>1. Spec => []Shape
  BY ShapeInit, ShapeStep, PTL DEF Spec
<1>2. Shape => TypeOK
  BY DEF Shape
<1>3. QED
  BY <1>1, <1>2, PTL

-----------------------------------------------------------------------------
(* Wakeups.                                                                *)

LEMMA WakeupStep == Shape /\ Shape' /\ NoLostWakeup /\ [Next]_vars => NoLostWakeup'
<1> SUFFICES ASSUME Shape, NoLostWakeup, [Next]_vars,
                    NEW d \in Clients, pc'[d] = "parked", ~woken'[d],
                    Matches(d, filter[d])' # {}
             PROVE  \E g \in Gens : bridge'[g] = "notify"
  BY DEF NoLostWakeup
<1> USE DEF Shape
<1>1. ASSUME pc[d] = "parked", ~woken[d], Matches(d, filter[d]) # {},
             UNCHANGED bridge
      PROVE  \E g \in Gens : bridge'[g] = "notify"
  BY <1>1 DEF NoLostWakeup
\* A step that leaves the log, the bridges and this client alone.
<1>2. ASSUME UNCHANGED <<entries, name, bridge>>, pc'[d] = pc[d],
             filter'[d] = filter[d], cursor'[d] = cursor[d], woken'[d] = woken[d]
      PROVE  \E g \in Gens : bridge'[g] = "notify"
  <2>1. Matches(d, filter[d])' = Matches(d, filter[d])
    BY <1>2 DEF Matches, After
  <2>2. QED
    BY <1>1, <1>2, <2>1
<1>3. CASE Start
  <2>1. /\ bridge' = [bridge EXCEPT ![started + 1] = "run"]
        /\ bridge[started + 1] = "none"
        /\ UNCHANGED <<entries, name, pc, filter, cursor, woken>>
    BY <1>3, McpEventLogAssumption DEF Start, log, clients, NotStarted, Gens, TypeOK
  <2>2. Matches(d, filter[d])' = Matches(d, filter[d])
    BY <2>1 DEF Matches, After
  <2>3. PICK g \in Gens : bridge[g] = "notify"
    BY <2>1, <2>2 DEF NoLostWakeup
  <2>4. bridge'[g] = "notify"
    BY <2>1, <2>3 DEF TypeOK
  <2>5. QED
    BY <2>4
<1>4. ASSUME NEW g \in Gens, AppendId(g)
      PROVE  \E h \in Gens : bridge'[h] = "notify"
  <2>1. PICK n \in Names :
          name' = [i \in 1 .. next_id |-> IF i = next_id THEN n ELSE name[i]]
    BY <1>4 DEF AppendId
  <2>2. /\ bridge[g] = "run" /\ bridge' = [bridge EXCEPT ![g] = "push"]
        /\ UNCHANGED <<entries, pc, filter, cursor, woken>>
    BY <1>4 DEF AppendId, clients
  <2>3. \A k \in 1 .. Len(entries) : entries[k] \in 1 .. next_id - 1
    BY DEF TypeOK, Ids
  <2>4. \A i \in 1 .. next_id - 1 : name'[i] = name[i]
    BY <2>1 DEF TypeOK
  <2>5. \A k \in 1 .. Len(entries) : name'[entries[k]] = name[entries[k]]
    BY <2>3, <2>4
  <2>6. Matches(d, filter[d])' = Matches(d, filter[d])
    BY <2>2, <2>5 DEF Matches, After
  <2>7. PICK h \in Gens : bridge[h] = "notify"
    BY <2>2, <2>6 DEF NoLostWakeup
  <2>8. bridge'[h] = "notify"
    BY <2>2, <2>7 DEF TypeOK
  <2>9. QED
    BY <2>8
<1>5. ASSUME NEW g \in Gens, AppendPush(g)
      PROVE  \E h \in Gens : bridge'[h] = "notify"
  BY <1>5 DEF AppendPush, TypeOK
<1>6. ASSUME NEW g \in Gens, AppendNotify(g)
      PROVE  \E h \in Gens : bridge'[h] = "notify"
  BY <1>6 DEF AppendNotify
<1>7. ASSUME NEW g \in Gens, BridgeEnd(g)
      PROVE  \E h \in Gens : bridge'[h] = "notify"
  <2>1. /\ bridge[g] = "run" /\ bridge' = [bridge EXCEPT ![g] = "ended"]
        /\ UNCHANGED <<entries, name, pc, filter, cursor, woken>>
    BY <1>7 DEF BridgeEnd, log, clients
  <2>2. Matches(d, filter[d])' = Matches(d, filter[d])
    BY <2>1 DEF Matches, After
  <2>3. PICK h \in Gens : bridge[h] = "notify"
    BY <2>1, <2>2 DEF NoLostWakeup
  <2>4. bridge'[h] = "notify"
    BY <2>1, <2>3 DEF TypeOK
  <2>5. QED
    BY <2>4
<1>8. ASSUME NEW c \in Clients, AgentEvents(c)
      PROVE  \E g \in Gens : bridge'[g] = "notify"
  <2>1. /\ UNCHANGED <<entries, name, bridge, pc, filter, woken>>
        /\ pc[c] = "idle"
        /\ \A x \in Clients : x # c => cursor'[x] = cursor[x]
    BY <1>8 DEF AgentEvents, log, bridges, TypeOK
  <2>2. d # c
    BY <2>1
  <2>3. QED
    BY <1>2, <2>1, <2>2
<1>9. ASSUME NEW c \in Clients, NEW f \in SUBSET Names \ {{}}, WaitEvent(c, f)
      PROVE  \E g \in Gens : bridge'[g] = "notify"
  <2>1. /\ UNCHANGED <<entries, name, bridge, woken>>
        /\ pc'[c] # "parked"
        /\ \A x \in Clients : x # c => /\ cursor'[x] = cursor[x]
                                       /\ pc'[x] = pc[x] /\ filter'[x] = filter[x]
    BY <1>9 DEF WaitEvent, Deliver, log, bridges, TypeOK
  <2>2. QED
    BY <1>2, <2>1
<1>10. ASSUME NEW c \in Clients, WaitCheck(c)
       PROVE  \E g \in Gens : bridge'[g] = "notify"
  <2>1. /\ UNCHANGED <<entries, name, bridge, woken, filter>>
        /\ \A x \in Clients : x # c => cursor'[x] = cursor[x] /\ pc'[x] = pc[x]
    BY <1>10 DEF WaitCheck, Deliver, log, bridges, TypeOK
  <2>2. CASE d # c
    BY <1>2, <2>1, <2>2
  <2>3. CASE d = c
    <3>1. pc'[c] = "parked"
      BY <2>3
    <3>2. Matches(c, filter[c]) = {} /\ UNCHANGED cursor
      BY <1>10, <3>1 DEF WaitCheck, Deliver, TypeOK
    <3>3. Matches(c, filter[c])' = Matches(c, filter[c])
      BY <2>1, <3>2 DEF Matches, After
    <3>4. QED
      BY <2>3, <3>2, <3>3
  <2>4. QED
    BY <2>2, <2>3
<1>11. ASSUME NEW c \in Clients, WaitArm(c) \/ WaitWake(c) \/ WaitTimeout(c)
       PROVE  \E g \in Gens : bridge'[g] = "notify"
  <2>1. /\ UNCHANGED <<entries, name, bridge, filter, cursor>>
        /\ pc'[c] # "parked"
        /\ \A x \in Clients : x # c => woken'[x] = woken[x] /\ pc'[x] = pc[x]
    BY <1>11 DEF WaitArm, WaitWake, WaitTimeout, log, bridges, TypeOK
  <2>2. QED
    BY <1>2, <2>1
<1>12. CASE UNCHANGED vars
  BY <1>2, <1>12 DEF vars, log, bridges, clients
<1>13. QED
  BY <1>3, <1>4, <1>5, <1>6, <1>7, <1>8, <1>9, <1>10, <1>11, <1>12
     DEF Next, Bridge, Client, Wait

\* No waiter misses the notify of a match it is waiting for, for any number of
\* clients and of bridges, overlapping or not (hub.rs 640-659 against 73-87).
THEOREM Wakeups == Spec => []NoLostWakeup
<1>1. Init => NoLostWakeup
  BY DEF Init, NoLostWakeup
<1>2. Spec => []Shape
  BY ShapeInit, ShapeStep, PTL DEF Spec
<1>3. QED
  BY <1>1, <1>2, WakeupStep, PTL DEF Spec

-----------------------------------------------------------------------------
(* No event is skipped, and a page tells of what it passes over.           *)

LEMMA IInvInit == Init => IInv
<1> SUFFICES ASSUME Init PROVE IInv
  OBVIOUS
<1>1. Ids = {} /\ Len(entries) = 0
  BY DEF Init, Ids
<1>2. Held = {} /\ Flying = {}
  BY <1>1 DEF Init, Held, Flying
<1>3. Ordered /\ Ahead /\ Meet /\ Gone
  BY <1>1 DEF Init, Ordered, Ahead, Meet, Gone
<1>4. Behind /\ NoSkip
  BY <1>2 DEF Init, Behind, NoSkip
<1>5. QED
  BY <1>3, <1>4 DEF IInv

\* A step of a bridge that is between two events.
LEMMA QuietBridge ==
  ASSUME IInv, UNCHANGED <<entries, next_id, crossed, bid, cursor, seen, early>>,
         \A g \in Gens : bridge'[g] = "push" <=> bridge[g] = "push"
  PROVE  IInv'
<1>1. Held' = Held /\ Ids' = Ids
  BY DEF Held, Ids
<1>2. Flying' = Flying
  BY DEF Flying
<1>3. Ordered' /\ Behind'
  BY DEF IInv, Ordered, Behind
<1>4. Ahead' /\ Meet'
  BY DEF IInv, Ahead, Meet
<1>5. Gone'
  BY <1>1, <1>2 DEF IInv, Gone
<1>6. NoSkip'
  BY <1>1, <1>2 DEF IInv, NoSkip
<1>7. QED
  BY <1>3, <1>4, <1>5, <1>6 DEF IInv

\* A new id is larger than every other, and on its way with those it crosses.
LEMMA IdSafe ==
  ASSUME Shape, IInv, NEW g \in Gens, AppendId(g)
  PROVE  IInv'
<1>1. /\ next_id' = next_id + 1 /\ bid' = [bid EXCEPT ![g] = next_id]
      /\ bridge[g] = "run" /\ bridge' = [bridge EXCEPT ![g] = "push"]
      /\ UNCHANGED <<entries, cursor, seen, early>>
  BY DEF AppendId, clients
<1>2. /\ bridge'[g] = "push" /\ bid'[g] = next_id
      /\ \A h \in Gens : h # g => bridge'[h] = bridge[h] /\ bid'[h] = bid[h]
  BY <1>1 DEF Shape, TypeOK
<1>3. /\ crossed \subseteq crossed'
      /\ Flying # {} => Flying \subseteq crossed' /\ next_id \in crossed'
  BY DEF AppendId
<1>4. next_id \in Nat /\ \A k \in 1 .. Len(entries) : entries[k] \in Nat /\ entries[k] < next_id
  BY DEF Shape, TypeOK, Ids
<1>5. Held' = Held
  BY <1>1 DEF Held
<1>6. Flying' = Flying \cup {next_id}
  <2>1. \A i : i \in Flying => i \in Flying'
    BY <1>1, <1>2 DEF Flying
  <2>2. next_id \in Flying'
    BY <1>2 DEF Flying
  <2>3. \A i : i \in Flying' => i = next_id \/ i \in Flying
    BY <1>2 DEF Flying
  <2>4. QED
    BY <2>1, <2>2, <2>3
<1>7. Ordered'
  BY <1>1, <1>3 DEF IInv, Ordered
<1>8. Ahead'
  <2> SUFFICES ASSUME NEW h \in Gens, NEW k \in 1 .. Len(entries), bridge'[h] = "push",
                      entries[k] \notin crossed' \/ bid'[h] \notin crossed'
               PROVE  entries[k] < bid'[h]
    BY <1>1 DEF Ahead
  <2>1. CASE h = g
    BY <1>2, <1>4, <2>1
  <2>2. CASE h # g
    BY <1>2, <1>3, <2>2 DEF IInv, Ahead
  <2>3. QED
    BY <2>1, <2>2
<1>9. Meet'
  <2> SUFFICES ASSUME NEW h \in Gens, NEW x \in Gens, h # x,
                      bridge'[h] = "push", bridge'[x] = "push"
               PROVE  bid'[h] \in crossed'
    BY DEF Meet
  <2>1. CASE h # g /\ x # g
    BY <1>2, <1>3, <2>1 DEF IInv, Meet
  <2>2. CASE h = g
    <3>1. bid[x] \in Flying
      BY <1>2, <2>2 DEF Flying
    <3>2. QED
      BY <1>2, <1>3, <2>2, <3>1
  <2>3. CASE x = g
    <3>1. bid[h] \in Flying
      BY <1>2, <2>3 DEF Flying
    <3>2. QED
      BY <1>2, <1>3, <2>3, <3>1
  <2>4. QED
    BY <2>1, <2>2, <2>3
<1>10. Gone'
  <2> SUFFICES ASSUME NEW i \in Ids', i \notin crossed', i \notin Held' \cup Flying'
               PROVE  /\ entries # <<>>
                      /\ \A k \in 1 .. Len(entries) : i < entries[k]
                      /\ \A h \in Gens : bridge'[h] = "push" => i < bid'[h]
    BY <1>1 DEF Gone
  <2>1. i \in Ids /\ i < next_id
    BY <1>1, <1>4, <1>6 DEF Ids
  <2>2. /\ entries # <<>>
        /\ \A k \in 1 .. Len(entries) : i < entries[k]
        /\ \A h \in Gens : bridge[h] = "push" => i < bid[h]
    BY <1>3, <1>5, <1>6, <2>1 DEF IInv, Gone
  <2>3. QED
    BY <1>2, <2>1, <2>2
<1>11. Behind'
  BY <1>1, <1>4 DEF IInv, Behind, Shape, TypeOK
<1>12. NoSkip'
  <2> SUFFICES ASSUME NEW c \in Clients, NEW i \in Held' \cup Flying', i <= cursor[c]
               PROVE  i \in seen[c] \cup early[c] \cup crossed'
    BY <1>1 DEF NoSkip
  <2>1. i # next_id
    BY <1>4 DEF IInv, Behind, Shape, TypeOK
  <2>2. i \in Held \cup Flying
    BY <1>5, <1>6, <2>1
  <2>3. QED
    BY <1>3, <2>2 DEF IInv, NoSkip
<1>13. QED
  BY <1>7, <1>8, <1>9, <1>10, <1>11, <1>12 DEF IInv

\* A push moves an id into the ring, and the oldest out of a full one.
LEMMA PushSafe ==
  ASSUME Shape, IInv, NEW g \in Gens, AppendPush(g)
  PROVE  IInv'
<1> DEFINE x == bid[g]
           n == Len(entries)
<1>1. /\ entries' = Pushed(entries, x)
      /\ bridge[g] = "push" /\ bridge' = [bridge EXCEPT ![g] = "notify"]
      /\ UNCHANGED <<next_id, crossed, bid, cursor, seen, early>>
  BY DEF AppendPush, Pushed, clients
<1>2. /\ bridge'[g] # "push" /\ \A h \in Gens : h # g => bridge'[h] = bridge[h]
  BY <1>1 DEF Shape, TypeOK
<1>3. x \in Ids /\ entries \in Seq(Ids) /\ n <= Capacity /\ n \in Nat
  BY <1>1 DEF Shape, TypeOK, InFlight
<1>4. PICK d \in {0, 1} :
        /\ d = 1 => n >= 1
        /\ Len(entries') = n + 1 - d
        /\ \A k \in 1 .. Len(entries') :
             IF k + d = n + 1 THEN entries'[k] = x ELSE entries'[k] = entries[k + d]
  BY <1>1, <1>3, PushIs
<1>5. \A k \in 1 .. n : entries[k] \in Nat
  BY <1>3 DEF Ids, Shape, TypeOK
<1>6. x \in Nat
  BY <1>3 DEF Ids, Shape, TypeOK
<1> HIDE DEF n, x
\* A position of the new ring is an old one moved by d, or the last.
<1>7. ASSUME NEW k \in 1 .. Len(entries')
      PROVE  \/ k + d = n + 1 /\ entries'[k] = x
             \/ k + d \in 1 .. n /\ entries'[k] = entries[k + d]
  BY <1>3, <1>4
<1>8. n + 1 - d \in 1 .. Len(entries') /\ entries'[n + 1 - d] = x
  BY <1>3, <1>4
<1>9. \A k \in 1 .. n : k > d => k - d \in 1 .. Len(entries') /\ entries'[k - d] = entries[k]
  BY <1>3, <1>4
<1>10. Held' \cup Flying' \subseteq Held \cup Flying
  <2>1. ASSUME NEW k \in 1 .. Len(entries') PROVE entries'[k] \in Held \cup Flying
    <3>1. x \in Flying
      BY <1>1 DEF Flying, x
    <3>2. \A m \in 1 .. n : entries[m] \in Held
      BY DEF Held, n
    <3>3. QED
      BY <1>7, <3>1, <3>2
  <2>2. Flying' \subseteq Flying
    BY <1>1, <1>2 DEF Flying
  <2>3. Held' = {entries'[k] : k \in 1 .. Len(entries')}
    BY DEF Held
  <2>4. QED
    BY <2>1, <2>2, <2>3
<1>11. \A k \in 1 .. n : entries[k] \notin crossed \/ x \notin crossed => entries[k] < x
  BY <1>1 DEF IInv, Ahead, n, x
<1>12. \A j, k \in 1 .. n :
         j < k /\ (entries[j] \notin crossed \/ entries[k] \notin crossed)
           => entries[j] < entries[k]
  BY DEF IInv, Ordered, n
<1>13. Ordered'
  <2> SUFFICES ASSUME NEW j \in 1 .. Len(entries'), NEW k \in 1 .. Len(entries'), j < k,
                      entries'[j] \notin crossed \/ entries'[k] \notin crossed
               PROVE  entries'[j] < entries'[k]
    BY <1>1 DEF Ordered
  <2>1. j \in Nat /\ k \in Nat /\ j + d < k + d /\ k + d <= n + 1
    BY <1>3, <1>4
  <2>2. j + d \in 1 .. n /\ entries'[j] = entries[j + d]
    BY <1>3, <1>7, <2>1
  <2>3. CASE k + d = n + 1 /\ entries'[k] = x
    BY <1>11, <2>2, <2>3
  <2>4. CASE k + d \in 1 .. n /\ entries'[k] = entries[k + d]
    BY <1>12, <2>1, <2>2, <2>4
  <2>5. QED
    BY <1>7, <2>3, <2>4
<1>14. Ahead'
  <2> SUFFICES ASSUME NEW h \in Gens, NEW k \in 1 .. Len(entries'), bridge'[h] = "push",
                      entries'[k] \notin crossed \/ bid[h] \notin crossed
               PROVE  entries'[k] < bid[h]
    BY <1>1 DEF Ahead
  <2>1. h # g /\ bridge[h] = "push"
    BY <1>2
  <2>2. x \in crossed /\ bid[h] \in crossed
    BY <1>1, <2>1 DEF IInv, Meet, x
  <2>3. \A m \in 1 .. n : entries[m] \notin crossed \/ bid[h] \notin crossed => entries[m] < bid[h]
    BY <2>1 DEF IInv, Ahead, n
  <2>4. QED
    BY <1>7, <2>2, <2>3
<1>15. Meet'
  BY <1>1, <1>2 DEF IInv, Meet
<1>16. Gone'
  <2> SUFFICES ASSUME NEW i \in Ids, i \notin crossed, i \notin Held' \cup Flying'
               PROVE  /\ entries' # <<>>
                      /\ \A k \in 1 .. Len(entries') : i < entries'[k]
                      /\ \A h \in Gens : bridge'[h] = "push" => i < bid[h]
    <3>1. Ids' = Ids
      BY <1>1 DEF Ids
    <3>2. QED
      BY <1>1, <3>1 DEF Gone
  <2>1. entries' # <<>>
    <3>1. Len(entries') # 0
      BY <1>3, <1>4
    <3>2. QED
      BY <3>1
  <2>2. \A k \in 1 .. Len(entries') : entries'[k] # i
    BY DEF Held
  <2>3. i # x
    BY <1>8, <2>2
  <2>4. SUFFICES /\ \A k \in 1 .. n : k > d => i < entries[k]
                 /\ i < x
                 /\ \A h \in Gens : bridge[h] = "push" => i < bid[h]
    <3>1. ASSUME NEW k \in 1 .. Len(entries') PROVE i < entries'[k]
      <4>1. CASE k + d \in 1 .. n /\ entries'[k] = entries[k + d]
        <5>1. k + d > d
          BY <1>3, <1>4
        <5>2. QED
          BY <2>4, <4>1, <5>1
      <4>2. QED
        BY <1>7, <2>4, <4>1
    <3>2. QED
      BY <1>1, <1>2, <2>1, <2>4, <3>1
  <2>5. CASE i \notin Held \cup Flying
    BY <1>1, <2>5 DEF IInv, Gone, n, x
  <2>6. CASE i \in Flying
    <3>1. PICK h \in Gens : bridge[h] = "push" /\ i = bid[h]
      BY <2>6 DEF Flying
    <3>2. h # g
      BY <2>3, <3>1 DEF x
    <3>3. i \in Flying'
      BY <1>1, <1>2, <3>1, <3>2 DEF Flying
    <3>4. QED
      BY <3>3
  <2>7. CASE i \in Held
    <3>1. PICK m \in 1 .. n : i = entries[m]
      BY <2>7 DEF Held, n
    <3>2. d = 1 /\ m = 1
      <4>1. ~(m > d)
        BY <1>9, <2>2, <3>1
      <4>2. QED
        BY <1>3, <4>1
    <3>3. \A k \in 1 .. n : k > d => i < entries[k]
      BY <1>3, <1>12, <3>1, <3>2
    <3>4. i < x
      BY <1>11, <3>1
    <3>5. \A h \in Gens : bridge[h] = "push" => i < bid[h]
      BY <3>1 DEF IInv, Ahead, n
    <3>6. QED
      BY <3>3, <3>4, <3>5
  <2>8. QED
    BY <2>5, <2>6, <2>7
<1>17. Behind'
  BY <1>1 DEF IInv, Behind
<1>18. NoSkip'
  BY <1>1, <1>10 DEF IInv, NoSkip
<1>19. QED
  BY <1>13, <1>14, <1>15, <1>16, <1>17, <1>18 DEF IInv

\* A client that moves its cursor to an entry it saw everything up to skips nothing.
LEMMA AdvanceSafe ==
  ASSUME Shape, IInv, NEW c \in Clients, NEW k \in 1 .. Len(entries),
         UNCHANGED <<log, bridges, early>>,
         cursor' = [cursor EXCEPT ![c] = entries[k]],
         seen[c] \subseteq seen'[c],
         \A y \in Clients \ {c} : seen'[y] = seen[y],
         \A j \in After(c) : j <= k => entries[j] \in seen'[c]
  PROVE  NoSkip' /\ Behind'
<1>1. UNCHANGED <<entries, next_id, crossed, bridge, bid, early>>
  BY DEF log, bridges
<1>2. Held' = Held /\ Flying' = Flying
  BY <1>1 DEF Held, Flying
<1>3. \A j \in 1 .. Len(entries) : entries[j] \in Nat /\ entries[j] < next_id
  <2>1. entries \in Seq(Ids)
    BY DEF Shape, TypeOK
  <2>2. \A j \in 1 .. Len(entries) : entries[j] \in Ids
    BY <2>1
  <2>3. next_id \in Nat
    BY DEF Shape, TypeOK
  <2>4. QED
    BY <2>2, <2>3 DEF Ids
<1>4. /\ cursor'[c] = entries[k] /\ cursor[c] \in Nat
      /\ \A y \in Clients \ {c} : cursor'[y] = cursor[y]
  BY DEF Shape, TypeOK
<1>5. Behind'
  BY <1>1, <1>3, <1>4 DEF IInv, Behind
<1>6. ASSUME NEW y \in Clients, NEW i \in Held \cup Flying, i <= cursor'[y]
      PROVE  i \in seen'[y] \cup early[y] \cup crossed
  <2>1. CASE y # c
    BY <1>4, <1>6, <2>1 DEF IInv, NoSkip
  <2>2. CASE y = c /\ i <= cursor[c]
    BY <1>6, <2>2 DEF IInv, NoSkip
  <2>3. CASE y = c /\ ~(i <= cursor[c]) /\ i \notin crossed /\ i \in Held
    <3>1. PICK j \in 1 .. Len(entries) : i = entries[j]
      BY <2>3 DEF Held
    <3>2. j \in After(c)
      BY <1>3, <1>4, <2>3, <3>1 DEF After
    <3>3. j <= k
      <4>1. ~(k < j)
        BY <1>3, <1>4, <1>6, <2>3, <3>1 DEF IInv, Ordered
      <4>2. Len(entries) \in Nat
        BY DEF Shape, TypeOK
      <4>3. QED
        BY <4>1, <4>2
    <3>4. QED
      BY <2>3, <3>1, <3>2, <3>3
  <2>4. CASE y = c /\ i \notin crossed /\ i \in Flying
    <3>1. PICK h \in Gens : bridge[h] = "push" /\ i = bid[h]
      BY <2>4 DEF Flying
    <3>2. entries[k] < i /\ i \in Nat
      BY <2>4, <3>1 DEF IInv, Ahead, Shape, TypeOK
    <3>3. QED
      BY <1>3, <1>4, <1>6, <2>4, <3>2
  <2>5. QED
    BY <2>1, <2>2, <2>3, <2>4
<1>7. NoSkip'
  BY <1>1, <1>2, <1>6 DEF NoSkip
<1>8. QED
  BY <1>5, <1>7

LEMMA DeliverSafe ==
  ASSUME Shape, IInv, NEW c \in Clients, NEW f \in SUBSET Names, Deliver(c, f),
         UNCHANGED <<log, bridges, early>>
  PROVE  NoSkip' /\ Behind'
<1>1. PICK k \in Matches(c, f) :
        /\ \A j \in Matches(c, f) : k <= j
        /\ seen' = [seen EXCEPT ![c] = @ \cup {entries[j] : j \in After(c) \cap (1 .. k)}]
        /\ cursor' = [cursor EXCEPT ![c] = entries[k]]
  BY DEF Deliver
<1>2. k \in 1 .. Len(entries) /\ Len(entries) \in Nat
  BY DEF Matches, After, Shape, TypeOK
<1>3. /\ seen[c] \subseteq seen'[c]
      /\ \A x \in Clients \ {c} : seen'[x] = seen[x]
  BY <1>1 DEF Shape, TypeOK
<1>4. \A j \in After(c) : j <= k => entries[j] \in seen'[c]
  <2>1. \A j \in After(c) : j <= k => j \in After(c) \cap (1 .. k)
    BY <1>2 DEF After
  <2>2. QED
    BY <1>1, <2>1 DEF Shape, TypeOK
<1>5. QED
  BY <1>1, <1>2, <1>3, <1>4, AdvanceSafe

LEMMA PageSafe ==
  ASSUME Shape, IInv, NEW c \in Clients, AgentEvents(c)
  PROVE  NoSkip' /\ Behind'
<1>1. UNCHANGED <<log, bridges>>
  BY DEF AgentEvents
<1>2. CASE /\ seen' = [seen EXCEPT ![c] = @ \cup {entries[k] : k \in Page(c)}]
           /\ \/ Page(c) = {} /\ UNCHANGED cursor
              \/ \E k \in Page(c) :
                   /\ \A j \in Page(c) : j <= k
                   /\ cursor' = [cursor EXCEPT ![c] = entries[k]]
           /\ UNCHANGED early
  <2>1. /\ seen[c] \subseteq seen'[c]
        /\ \A x \in Clients \ {c} : seen'[x] = seen[x]
    BY <1>2 DEF Shape, TypeOK
  <2>2. CASE UNCHANGED cursor
    <3>1. Held' = Held /\ Flying' = Flying
      BY <1>1 DEF log, bridges, Held, Flying
    <3>2. \A x \in Clients : seen[x] \subseteq seen'[x]
      BY <2>1
    <3>3. UNCHANGED <<next_id, crossed, cursor, early>>
      BY <1>1, <1>2, <2>2 DEF log
    <3>4. NoSkip'
      BY <3>1, <3>2, <3>3 DEF IInv, NoSkip
    <3>5. Behind'
      BY <3>3 DEF IInv, Behind
    <3>6. QED
      BY <3>4, <3>5
  <2>3. CASE \E k \in Page(c) : cursor' = [cursor EXCEPT ![c] = entries[k]]
    <3>1. PICK k \in Page(c) : cursor' = [cursor EXCEPT ![c] = entries[k]]
      BY <2>3
    <3>2. k \in 1 .. Len(entries)
      BY DEF Page, After
    <3>3. \A j \in After(c) : j <= k => j \in Page(c)
      BY PageIsPrefix DEF Shape
    <3>4. \A j \in After(c) : j <= k => entries[j] \in seen'[c]
      BY <1>2, <3>3 DEF Shape, TypeOK
    <3>5. QED
      BY <1>1, <1>2, <2>1, <3>1, <3>2, <3>4, AdvanceSafe
  <2>4. QED
    BY <1>2, <2>2, <2>3
<1>3. CASE /\ seen' = [seen EXCEPT ![c] = @ \cup Held]
           /\ cursor' = [cursor EXCEPT ![c] = Newest]
           /\ early' = [early EXCEPT ![c] = @ \cup Flying]
  <2>1. Held' = Held /\ Flying' = Flying /\ UNCHANGED <<next_id, crossed>>
    BY <1>1 DEF log, bridges, Held, Flying
  <2>2. Newest < next_id
    BY DEF Newest, Shape, TypeOK, Ids
  <2>3. Behind'
    BY <1>3, <2>1, <2>2 DEF IInv, Behind, Shape, TypeOK
  <2>4. /\ seen'[c] = seen[c] \cup Held /\ early'[c] = early[c] \cup Flying
        /\ \A x \in Clients \ {c} : /\ seen'[x] = seen[x] /\ early'[x] = early[x]
                                    /\ cursor'[x] = cursor[x]
    BY <1>3 DEF Shape, TypeOK
  <2>5. ASSUME NEW x \in Clients, NEW i \in Held \cup Flying, i <= cursor'[x]
        PROVE  i \in seen'[x] \cup early'[x] \cup crossed
    <3>1. CASE x = c
      BY <2>4, <3>1
    <3>2. CASE x # c
      BY <2>4, <2>5, <3>2 DEF IInv, NoSkip
    <3>3. QED
      BY <3>1, <3>2
  <2>6. NoSkip'
    BY <2>1, <2>5 DEF NoSkip
  <2>7. QED
    BY <2>3, <2>6
<1>4. QED
  BY <1>2, <1>3 DEF AgentEvents

LEMMA IInvStep == Shape /\ IInv /\ [Next]_vars => IInv'
<1> SUFFICES ASSUME Shape, IInv, [Next]_vars PROVE IInv'
  OBVIOUS
<1>1. CASE Start
  <2>1. /\ bridge' = [bridge EXCEPT ![started + 1] = "run"]
        /\ UNCHANGED <<entries, next_id, crossed, bid, cursor, seen, early>>
        /\ bridge[started + 1] = "none"
    BY <1>1, McpEventLogAssumption DEF Start, Gens, log, clients, Shape, TypeOK, NotStarted
  <2>2. QED
    BY <2>1, QuietBridge DEF Shape, TypeOK
<1>2. ASSUME NEW g \in Gens, AppendNotify(g) \/ BridgeEnd(g)
      PROVE  IInv'
  <2>1. PICK b \in {"run", "ended"} :
          /\ bridge[g] \in {"run", "notify"} /\ bridge' = [bridge EXCEPT ![g] = b]
          /\ UNCHANGED <<entries, next_id, crossed, bid, cursor, seen, early>>
    BY <1>2 DEF AppendNotify, BridgeEnd, log, clients
  <2>2. QED
    BY <2>1, QuietBridge DEF Shape, TypeOK
\* A client's step leaves the log and the bridges alone.
<1>3. ASSUME UNCHANGED <<log, bridges>>, NoSkip' /\ Behind'
      PROVE  IInv'
  <2>1. Held' = Held /\ Flying' = Flying /\ Ids' = Ids
        /\ UNCHANGED <<entries, crossed, bridge, bid>>
    BY <1>3 DEF log, bridges, Held, Flying, Ids
  <2>2. Ordered' /\ Ahead' /\ Meet'
    BY <2>1 DEF IInv, Ordered, Ahead, Meet
  <2>3. Gone'
    BY <2>1 DEF IInv, Gone
  <2>4. QED
    BY <1>3, <2>2, <2>3 DEF IInv
\* A client's step that moves no cursor.
<1>4. ASSUME UNCHANGED <<log, bridges, cursor, seen, early>>
      PROVE  IInv'
  <2>1. Held' = Held /\ Flying' = Flying /\ UNCHANGED <<next_id, crossed>>
    BY <1>4 DEF log, bridges, Held, Flying
  <2>2. NoSkip' /\ Behind'
    BY <1>4, <2>1 DEF IInv, NoSkip, Behind
  <2>3. QED
    BY <1>3, <1>4, <2>2
<1>5. ASSUME NEW c \in Clients, NEW f \in SUBSET Names \ {{}}, WaitEvent(c, f)
      PROVE  IInv'
  <2>1. UNCHANGED <<log, bridges, early>>
    BY <1>5 DEF WaitEvent
  <2>2. CASE Deliver(c, f)
    BY <1>3, <2>1, <2>2, DeliverSafe
  <2>3. CASE UNCHANGED <<cursor, seen>>
    BY <1>4, <2>1, <2>3
  <2>4. QED
    BY <1>5, <2>2, <2>3 DEF WaitEvent
<1>6. ASSUME NEW c \in Clients, WaitCheck(c)
      PROVE  IInv'
  <2>1. UNCHANGED <<log, bridges, early>> /\ filter[c] \in SUBSET Names
    BY <1>6 DEF WaitCheck, Shape, TypeOK
  <2>2. CASE Deliver(c, filter[c])
    BY <1>3, <2>1, <2>2, DeliverSafe
  <2>3. CASE UNCHANGED <<cursor, seen>>
    BY <1>4, <2>1, <2>3
  <2>4. QED
    BY <1>6, <2>2, <2>3 DEF WaitCheck
<1>7. ASSUME NEW c \in Clients, AgentEvents(c)
      PROVE  IInv'
  BY <1>3, <1>7, PageSafe DEF AgentEvents
<1>8. ASSUME NEW c \in Clients, WaitArm(c) \/ WaitWake(c) \/ WaitTimeout(c)
      PROVE  IInv'
  BY <1>4, <1>8 DEF WaitArm, WaitWake, WaitTimeout
<1>9. CASE UNCHANGED vars
  BY <1>4, <1>9 DEF vars, clients
<1>10. ASSUME NEW g \in Gens, AppendId(g) \/ AppendPush(g)
       PROVE  IInv'
  BY <1>10, IdSafe, PushSafe
<1>11. QED
  BY <1>1, <1>2, <1>5, <1>6, <1>7, <1>8, <1>9, <1>10 DEF Next, Bridge, Client, Wait

LEMMA IInvHolds == Spec => [](Shape /\ IInv)
<1>1. Init => Shape /\ IInv
  BY ShapeInit, IInvInit
<1>2. Shape /\ IInv /\ [Next]_vars => (Shape /\ IInv)'
  BY ShapeStep, IInvStep
<1>3. QED
  BY <1>1, <1>2, PTL DEF Spec

\* No event is skipped, for any number of clients and of bridges that append at
\* once, and for both cursors a client may take (hub.rs 73-125, 587-599); what is
\* excepted is named in NoSkip.
THEOREM NoSkipping == Spec => []NoSkip
<1>1. IInv => NoSkip
  BY DEF IInv
<1>2. QED
  BY <1>1, IInvHolds, PTL

\* What a page passes over without giving it has left the ring: the cursor was
\* behind the oldest entry, and the page says so.
LEMMA PageTells ==
  ASSUME Shape, IInv, NEW c \in Clients, AgentEvents(c),
         NEW i \in cursor[c] + 1 .. cursor'[c]
  PROVE  i \in seen'[c] \cup early'[c] \cup crossed \/ i <= told'[c]
<1>1. /\ Held' = Held /\ Flying' = Flying
      /\ UNCHANGED <<entries, next_id, crossed>>
  BY DEF AgentEvents, log, bridges, Held, Flying
<1>2. NoSkip' /\ Behind'
  BY PageSafe
<1>3. cursor[c] \in Nat /\ next_id \in Nat /\ \A k \in 1 .. Len(entries) : entries[k] \in Nat
  BY DEF Shape, TypeOK, Ids
<1>4. cursor'[c] \in Nat
  <2>1. ASSUME NEW k \in Page(c), cursor' = [cursor EXCEPT ![c] = entries[k]]
        PROVE  cursor'[c] \in Nat
    BY <1>3, <2>1 DEF Page, After, Shape, TypeOK
  <2>2. Newest \in Nat
    BY <1>3 DEF Newest, Shape, TypeOK, Ids
  <2>3. QED
    BY <1>3, <2>1, <2>2 DEF AgentEvents, Shape, TypeOK
<1>5. i \in Nat /\ i > cursor[c] /\ i <= cursor'[c] /\ i < next_id /\ i \in Ids
  BY <1>1, <1>2, <1>3, <1>4 DEF Behind, Ids
<1>6. CASE i \in Held \cup Flying
  BY <1>1, <1>2, <1>5, <1>6 DEF NoSkip
<1>7. CASE i \notin Held \cup Flying /\ i \notin crossed
  <2>1. entries # <<>> /\ \A k \in 1 .. Len(entries) : i < entries[k]
    BY <1>5, <1>7 DEF IInv, Gone
  <2>2. 1 \in 1 .. Len(entries) /\ Oldest = entries[1]
    BY <2>1 DEF Oldest, Shape, TypeOK
  <2>3. Oldest \in Nat /\ i < Oldest
    BY <1>3, <2>1, <2>2
  <2>4. Truncated(c)
    BY <1>3, <1>5, <2>3 DEF Truncated
  <2>5. told'[c] = Oldest - 1
    BY <2>4 DEF AgentEvents, Shape, TypeOK
  <2>6. QED
    BY <1>5, <2>3, <2>5
<1>8. QED
  BY <1>6, <1>7

\* "The log makes event loss explicit": a page says `truncated' of every id it
\* passes over, however many bridges append (page_after, hub.rs 105-123).
THEOREM LossIsTold == Spec => PagesTellLoss
<1>1. Shape /\ IInv =>
        [\A c \in Clients : AgentEvents(c) =>
           \A i \in cursor[c] + 1 .. cursor'[c] :
             i \in seen'[c] \cup early'[c] \cup crossed \/ i <= told'[c]]_vars
  BY PageTells
<1>2. QED
  BY <1>1, IInvHolds, PTL DEF Spec, PagesTellLoss
=============================================================================
