----------------------------- MODULE FlowProofs ------------------------------
(***************************************************************************)
(* ringo-flow: its server, its runner and a scenario, each for any size.   *)
(*                                                                         *)
(* The server (FlowServe), for any number of callers, monitors and         *)
(* requests and any queue: runs do not overlap, and no request is lost or  *)
(* counted twice (Serialised and Ledger).  The books balance step by step: *)
(* a request enters the queue as it is counted, leaves it for the worker   *)
(* or with the caller that brought it, and the worker's one request enters *)
(* the store once.  What remains is counting the queue's entries of one    *)
(* monitor as the queue changes.                                           *)
(*                                                                         *)
(* The runner (FlowRun), for any files, filters and scripts: overlapping   *)
(* `until' calls stay silent, and no scenario sees what another one opened *)
(* (PollsAreQuiet and Isolated).  The depth of the silence is never below  *)
(* the number of calls that poll: it may be above it, since a host that is *)
(* dropped ends none of its own.  What is open between scenarios is of     *)
(* top-level code, since a scenario only leaves through a reset.  And a    *)
(* run that ends by itself accounts for all it was given (Accounted): in   *)
(* either phase each file seen has its verdict, waits for phase 2 or is    *)
(* run there, and the reports of the suite that is run are its wanted      *)
(* scenarios up to the one it is at.                                       *)
(*                                                                         *)
(* A scenario (FlowScenario), for any agents, calls, verbs and servers: a  *)
(* wait that fails for a dropped call tells the truth (WaitTells).  The    *)
(* guards read a view that lags behind the worker: what is reported, on    *)
(* its way or folded, has been so, and calls do not come back.  And a      *)
(* view that has folded all there is shows the worker's own calls          *)
(* (FoldsToTruth): each report is the difference it makes, and the fold of *)
(* a queue is the fold of its tail on the view with its head.              *)
(***************************************************************************)
EXTENDS FlowServe, FlowRun, FlowScenario, FiniteSetTheorems, SequenceTheorems,
        WellFoundedInduction, TLAPS

-----------------------------------------------------------------------------
(* Counting the entries of a queue.                                        *)

Of(q, m) == {i \in 1 .. Len(q) : q[i].monitor = m}

LEMMA OfFinite ==
  ASSUME NEW q \in Seq(Request), NEW m
  PROVE  IsFiniteSet(Of(q, m)) /\ Cardinality(Of(q, m)) \in Nat
<1>1. IsFiniteSet(1 .. Len(q))
  BY FS_Interval
<1>2. Of(q, m) \in SUBSET (1 .. Len(q))
  BY DEF Of
<1>3. IsFiniteSet(Of(q, m))
  BY <1>1, <1>2, FS_Subset
<1>4. QED
  BY <1>3, FS_CardinalityType

\* An entry more.
LEMMA OfAppend ==
  ASSUME NEW q \in Seq(Request), NEW e \in Request, NEW m
  PROVE  Cardinality(Of(Append(q, e), m))
           = Cardinality(Of(q, m)) + (IF e.monitor = m THEN 1 ELSE 0)
<1> DEFINE n == Len(q) + 1
<1>1. /\ Len(Append(q, e)) = n /\ n \in Nat /\ n \notin 1 .. Len(q)
      /\ \A i \in 1 .. Len(q) : Append(q, e)[i] = q[i]
      /\ Append(q, e)[n] = e
  BY AppendProperties
<1>2. n \notin Of(q, m)
  BY <1>1 DEF Of
<1>3. CASE e.monitor = m
  <2>1. Of(Append(q, e), m) = Of(q, m) \cup {n}
    BY <1>1, <1>3 DEF Of
  <2>2. IsFiniteSet(Of(q, m))
    BY OfFinite
  <2>3. Cardinality(Of(q, m) \cup {n}) = Cardinality(Of(q, m)) + 1
    BY <2>2, <1>2, FS_AddElement
  <2>4. QED
    BY <2>1, <2>3, <1>3
<1>4. CASE e.monitor # m
  <2>1. Of(Append(q, e), m) = Of(q, m)
    BY <1>1, <1>4 DEF Of
  <2>2. QED
    BY <2>1, <1>4, OfFinite
<1>5. QED
  BY <1>3, <1>4

\* An entry less: the ones behind it move up.
LEMMA OfWithout ==
  ASSUME NEW q \in Seq(Request), NEW p \in Seq(Request), NEW k \in 1 .. Len(q), NEW m,
         Len(p) = Len(q) - 1,
         \A j \in 1 .. Len(p) : p[j] = IF j < k THEN q[j] ELSE q[j + 1]
  PROVE  Cardinality(Of(p, m)) = Cardinality(Of(q, m)) - (IF q[k].monitor = m THEN 1 ELSE 0)
<1> DEFINE f == [j \in Of(p, m) |-> IF j < k THEN j ELSE j + 1]
<1>1. f \in Bijection(Of(p, m), Of(q, m) \ {k})
  <2>1. f \in [Of(p, m) -> Of(q, m) \ {k}]
    BY DEF Of
  <2>2. \A i, j \in Of(p, m) : f[i] = f[j] => i = j
    BY DEF Of
  <2>3. \A i \in Of(q, m) \ {k} : \E j \in Of(p, m) : f[j] = i
    <3>1. TAKE i \in Of(q, m) \ {k}
    <3>2. CASE i < k
      <4>1. i \in Of(p, m) /\ f[i] = i
        BY <3>2 DEF Of
      <4>2. QED
        BY <4>1
    <3>3. CASE i > k
      <4>1. /\ i \in 1 .. Len(q) /\ q[i].monitor = m
            /\ k \in Nat /\ i \in Nat /\ Len(q) \in Nat /\ Len(p) = Len(q) - 1
        BY <3>1 DEF Of
      <4>2. i - 1 \in 1 .. Len(p) /\ ~ (i - 1 < k) /\ i - 1 + 1 = i
        BY <3>3, <4>1
      <4>3. i - 1 \in Of(p, m) /\ f[i - 1] = i
        BY <4>1, <4>2 DEF Of
      <4>4. QED
        BY <4>3
    <3>4. i \in Int /\ k \in Int /\ i # k
      BY <3>1 DEF Of
    <3>5. QED
      BY <3>2, <3>3, <3>4
  <2> HIDE DEF f
  <2>4. QED
    BY <2>1, <2>2, <2>3 DEF Bijection, Injection, Surjection, IsInjective
<1>2. ExistsBijection(Of(p, m), Of(q, m) \ {k})
  BY <1>1 DEF ExistsBijection
<1>3. Cardinality(Of(q, m) \ {k}) = Cardinality(Of(p, m))
  BY <1>2, OfFinite, FS_Bijection
<1>4. k \in Of(q, m) <=> q[k].monitor = m
  BY DEF Of
<1>5. IsFiniteSet(Of(q, m)) /\ Cardinality(Of(q, m)) \in Nat
  BY OfFinite
<1>6. Cardinality(Of(q, m) \ {k})
        = IF k \in Of(q, m) THEN Cardinality(Of(q, m)) - 1 ELSE Cardinality(Of(q, m))
  BY <1>5, FS_RemoveElement
<1>7. QED
  BY <1>3, <1>4, <1>5, <1>6

\* The entries of a sequence that lost its k-th one.
LEMMA Without ==
  ASSUME NEW T, NEW q \in Seq(T), NEW k \in 1 .. Len(q)
  PROVE  LET p == SubSeq(q, 1, k - 1) \o SubSeq(q, k + 1, Len(q)) IN
           /\ p \in Seq(T) /\ Len(p) = Len(q) - 1
           /\ \A j \in 1 .. Len(p) : p[j] = IF j < k THEN q[j] ELSE q[j + 1]
<1> DEFINE a == SubSeq(q, 1, k - 1)
           b == SubSeq(q, k + 1, Len(q))
<1>0. k \in Nat /\ Len(q) \in Nat /\ 1 <= k /\ k <= Len(q)
  OBVIOUS
<1>1. /\ a \in Seq(T) /\ Len(a) = k - 1
      /\ \A i \in 1 .. k - 1 : a[i] = q[i]
  <2>1. \A i \in 1 .. k - 1 : q[i] \in T
    BY <1>0, ElementOfSeq
  <2>2. /\ a \in Seq(T) /\ Len(a) = IF 1 <= k - 1 THEN (k - 1) - 1 + 1 ELSE 0
        /\ \A i \in 1 .. (k - 1) - 1 + 1 : a[i] = q[1 + i - 1]
    BY <1>0, <2>1, SubSeqProperties
  <2> HIDE DEF a
  <2>3. QED
    BY <1>0, <2>2
<1>2. /\ b \in Seq(T) /\ Len(b) = Len(q) - k
      /\ \A i \in 1 .. Len(q) - k : b[i] = q[k + i]
  <2>1. \A i \in k + 1 .. Len(q) : q[i] \in T
    BY <1>0, ElementOfSeq
  <2>2. /\ b \in Seq(T)
        /\ Len(b) = IF k + 1 <= Len(q) THEN Len(q) - (k + 1) + 1 ELSE 0
        /\ \A i \in 1 .. Len(q) - (k + 1) + 1 : b[i] = q[(k + 1) + i - 1]
    BY <1>0, <2>1, SubSeqProperties
  <2> HIDE DEF b
  <2>3. QED
    BY <1>0, <2>2
<1> HIDE DEF a, b
<1>3. /\ a \o b \in Seq(T) /\ Len(a \o b) = Len(a) + Len(b)
      /\ \A i \in 1 .. Len(a) + Len(b) :
           (a \o b)[i] = IF i <= Len(a) THEN a[i] ELSE b[i - Len(a)]
  BY <1>1, <1>2, ConcatProperties
<1>4. Len(a \o b) = Len(q) - 1
  BY <1>0, <1>1, <1>2, <1>3
<1>5. ASSUME NEW j \in 1 .. Len(a \o b)
      PROVE  (a \o b)[j] = IF j < k THEN q[j] ELSE q[j + 1]
  <2>1. CASE j < k
    BY <2>1, <1>0, <1>1, <1>2, <1>3, <1>4
  <2>2. CASE ~ (j < k)
    <3>1. (a \o b)[j] = b[j - Len(a)] /\ j - Len(a) \in 1 .. Len(q) - k
      BY <2>2, <1>0, <1>1, <1>2, <1>3, <1>4
    <3>2. k + (j - Len(a)) = j + 1
      BY <1>0, <1>1, <1>4
    <3>3. b[j - Len(a)] = q[k + (j - Len(a))]
      BY <3>1, <1>2
    <3>4. QED
      BY <2>2, <3>1, <3>2, <3>3
  <2>3. QED
    BY <2>1, <2>2
<1>6. QED
  BY <1>3, <1>4, <1>5 DEF a, b

-----------------------------------------------------------------------------
(* Runs do not overlap.                                                    *)

\* A child that is there holds its output open, which the worker awaits.
OneChild == Serialised /\ (alive # {} => output)

\* At any time at most one child is there, while the worker waits for it
\* (worker loop, runner::run).
THEOREM OneRun == ServeSpec => []Serialised
<1> USE DEF OneChild, Serialised
<1>1. ServeInit => OneChild
  BY DEF ServeInit
<1>2. OneChild /\ [ServeNext]_serving => OneChild'
  <2> SUFFICES ASSUME OneChild, [ServeNext]_serving  PROVE OneChild'
    OBVIOUS
  <2>1. CASE UNCHANGED <<worker, run, alive, output>>
    BY <2>1
  <2>2. ASSUME NEW ok \in BOOLEAN, ChildExit(ok)  PROVE OneChild'
    BY <2>2 DEF ChildExit
  <2>9. CASE OutputEnds
    BY <2>9 DEF OutputEnds
  <2>3. CASE Worker
    BY <2>3 DEF Worker, WorkerRecv, Spawn, SpawnError, Waited, Timeout, CollectEnd, Kill,
      Record, Reply, Forget, child
  <2>4. ASSUME NEW c \in Clients, (\E call \in Call : Post(c, call)) \/ Accepted(c) \/ Disconnect(c)
        PROVE  UNCHANGED <<worker, run, alive, output>>
    BY <2>4 DEF Post, Accepted, Disconnect, child
  <2>5. ASSUME NEW m \in Scheduled, Tick(m) \/ TickSent(m)  PROVE UNCHANGED <<worker, run, alive, output>>
    BY <2>5 DEF Tick, TickSent, child
  <2>6. ASSUME NEW line \in Line, ChildLine(line)  PROVE UNCHANGED <<worker, run, alive, output>>
    BY <2>6 DEF ChildLine
  <2>7. CollectLine \/ UNCHANGED serving => UNCHANGED <<worker, run, alive, output>>
    BY DEF CollectLine, serving, child
  <2>8. QED
    BY <2>1, <2>2, <2>3, <2>4, <2>5, <2>6, <2>7, <2>9 DEF ServeNext
<1>3. OneChild => Serialised
  OBVIOUS
<1>4. QED
  BY <1>1, <1>2, <1>3, PTL DEF ServeSpec

-----------------------------------------------------------------------------
(* No request is lost or counted twice.                                    *)

LedgerTypes ==
  /\ DOMAIN client = Clients
  /\ asked \in [Clients -> Call \cup {NotAsked}]
  /\ queue \in Seq(Request)
  /\ worker \in {"recv", "spawn", "wait", "collect", "kill", "record", "reply"}
  /\ worker # "recv" => request \in Request
  /\ DOMAIN store = Monitors
  /\ \A m \in Monitors : /\ store[m].runs_pass \in Nat /\ store[m].runs_fail \in Nat
                         /\ store[m].runs_timeout \in Nat
  /\ accepted \in [Monitors -> Int]

\* A caller's entry is for what it asked; one that has not asked has none.
OwnEntries ==
  \A i \in 1 .. Len(queue) : \A c \in Clients :
    queue[i].sender = c => client[c] # "idle" /\ queue[i].monitor = asked[c].monitor

Entries(m) == Cardinality(Of(queue, m))
At(m) == IF Running(m) THEN 1 ELSE 0

Balance ==
  \A m \in Monitors :
    /\ accepted[m] = store[m].runs_pass + store[m].runs_fail + Entries(m) + At(m)
    /\ store[m].runs_timeout <= store[m].runs_fail

IInv == LedgerTypes /\ OwnEntries /\ Balance

LEMMA BalanceIsLedger == ASSUME IInv PROVE Ledger
<1>1. \A m \in Monitors : Waiting(m) = Of(queue, m)
  BY DEF Waiting, Of, IInv, LedgerTypes
<1>2. QED
  BY <1>1 DEF Ledger, IInv, Balance, Entries, At

LEMMA InitIInv == ServeInit => IInv
<1> SUFFICES ASSUME ServeInit PROVE IInv
  OBVIOUS
<1>1. LedgerTypes
  BY DEF ServeInit, LedgerTypes
<1>2. OwnEntries
  BY DEF ServeInit, OwnEntries
<1>3. ASSUME NEW m \in Monitors  PROVE Entries(m) = 0 /\ At(m) = 0
  <2>1. Of(queue, m) = {}
    BY DEF ServeInit, Of
  <2>2. QED
    BY <2>1, FS_EmptySet DEF Entries, At, Running, ServeInit
<1>4. Balance
  BY <1>3 DEF Balance, ServeInit
<1>5. QED
  BY <1>1, <1>2, <1>4 DEF IInv

\* A request enters the queue as it is counted.
LEMMA EnqueueStep ==
  ASSUME IInv, NEW m \in Monitors, NEW x \in Clients \cup Monitors, NEW r \in BOOLEAN,
         Enqueue(m, x, r), UNCHANGED <<worker, request, store>>,
         DOMAIN client' = Clients, asked' \in [Clients -> Call \cup {NotAsked}],
         \A c \in Clients \ {x} : asked'[c] = asked[c] /\ (client'[c] = "idle" => client[c] = "idle"),
         x \in Clients => client[x] = "idle" /\ client'[x] # "idle" /\ asked'[x].monitor = m
  PROVE  IInv'
<1> DEFINE e == [monitor |-> m, sender |-> x, respond |-> r]
<1>1. e \in Request /\ queue' = Append(queue, e) /\ queue \in Seq(Request)
      /\ accepted' = [accepted EXCEPT ![m] = @ + 1] /\ e.monitor = m /\ e.sender = x
  BY DEF Enqueue, Request, IInv, LedgerTypes
<1> HIDE DEF e
<1>2. /\ queue' \in Seq(Request) /\ Len(queue') = Len(queue) + 1
      /\ \A i \in 1 .. Len(queue) : queue'[i] = queue[i]
      /\ queue'[Len(queue) + 1] = e
  BY <1>1, AppendProperties
<1>3. LedgerTypes'
  BY <1>1, <1>2 DEF IInv, LedgerTypes
<1>4. OwnEntries'
  <2>1. ASSUME NEW i \in 1 .. Len(queue'), NEW c \in Clients, queue'[i].sender = c
        PROVE  client'[c] # "idle" /\ queue'[i].monitor = asked'[c].monitor
    <3>1. CASE i = Len(queue) + 1
      BY <1>1, <1>2, <2>1, <3>1
    <3>2. CASE i # Len(queue) + 1
      <4>1. i \in 1 .. Len(queue) /\ queue'[i] = queue[i]
        BY <1>1, <1>2, <3>2
      <4>2. client[c] # "idle" /\ queue[i].monitor = asked[c].monitor
        BY <4>1, <2>1 DEF IInv, OwnEntries
      <4>3. c # x
        BY <4>2
      <4>4. QED
        BY <4>1, <4>2, <4>3
    <3>3. QED
      BY <3>1, <3>2
  <2>2. QED
    BY <2>1 DEF OwnEntries
<1>5. ASSUME NEW n \in Monitors
      PROVE  /\ accepted'[n] = accepted[n] + (IF n = m THEN 1 ELSE 0)
             /\ Entries(n)' = Entries(n) + (IF n = m THEN 1 ELSE 0)
             /\ Entries(n) \in Nat /\ At(n)' = At(n) /\ At(n) \in Nat
  <2>1. Entries(n)' = Entries(n) + (IF n = m THEN 1 ELSE 0)
    BY <1>1, OfAppend DEF Entries
  <2>2. Entries(n) \in Nat
    BY <1>1, OfFinite DEF Entries
  <2>3. QED
    BY <1>1, <2>1, <2>2 DEF IInv, LedgerTypes, At, Running
<1>6. ASSUME NEW n \in Monitors
      PROVE  /\ accepted'[n] = store'[n].runs_pass + store'[n].runs_fail + Entries(n)' + At(n)'
             /\ store'[n].runs_timeout <= store'[n].runs_fail
  <2>1. /\ accepted[n] = store[n].runs_pass + store[n].runs_fail + Entries(n) + At(n)
        /\ store[n].runs_timeout <= store[n].runs_fail /\ store' = store
        /\ store[n].runs_pass \in Nat /\ store[n].runs_fail \in Nat
    BY DEF IInv, Balance, LedgerTypes
  <2>2. QED
    BY <1>5, <2>1
<1>7. Balance'
  BY <1>6 DEF Balance
<1>8. QED
  BY <1>3, <1>4, <1>7 DEF IInv

\* Nobody asks and the queue, the worker's request and the store stay.
LEMMA Settled ==
  ASSUME IInv, UNCHANGED <<asked, queue, store, accepted>>, DOMAIN client' = Clients,
         \A c \in Clients : client'[c] = "idle" => client[c] = "idle",
         worker' \in {"recv", "spawn", "wait", "collect", "kill", "record", "reply"},
         worker' # "recv" => request' = request /\ worker # "recv",
         worker' \in {"recv", "reply"} <=> worker \in {"recv", "reply"}
  PROVE  IInv'
<1>1. LedgerTypes'
  BY DEF IInv, LedgerTypes
<1>2. OwnEntries'
  BY DEF IInv, OwnEntries
<1>3. \A m \in Monitors : At(m)' = At(m) /\ Entries(m)' = Entries(m)
  BY DEF At, Running, Entries, IInv, LedgerTypes
<1>4. Balance'
  BY <1>3 DEF IInv, Balance
<1>5. QED
  BY <1>1, <1>2, <1>4 DEF IInv

\* The worker takes the first entry.
LEMMA RecvStep == ASSUME IInv, WorkerRecv PROVE IInv'
<1>1. /\ worker = "recv" /\ queue # <<>> /\ request' = Head(queue) /\ queue' = Tail(queue)
      /\ worker' = "spawn" /\ UNCHANGED <<client, asked, accepted, store>>
      /\ queue \in Seq(Request)
  BY DEF WorkerRecv, senders, IInv, LedgerTypes
<1>2. /\ Head(queue) \in Request /\ Tail(queue) \in Seq(Request)
      /\ Len(Tail(queue)) = Len(queue) - 1 /\ 1 \in 1 .. Len(queue)
      /\ \A i \in 1 .. Len(Tail(queue)) : Tail(queue)[i] = queue[i + 1]
      /\ Head(queue) = queue[1]
  BY <1>1, HeadTailProperties, EmptySeq
<1>3. LedgerTypes'
  BY <1>1, <1>2 DEF IInv, LedgerTypes
<1>4. OwnEntries'
  BY <1>1, <1>2 DEF IInv, OwnEntries
<1>5. ASSUME NEW m \in Monitors
      PROVE  /\ Entries(m)' = Entries(m) - (IF queue[1].monitor = m THEN 1 ELSE 0)
             /\ At(m) = 0 /\ At(m)' = (IF queue[1].monitor = m THEN 1 ELSE 0)
             /\ Entries(m) \in Nat
  <2>1. \A j \in 1 .. Len(Tail(queue)) :
          Tail(queue)[j] = IF j < 1 THEN queue[j] ELSE queue[j + 1]
    BY <1>2
  <2>2. Entries(m)' = Entries(m) - (IF queue[1].monitor = m THEN 1 ELSE 0)
    BY <1>1, <1>2, <2>1, OfWithout DEF Entries
  <2>3. Entries(m) \in Nat
    BY <1>1, OfFinite DEF Entries
  <2>4. QED
    BY <1>1, <1>2, <2>2, <2>3 DEF At, Running
<1>6. ASSUME NEW m \in Monitors
      PROVE  /\ accepted'[m] = store'[m].runs_pass + store'[m].runs_fail + Entries(m)' + At(m)'
             /\ store'[m].runs_timeout <= store'[m].runs_fail
  <2>1. /\ accepted[m] = store[m].runs_pass + store[m].runs_fail + Entries(m) + At(m)
        /\ store[m].runs_timeout <= store[m].runs_fail
    BY DEF IInv, Balance
  <2>2. store[m].runs_pass \in Nat /\ store[m].runs_fail \in Nat
    BY DEF IInv, LedgerTypes
  <2>3. Entries(m)' + At(m)' = Entries(m) + At(m) /\ Entries(m) \in Nat /\ At(m) \in Nat
        /\ Entries(m)' \in Int /\ At(m)' \in Nat
    BY <1>5
  <2>4. UNCHANGED <<accepted, store>>
    BY <1>1
  <2>5. QED
    BY <2>1, <2>2, <2>3, <2>4
<1>7. Balance'
  BY <1>6 DEF Balance
<1>8. QED
  BY <1>3, <1>4, <1>7 DEF IInv

\* The worker's request enters the store, once.
LEMMA RecordStep == ASSUME IInv, Record PROVE IInv'
<1> DEFINE k == request.monitor
<1>1. /\ worker = "record" /\ worker' = "reply" /\ request \in Request /\ k \in Monitors
      /\ UNCHANGED <<client, asked, accepted, queue, request>>
  BY DEF Record, senders, IInv, LedgerTypes, Request
<1>2. ASSUME NEW m \in Monitors, m # k  PROVE store'[m] = store[m]
  BY <1>1, <1>2 DEF Record, IInv, LedgerTypes
<1>3. /\ DOMAIN store' = Monitors
      /\ store'[k].runs_pass = IF Passed THEN store[k].runs_pass + 1 ELSE store[k].runs_pass
      /\ store'[k].runs_fail = IF Passed THEN store[k].runs_fail ELSE store[k].runs_fail + 1
      /\ store'[k].runs_timeout =
           IF timed_out THEN store[k].runs_timeout + 1 ELSE store[k].runs_timeout
  BY <1>1 DEF Record, IInv, LedgerTypes
<1> HIDE DEF k
<1>4. /\ store[k].runs_pass \in Nat /\ store[k].runs_fail \in Nat
      /\ store[k].runs_timeout \in Nat
  BY <1>1 DEF IInv, LedgerTypes
<1>5. /\ store'[k].runs_pass \in Nat /\ store'[k].runs_fail \in Nat
      /\ store'[k].runs_timeout \in Nat
      /\ store'[k].runs_pass + store'[k].runs_fail = store[k].runs_pass + store[k].runs_fail + 1
  <2>1. CASE Passed
    BY <2>1, <1>3, <1>4
  <2>2. CASE ~ Passed
    BY <2>2, <1>3, <1>4
  <2>3. QED
    BY <2>1, <2>2
<1>6. store'[k].runs_timeout <= store'[k].runs_fail
  <2>0. store[k].runs_timeout <= store[k].runs_fail
    BY <1>1 DEF IInv, Balance
  <2>1. CASE timed_out
    <3>1. ~ Passed
      BY <2>1 DEF Passed
    <3>2. QED
      BY <2>0, <2>1, <3>1, <1>3, <1>4
  <2>2. CASE ~ timed_out
    BY <2>0, <2>2, <1>3, <1>4
  <2>3. QED
    BY <2>1, <2>2
<1>7. LedgerTypes'
  <2>1. ASSUME NEW m \in Monitors
        PROVE  /\ store'[m].runs_pass \in Nat /\ store'[m].runs_fail \in Nat
               /\ store'[m].runs_timeout \in Nat
    BY <1>2, <1>5 DEF IInv, LedgerTypes
  <2>2. QED
    BY <1>1, <1>3, <2>1 DEF IInv, LedgerTypes
<1>8. OwnEntries'
  BY <1>1 DEF IInv, OwnEntries
<1>9. ASSUME NEW m \in Monitors
      PROVE  /\ At(m)' = 0 /\ At(m) = (IF k = m THEN 1 ELSE 0)
             /\ Entries(m)' = Entries(m) /\ Entries(m) \in Nat
  <2>1. Entries(m) \in Nat
    BY OfFinite DEF Entries, IInv, LedgerTypes
  <2>2. QED
    BY <1>1, <2>1 DEF At, Running, Entries, k
<1>10. ASSUME NEW m \in Monitors
       PROVE  /\ accepted'[m] = store'[m].runs_pass + store'[m].runs_fail + Entries(m)' + At(m)'
              /\ store'[m].runs_timeout <= store'[m].runs_fail
  <2>1. /\ accepted[m] = store[m].runs_pass + store[m].runs_fail + Entries(m) + At(m)
        /\ store[m].runs_timeout <= store[m].runs_fail
    BY DEF IInv, Balance
  <2>2. accepted'[m] = accepted[m]
    BY <1>1
  <2>3. CASE m = k
    BY <2>1, <2>2, <2>3, <1>4, <1>5, <1>6, <1>9
  <2>4. CASE m # k
    BY <2>1, <2>2, <2>4, <1>2, <1>9
  <2>5. QED
    BY <2>3, <2>4
<1>11. Balance'
  BY <1>10 DEF Balance
<1>12. QED
  BY <1>7, <1>8, <1>11 DEF IInv

\* A caller that hangs up while its entry waits takes it along.
LEMMA DisconnectStep == ASSUME IInv, NEW c \in Clients, Disconnect(c) PROVE IInv'
<1> DEFINE mine == {i \in QueueSize + 1 .. Len(queue) : queue[i].sender = c}
<1>1. /\ UNCHANGED <<asked, worker, request, store>> /\ DOMAIN client' = Clients
      /\ \A x \in Clients : client'[x] = "idle" => client[x] = "idle"
      /\ worker \in {"recv", "spawn", "wait", "collect", "kill", "record", "reply"}
      /\ queue \in Seq(Request)
  BY DEF Disconnect, IInv, LedgerTypes
<1>2. CASE mine = {}
  <2>1. UNCHANGED <<queue, accepted>>
    BY <1>2 DEF Disconnect
  <2>2. QED
    BY <1>1, <2>1, Settled
<1>3. CASE mine # {}
  <2>1. PICK k \in mine : /\ queue' = SubSeq(queue, 1, k - 1) \o SubSeq(queue, k + 1, Len(queue))
                          /\ accepted' = [accepted EXCEPT ![asked[c].monitor] = @ - 1]
    BY <1>3 DEF Disconnect
  <2>2. k \in 1 .. Len(queue) /\ queue[k].sender = c
    BY <1>1, FlowServeAssumption
  <2> HIDE DEF mine
  <2>3. /\ queue' \in Seq(Request) /\ Len(queue') = Len(queue) - 1
        /\ \A j \in 1 .. Len(queue') : queue'[j] = IF j < k THEN queue[j] ELSE queue[j + 1]
    BY <1>1, <2>1, <2>2, Without
  <2>4. queue[k].monitor = asked[c].monitor /\ queue[k].monitor \in Monitors
    <3>1. queue[k] \in Request
      BY <1>1, <2>2, ElementOfSeq
    <3>2. QED
      BY <2>2, <3>1 DEF IInv, OwnEntries, Request
  <2>5. LedgerTypes'
    BY <1>1, <2>1, <2>3, <2>4 DEF IInv, LedgerTypes
  <2>6. OwnEntries'
    <3>1. ASSUME NEW i \in 1 .. Len(queue'), NEW x \in Clients, queue'[i].sender = x
          PROVE  client'[x] # "idle" /\ queue'[i].monitor = asked'[x].monitor
      <4>1. PICK j \in 1 .. Len(queue) : queue'[i] = queue[j]
        BY <1>1, <2>2, <2>3
      <4>2. client[x] # "idle" /\ queue[j].monitor = asked[x].monitor
        BY <3>1, <4>1 DEF IInv, OwnEntries
      <4>3. QED
        BY <1>1, <4>1, <4>2
    <3>2. QED
      BY <3>1 DEF OwnEntries
  <2>7. ASSUME NEW m \in Monitors
        PROVE  /\ Entries(m)' = Entries(m) - (IF queue[k].monitor = m THEN 1 ELSE 0)
               /\ accepted'[m] = accepted[m] - (IF queue[k].monitor = m THEN 1 ELSE 0)
               /\ At(m)' = At(m) /\ At(m) \in Nat /\ Entries(m) \in Nat
    <3>1. Entries(m)' = Entries(m) - (IF queue[k].monitor = m THEN 1 ELSE 0)
      BY <1>1, <2>2, <2>3, OfWithout DEF Entries
    <3>2. accepted'[m] = accepted[m] - (IF queue[k].monitor = m THEN 1 ELSE 0)
      BY <2>1, <2>4 DEF IInv, LedgerTypes
    <3>3. Entries(m) \in Nat
      BY <1>1, OfFinite DEF Entries
    <3>4. QED
      BY <1>1, <3>1, <3>2, <3>3 DEF At, Running
  <2>8. Balance'
    <3>1. ASSUME NEW m \in Monitors
          PROVE  /\ accepted'[m] = store'[m].runs_pass + store'[m].runs_fail + Entries(m)' + At(m)'
                 /\ store'[m].runs_timeout <= store'[m].runs_fail
      <4>1. /\ accepted[m] = store[m].runs_pass + store[m].runs_fail + Entries(m) + At(m)
            /\ store[m].runs_timeout <= store[m].runs_fail
        BY DEF IInv, Balance
      <4>2. store[m].runs_pass \in Nat /\ store[m].runs_fail \in Nat /\ store' = store
        BY <1>1 DEF IInv, LedgerTypes
      <4>3. QED
        BY <2>7, <4>1, <4>2
    <3>2. QED
      BY <3>1 DEF Balance
  <2>9. QED
    BY <2>5, <2>6, <2>8 DEF IInv
<1>4. QED
  BY <1>2, <1>3

LEMMA LedgerStep == ASSUME IInv, [ServeNext]_serving PROVE IInv'
<1>t. worker \in {"recv", "spawn", "wait", "collect", "kill", "record", "reply"}
      /\ DOMAIN client = Clients /\ asked \in [Clients -> Call \cup {NotAsked}]
  BY DEF IInv, LedgerTypes
<1>1. ASSUME NEW c \in Clients, NEW call \in Call, Post(c, call)  PROVE IInv'
  <2>1. /\ client[c] = "idle" /\ client' = [client EXCEPT ![c] = "sent"]
        /\ asked' = [asked EXCEPT ![c] = call] /\ Enqueue(call.monitor, c, ~call.run_async)
        /\ UNCHANGED <<worker, request, store>>
    BY <1>1 DEF Post
  <2>2. call.monitor \in Monitors
    BY DEF Call
  <2>3. QED
    BY <1>t, <2>1, <2>2, EnqueueStep
<1>2. ASSUME NEW c \in Clients, Accepted(c)  PROVE IInv'
  BY <1>2, <1>t, Settled DEF Accepted
<1>3. ASSUME NEW c \in Clients, Disconnect(c)  PROVE IInv'
  BY <1>3, DisconnectStep
<1>4. ASSUME NEW m \in Scheduled, Tick(m)  PROVE IInv'
  <2>1. m \in Monitors /\ m \notin Clients
    BY FlowServeAssumption
  <2>2. QED
    BY <1>4, <1>t, <2>1, EnqueueStep DEF Tick
<1>5. ASSUME NEW m \in Scheduled, TickSent(m)  PROVE IInv'
  BY <1>5, <1>t, Settled DEF TickSent
<1>6. ASSUME (\E line \in Line : ChildLine(line)) \/ (\E ok \in BOOLEAN : ChildExit(ok))
             \/ OutputEnds \/ CollectLine \/ UNCHANGED serving
      PROVE  IInv'
  BY <1>6, <1>t, Settled DEF ChildLine, ChildExit, OutputEnds, CollectLine, serving, senders
<1>7. CASE WorkerRecv
  BY <1>7, RecvStep
<1>8. CASE Record
  BY <1>8, RecordStep
<1>9. CASE Spawn \/ SpawnError \/ Waited \/ Timeout \/ CollectEnd \/ Kill
  BY <1>9, <1>t, Settled
  DEF Spawn, SpawnError, Waited, Timeout, CollectEnd, Kill, senders
<1>10. CASE Reply
  <2>1. /\ UNCHANGED <<asked, queue, store, accepted>> /\ worker = "reply" /\ worker' = "recv"
        /\ DOMAIN client' = Clients
    BY <1>10, <1>t DEF Reply
  <2>2. \A c \in Clients : client'[c] = "idle" => client[c] = "idle"
    BY <1>10, <1>t DEF Reply
  <2>3. QED
    BY <2>1, <2>2, Settled
<1>11. QED
  BY <1>1, <1>2, <1>3, <1>4, <1>5, <1>6, <1>7, <1>8, <1>9, <1>10 DEF ServeNext, Worker

\* Every request that was sent and not withdrawn is in the queue, running, or
\* counted once in the store, whatever is refused, times out or fails to start.
THEOREM BooksBalance == ServeSpec => []Ledger
BY InitIInv, LedgerStep, BalanceIsLedger, PTL DEF ServeSpec

-----------------------------------------------------------------------------
(* Silence.                                                                *)

Silent ==
  /\ depth \in Nat
  /\ IsFiniteSet(waiters) /\ Cardinality(waiters) <= depth
  /\ ~ noise

LEMMA InitSilent == Init => Silent
BY FS_EmptySet DEF Init, AssertsInit, Silent

LEMMA Unheard == ASSUME Silent, UNCHANGED asserts PROVE Silent'
BY DEF Silent, asserts

\* Fewer calls poll under the same silence.
LEMMA Dropped ==
  ASSUME Silent, waiters' \subseteq waiters, UNCHANGED <<depth, stash, noise>>
  PROVE  Silent'
<1>1. IsFiniteSet(waiters') /\ Cardinality(waiters') <= Cardinality(waiters)
  BY FS_Subset DEF Silent
<1>2. Cardinality(waiters') \in Nat /\ Cardinality(waiters) \in Nat
  BY <1>1, FS_CardinalityType DEF Silent
<1>3. QED
  BY <1>1, <1>2 DEF Silent

LEMMA PollingSteps ==
  ASSUME Silent, NEW w, Check \/ UntilBegins(w) \/ UntilRetries(w) \/ UntilSettles(w)
  PROVE  Silent'
<1>0. Cardinality(waiters) \in Nat
  BY FS_CardinalityType DEF Silent
<1>1. CASE Check
  BY <1>1 DEF Check, ReportAssertion, Silent
<1>2. CASE UntilBegins(w)
  <2>1. /\ IsFiniteSet(waiters \cup {w})
        /\ Cardinality(waiters \cup {w}) = Cardinality(waiters) + 1
    BY <1>2, FS_AddElement DEF UntilBegins, Silent
  <2>2. QED
    BY <1>0, <1>2, <2>1 DEF UntilBegins, BeginAssertSilent, Silent
<1>3. ASSUME w \in waiters  PROVE Cardinality(waiters) > 0
  BY <1>0, <1>3, FS_EmptySet DEF Silent
<1>4. CASE UntilRetries(w)
  <2>1. depth > 0
    BY <1>0, <1>3, <1>4 DEF UntilRetries, Silent
  <2>2. QED
    BY <1>4, <2>1 DEF UntilRetries, ReportAssertion, Silent
<1>5. CASE UntilSettles(w)
  <2>1. /\ IsFiniteSet(waiters \ {w})
        /\ Cardinality(waiters \ {w}) = Cardinality(waiters) - 1
    BY <1>5, FS_RemoveElement DEF UntilSettles, Silent
  <2>2. QED
    BY <1>0, <1>3, <1>5, <2>1 DEF UntilSettles, EndAssertSilent, Silent
<1>6. QED
  BY <1>1, <1>2, <1>4, <1>5

LEMMA SilentStep == ASSUME Silent, [Next]_vars PROVE Silent'
<1>1. CASE Script
  <2>1. ASSUME NEW n \in Names, ConnectAgent(n)  PROVE Silent'
    BY <2>1, Unheard DEF ConnectAgent
  <2>2. ASSUME NEW p \in Ports, StartMock(p)  PROVE Silent'
    BY <2>2, Unheard DEF StartMock
  <2>3. CASE Asserts
    BY <2>3, PollingSteps DEF Asserts
  <2>4. ASSUME NEW i \in 1 .. MaxWaiters, AwaitUntil(<<Program, i>>)  PROVE Silent'
    BY <2>4, PollingSteps DEF AwaitUntil
  <2>5. QED
    BY <1>1, <2>1, <2>2, <2>3, <2>4 DEF Script
<1>2. ASSUME NEW w \in waiters, PollRetries(w) \/ PollSettles(w)  PROVE Silent'
  BY <1>2, PollingSteps DEF PollRetries, PollSettles
<1>3. ASSUME NEW n \in Names, CallComes(n) \/ CallEnds(n)  PROVE Silent'
  BY <1>3, Unheard DEF CallComes, CallEnds
<1>4. CASE TopLevelEnds
  <2>1. UNCHANGED asserts \/ HostDropped(Program)
    BY <1>4 DEF TopLevelEnds, TopLevelSingle, TopLevelError, Defer
  <2>2. QED
    BY <2>1, Unheard, Dropped DEF HostDropped
<1>5. CASE SetupEnds \/ BodyEnds \/ TeardownEnds
  BY <1>5, Unheard DEF SetupEnds, BodyEnds, TeardownEnds
<1>6. CASE SuiteEnds
  BY <1>6, Dropped DEF SuiteEnds, HostDropped
<1>7. CASE \/ BuildFails \/ BuildHost \/ RegisterScenario
           \/ SuiteStarts \/ NotChosen \/ StaticSkip \/ RunScenario \/ ScenarioEnds
           \/ FilesEnd \/ Reap \/ RunEnd \/ FlushDone \/ FlushTimeout \/ UNCHANGED vars
  BY <1>7, Unheard
  DEF BuildFails, BuildHost, RegisterScenario, SuiteStarts, NotChosen, StaticSkip, RunScenario,
    ScenarioEnds, FilesEnd, Reap, RunEnd, FlushDone, FlushTimeout, vars
<1>8. CASE Panics
  BY <1>8, Dropped DEF Panics
<1>9. QED
  BY <1>1, <1>2, <1>3, <1>4, <1>5, <1>6, <1>7, <1>8 DEF Next, ScriptEnds, Runner

\* A condition that is going to be tried again is never shown, however many `until'
\* calls overlap (Ctx::begin_assert_silent, end_assert_silent).
THEOREM Quiet == Spec => []PollsAreQuiet
<1>1. Silent => PollsAreQuiet
  BY DEF Silent, PollsAreQuiet
<1>2. QED
  BY InitSilent, SilentStep, <1>1, PTL DEF Spec

-----------------------------------------------------------------------------
(* Isolation.                                                              *)

Open == sessions \cup mocks
TopLevel == \A x \in Open : x.by[2] = 0
InScenario == {"setup", "body", "teardown", "report"}

Separate ==
  /\ pc \in {"build", "top"} => sc = 0
  /\ pc \in {"build", "top", "suite", "scenario"} => TopLevel
  /\ pc \in InScenario => \A x \in Open : x.by = Here \/ x.by[2] = 0

LEMMA InitSeparate == Init => Separate
BY DEF Init, Separate, TopLevel, Open, InScenario

\* Nothing is opened, and the scenario, if it is one, stays the same.
LEMMA Nowhere ==
  ASSUME Separate, UNCHANGED <<programs, file, sc>>, Open' \subseteq Open,
         \/ pc' = pc
         \/ pc \in InScenario \cup {"scenario"} /\ pc' \in InScenario
         \/ pc' \notin InScenario \cup {"build", "top", "suite", "scenario"}
         \/ pc = "build" /\ pc' = "top"
  PROVE  Separate'
BY DEF Separate, TopLevel, InScenario, Here, Program

\* A step outside scenarios: what is open is of top-level code before and after.
LEMMA Between ==
  ASSUME Separate, pc \in {"build", "top", "suite", "scenario"} \/ Open' = {},
         Open' \subseteq Open,
         pc' \in {"build", "top"} => pc \in {"build", "top"} /\ sc' = sc
  PROVE  Separate'
BY DEF Separate, TopLevel, InScenario

LEMMA SeparateStep == ASSUME Separate, [Next]_vars PROVE Separate'
<1>1. ASSUME NEW n \in Names, ConnectAgent(n)  PROVE Separate'
  <2>1. /\ UNCHANGED <<programs, file, sc, pc, mocks>> /\ Scripting
        /\ \A s \in sessions' : s \in sessions \/ s.by = Here
    BY <1>1 DEF ConnectAgent, Step, place
  <2>2. QED
    BY <2>1 DEF Separate, TopLevel, Open, InScenario, Scripting, Here, Program
<1>2. ASSUME NEW p \in Ports, StartMock(p)  PROVE Separate'
  <2>1. /\ UNCHANGED <<programs, file, sc, pc, sessions>> /\ Scripting
        /\ \A m \in mocks' : m \in mocks \/ m.by = Here
    BY <1>2 DEF StartMock, Step, place
  <2>2. QED
    BY <2>1 DEF Separate, TopLevel, Open, InScenario, Scripting, Here, Program
<1>3. ASSUME \/ Asserts \/ \E i \in 1 .. MaxWaiters : AwaitUntil(<<Program, i>>)
             \/ \E w \in waiters : PollRetries(w) \/ PollSettles(w)
             \/ \E n \in Names : CallComes(n) \/ CallEnds(n)
             \/ RegisterScenario \/ UNCHANGED vars
      PROVE  Separate'
  <2>1. UNCHANGED <<programs, file, sc, pc, sessions, mocks>>
    BY <1>3 DEF Asserts, AwaitUntil, Step, PollRetries, PollSettles, CallComes, CallEnds,
      RegisterScenario, vars, place, opened
  <2>2. QED
    BY <2>1, Nowhere DEF Open
<1>4. CASE TopLevelEnds \/ BuildFails
  <2>1. /\ pc \in {"build", "top"} /\ pc' = "build" /\ sc' = sc
        /\ sessions' \subseteq sessions /\ mocks' \subseteq mocks
    BY <1>4 DEF TopLevelEnds, TopLevelSingle, TopLevelError, Defer, BuildFails, NextFile,
      ResetSessions, opened
  <2>2. QED
    BY <2>1, Between DEF Open
<1>5. CASE BuildHost
  BY <1>5, Nowhere DEF BuildHost, Open, opened
<1>6. CASE SuiteStarts \/ NotChosen \/ StaticSkip \/ SuiteEnds
  <2>1. /\ pc \in {"build", "suite", "scenario"} /\ pc' \in {"suite", "scenario"}
        /\ sessions' \subseteq sessions /\ mocks' \subseteq mocks
    BY <1>6 DEF SuiteStarts, BetweenSuites, NotChosen, StaticSkip, SuiteEnds, Advance,
      ResetSessions, opened
  <2>2. QED
    BY <2>1, Between DEF Open
<1>7. CASE RunScenario \/ SetupEnds \/ BodyEnds \/ TeardownEnds
  <2>1. /\ pc \in InScenario \cup {"scenario"} /\ pc' \in InScenario
        /\ UNCHANGED <<programs, file, sc, sessions, mocks>>
    BY <1>7 DEF RunScenario, SetupEnds, BodyEnds, TeardownEnds, Advance, InScenario, opened
  <2>2. QED
    BY <2>1, Nowhere DEF Open
<1>8. CASE ScenarioEnds
  <2>1. pc' = "scenario" /\ sessions' = {} /\ mocks' = {}
    BY <1>8 DEF ScenarioEnds, ResetSessions, Advance
  <2>2. QED
    BY <2>1, Between DEF Open
<1>9. CASE FilesEnd \/ Panics \/ Reap \/ RunEnd \/ FlushDone \/ FlushTimeout
  <2>1. pc' \in {"flush", "reap", "verdict", "ended"}
    BY <1>9 DEF FilesEnd, Panics, Reap, RunEnd, FlushDone, FlushTimeout, Advance
  <2>2. QED
    BY <2>1 DEF Separate, InScenario
<1>10. QED
  BY <1>1, <1>2, <1>3, <1>4, <1>5, <1>6, <1>7, <1>8, <1>9
  DEF Next, Script, ScriptEnds, Runner

\* A scenario sees no agent and no mock server that another scenario opened
\* (Ctx::reset_sessions, run_suite).
THEOREM Isolation == Spec => []Isolated
<1>1. Separate => Isolated
  BY DEF Separate, Isolated, Open, InScenario
<1>2. QED
  BY InitSeparate, SeparateStep, <1>1, PTL DEF Spec


-----------------------------------------------------------------------------
(* Waits that fail.                                                        *)

CallTypes == {"incoming", "outgoing", "ringing", "established", "closed"}
AgentEvent == [type : {"registered", "unregistered"}, id : {0}] \cup [type : CallTypes, id : CallIds]
CallStates == {"new", "outgoing", "alerted", "incoming", "established", "done", "missed"}
Entry == [id : CallIds, phase : {"ringing", "established"}, peer : BOOLEAN]
AgentView == [calls : Seq(Entry), reason : BOOLEAN, registered : BOOLEAN, headers : SUBSET CallIds]
WaitState == [guards : [Agents -> SUBSET CallIds], dropped : SUBSET Agents,
            slept : BOOLEAN, end : {"none", "ok", "dropped"}]

WasUp == {"established", "done"}
Over == {"done", "missed"}

Shapes ==
  /\ calls \in [Agents -> [CallIds -> CallStates]]
  /\ emitted \in [Agents -> Seq(AgentEvent)]
  /\ pushed \in [Agents -> SUBSET CallIds]
  /\ view \in [Agents -> AgentView]
  /\ wait \in WaitState

\* What is reported, and what is shown, has been so.
Truthful ==
  \A a \in Agents :
    /\ \A i \in 1 .. Len(emitted[a]) :
         /\ emitted[a][i].type = "established" => calls[a][emitted[a][i].id] \in WasUp
         /\ emitted[a][i].type = "closed" => calls[a][emitted[a][i].id] \in Over
    /\ \A c \in EstablishedIds(view[a]) : calls[a][c] \in WasUp

\* A guarded call was up, and leaves the view when it is over.
Guarded ==
  \A a \in Agents : \A c \in wait.guards[a] :
    /\ calls[a][c] \in WasUp
    /\ c \notin CallIdsOf(view[a]) => calls[a][c] = "done"

WaitInv == Shapes /\ Truthful /\ Guarded /\ WaitTells

\* An entry is changed or added.
LEMMA PutKeeps ==
  ASSUME NEW v \in AgentView, NEW c \in CallIds, NEW p \in {"ringing", "established"}, NEW peer \in BOOLEAN
  PROVE  /\ PutCall(v, c, p, peer) \in AgentView
         /\ CallIdsOf(v) \subseteq CallIdsOf(PutCall(v, c, p, peer))
         /\ \A d \in EstablishedIds(PutCall(v, c, p, peer)) :
              d \in EstablishedIds(v) \/ (d = c /\ p = "established")
<1> DEFINE w == PutCall(v, c, p, peer)
           n == Len(v.calls)
<1>1. /\ v.calls \in Seq(Entry) /\ n \in Nat /\ DOMAIN v.calls = 1 .. n
      /\ \A i \in 1 .. n : v.calls[i] \in Entry
  BY ElementOfSeq DEF AgentView
<1>2. CASE c \in CallIdsOf(v)
  <2> DEFINE changed == [i \in DOMAIN v.calls |->
        IF v.calls[i].id = c THEN CallView(c, p, peer \/ v.calls[i].peer) ELSE v.calls[i]]
  <2>1. w = [v EXCEPT !.calls = changed]
    BY <1>2 DEF PutCall
  <2>2. \A i \in 1 .. n : changed[i] \in Entry
    BY <1>1 DEF Entry, CallView
  <2>3. changed \in Seq(Entry) /\ DOMAIN changed = 1 .. n
    <3>1. changed = [i \in 1 .. n |-> changed[i]]
      BY <1>1
    <3> HIDE DEF changed
    <3>2. changed \in [1 .. n -> Entry]
      BY <2>2, <3>1
    <3>3. QED
      BY <1>1, <3>1, <3>2
  <2>4. w \in AgentView /\ w.calls = changed
    BY <2>1, <2>3 DEF AgentView
  <2>5. \A i \in 1 .. n : changed[i].id = v.calls[i].id
    BY <1>1 DEF CallView
  <2>6. \A i \in 1 .. n : changed[i].phase = v.calls[i].phase \/ (changed[i].id = c /\ changed[i].phase = p)
    BY <1>1 DEF CallView
  <2> HIDE DEF w, changed
  <2>7. CallIdsOf(v) \subseteq CallIdsOf(w)
    BY <1>1, <2>3, <2>4, <2>5 DEF CallIdsOf
  <2>8. \A d \in EstablishedIds(w) : d \in EstablishedIds(v) \/ (d = c /\ p = "established")
    BY <1>1, <2>3, <2>4, <2>5, <2>6 DEF EstablishedIds
  <2>9. QED
    BY <2>4, <2>7, <2>8 DEF w
<1>3. CASE c \notin CallIdsOf(v)
  <2> DEFINE e == CallView(c, p, peer)
             longer == Append(v.calls, e)
  <2>1. w = [v EXCEPT !.calls = longer]
    BY <1>3 DEF PutCall
  <2>2. e \in Entry /\ e.id = c /\ e.phase = p
    BY DEF Entry, CallView
  <2> HIDE DEF e
  <2>3. /\ longer \in Seq(Entry) /\ DOMAIN longer = 1 .. n + 1
        /\ \A i \in 1 .. n : longer[i] = v.calls[i]
        /\ longer[n + 1] = e
    BY <1>1, <2>2, AppendProperties
  <2>4. w \in AgentView /\ w.calls = longer
    BY <2>1, <2>3 DEF AgentView
  <2>5. \A i \in 1 .. n + 1 : i \in 1 .. n \/ i = n + 1
    BY <1>1
  <2>6. \A i \in 1 .. n : i \in 1 .. n + 1
    BY <1>1
  <2> HIDE DEF w, longer
  <2>7. CallIdsOf(v) \subseteq CallIdsOf(w)
    BY <1>1, <2>3, <2>4, <2>6 DEF CallIdsOf
  <2>8. \A d \in EstablishedIds(w) : d \in EstablishedIds(v) \/ (d = c /\ p = "established")
    BY <1>1, <2>2, <2>3, <2>4, <2>5 DEF EstablishedIds
  <2>9. QED
    BY <2>4, <2>7, <2>8 DEF w
<1>4. QED
  BY <1>2, <1>3

\* No other entry goes with the one of the call that has ended.
LEMMA CloseKeeps ==
  ASSUME NEW v \in AgentView, NEW c \in CallIds
  PROVE  /\ CallClosed(v, c) \in AgentView
         /\ CallIdsOf(v) \ {c} \subseteq CallIdsOf(CallClosed(v, c))
         /\ EstablishedIds(CallClosed(v, c)) \subseteq EstablishedIds(v)
<1> DEFINE w == CallClosed(v, c)
           n == Len(v.calls)
<1>1. v.calls \in Seq(Entry) /\ n \in Nat /\ DOMAIN v.calls = 1 .. n
  BY DEF AgentView
<1>2. CASE c \notin CallIdsOf(v)
  <2>1. w = [v EXCEPT !.calls = v.calls, !.reason = TRUE]
    BY <1>2 DEF CallClosed
  <2>2. w \in AgentView /\ w.calls = v.calls
    BY <2>1 DEF AgentView
  <2>3. QED
    BY <2>2 DEF CallIdsOf, EstablishedIds
<1>3. CASE c \in CallIdsOf(v)
  <2>1. PICK k \in 1 .. n : /\ k = CHOOSE i \in DOMAIN v.calls : v.calls[i].id = c
                            /\ v.calls[k].id = c
    BY <1>1, <1>3 DEF CallIdsOf
  <2> DEFINE less == Drop(v.calls, k)
  <2>2. w = [v EXCEPT !.calls = less, !.reason = TRUE]
    BY <1>3, <2>1 DEF CallClosed
  <2>3. /\ less \in Seq(Entry) /\ Len(less) = n - 1
        /\ \A i \in 1 .. Len(less) : less[i] = IF i < k THEN v.calls[i] ELSE v.calls[i + 1]
    BY <1>1, Without DEF Drop
  <2> HIDE DEF less
  <2>4. w \in AgentView /\ w.calls = less
    BY <2>2, <2>3 DEF AgentView
  <2>5. DOMAIN less = 1 .. Len(less)
    BY <2>3, LenProperties
  <2>6. \A i \in 1 .. Len(less) : \E j \in 1 .. n : less[i] = v.calls[j]
    <3>1. \A i \in 1 .. Len(less) : i \in 1 .. n /\ i + 1 \in 1 .. n
      BY <1>1, <2>3
    <3>2. QED
      BY <2>3, <3>1
  <2>7. ASSUME NEW j \in 1 .. n, j # k
        PROVE  \E i \in 1 .. Len(less) : less[i] = v.calls[j]
    <3>1. CASE j < k
      <4>1. j \in 1 .. Len(less)
        BY <1>1, <2>1, <2>3, <3>1
      <4>2. QED
        BY <2>3, <3>1, <4>1
    <3>2. CASE j > k
      <4>1. j - 1 \in 1 .. Len(less) /\ ~(j - 1 < k) /\ j - 1 + 1 = j
        BY <1>1, <2>1, <2>3, <3>2
      <4>2. QED
        BY <2>3, <4>1
    <3>3. QED
      BY <2>7, <3>1, <3>2
  <2> HIDE DEF w
  <2>8. CallIdsOf(v) \ {c} \subseteq CallIdsOf(w)
    <3> SUFFICES ASSUME NEW j \in 1 .. n, v.calls[j].id # c
                 PROVE  v.calls[j].id \in CallIdsOf(w)
      BY <1>1 DEF CallIdsOf
    <3>1. PICK i \in 1 .. Len(less) : less[i] = v.calls[j]
      BY <2>1, <2>7
    <3>2. QED
      BY <2>4, <2>5, <3>1 DEF CallIdsOf
  <2>9. EstablishedIds(w) \subseteq EstablishedIds(v)
    <3> SUFFICES ASSUME NEW i \in 1 .. Len(less), less[i].phase = "established"
                 PROVE  less[i].id \in EstablishedIds(v)
      BY <2>4, <2>5 DEF EstablishedIds
    <3>1. QED
      BY <1>1, <2>6 DEF EstablishedIds
  <2>10. QED
    BY <2>4, <2>8, <2>9 DEF w
<1>4. QED
  BY <1>2, <1>3

\* What the fold of one event does to the calls of a view.
LEMMA ReduceKeeps ==
  ASSUME NEW v \in AgentView, NEW e \in AgentEvent
  PROVE  /\ Reduce(v, e) \in AgentView
         /\ \A d \in EstablishedIds(Reduce(v, e)) :
              d \in EstablishedIds(v) \/ (d = e.id /\ e.type = "established")
         /\ \A d \in CallIdsOf(v) :
              d \in CallIdsOf(Reduce(v, e)) \/ (d = e.id /\ e.type = "closed")
<1>1. CASE e.type = "registered"
  <2>1. Reduce(v, e) = [v EXCEPT !.registered = TRUE]
    BY <1>1 DEF Reduce
  <2>2. Reduce(v, e) \in AgentView /\ Reduce(v, e).calls = v.calls
    BY <2>1 DEF AgentView
  <2>3. QED
    BY <2>2 DEF EstablishedIds, CallIdsOf
<1>2. CASE e.type = "unregistered"
  <2>1. Reduce(v, e) = [v EXCEPT !.registered = FALSE]
    BY <1>2 DEF Reduce
  <2>2. Reduce(v, e) \in AgentView /\ Reduce(v, e).calls = v.calls
    BY <2>1 DEF AgentView
  <2>3. QED
    BY <2>2 DEF EstablishedIds, CallIdsOf
<1>3. CASE e.type \in CallTypes \ {"closed"}
  <2>1. e.id \in CallIds
    BY <1>3 DEF AgentEvent, CallTypes
  <2>2. PICK p \in {"ringing", "established"}, peer \in BOOLEAN :
          Reduce(v, e) = PutCall(v, e.id, p, peer) /\ (p = "established" => e.type = "established")
    BY <1>3 DEF Reduce, CallTypes, UpsertCall, SetPhase
  <2>3. QED
    BY <2>1, <2>2, PutKeeps
<1>4. CASE e.type = "closed"
  <2>1. e.id \in CallIds /\ Reduce(v, e) = CallClosed(v, e.id)
    BY <1>4 DEF AgentEvent, CallTypes, Reduce
  <2>2. QED
    BY <1>4, <2>1, CloseKeeps
<1>5. QED
  BY <1>1, <1>2, <1>3, <1>4 DEF AgentEvent, CallTypes

LEMMA ShownIds == ASSUME NEW v \in AgentView PROVE EstablishedIds(v) \subseteq CallIds
<1>1. v.calls \in Seq(Entry) /\ DOMAIN v.calls = 1 .. Len(v.calls)
  BY LenProperties DEF AgentView
<1>2. \A i \in 1 .. Len(v.calls) : v.calls[i] \in Entry
  BY <1>1, ElementOfSeq
<1>3. QED
  BY <1>1, <1>2 DEF EstablishedIds, Entry

-----------------------------------------------------------------------------
(* The worker's steps.                                                     *)

\* A call goes on: it may come up, end, or be missed, and does not come back.
GoesOn(old, new) ==
  /\ new \in CallStates
  /\ old \in WasUp => new \in WasUp
  /\ old \in Over => new \in Over

\* What one step of a worker or of its peer does: it reports what it has done,
\* or nothing.
Matches(t, s) ==
  /\ s # "new"
  /\ t = "established" <=> s = "established"
  /\ t = "closed" <=> s \in Over
Reports(a) ==
  \/ UNCHANGED <<calls, emitted>>
  \/ \E t \in {"registered", "unregistered"} : Emit(a, t, 0) /\ UNCHANGED calls
  \/ \E c \in CallIds, s \in CallStates :
       /\ Becomes(a, c, s) /\ GoesOn(calls[a][c], s)
       /\ \/ UNCHANGED emitted /\ calls[a][c] = "new" /\ s = "missed"
          \/ \E t \in CallTypes : Emit(a, t, c) /\ Matches(t, s)

LEMMA CloseReports ==
  ASSUME Shapes, NEW a \in Agents, NEW c \in Current(a), Becomes(a, c, Closed(calls[a][c])), Emit(a, "closed", c)
  PROVE  Reports(a)
<1>1. c \in CallIds /\ calls[a][c] \in Alive
  BY DEF Current
<1>2. /\ Closed(calls[a][c]) \in CallStates /\ Closed(calls[a][c]) \in Over
      /\ GoesOn(calls[a][c], Closed(calls[a][c])) /\ Matches("closed", Closed(calls[a][c]))
  BY <1>1 DEF Closed, CallStates, Over, Alive, WasUp, GoesOn, Matches
<1>3. QED
  BY <1>1, <1>2 DEF Reports, CallTypes, Matches, Over

LEMMA WorkerReports == ASSUME Shapes, NEW a \in Agents, WorkerActs(a) PROVE Reports(a)
<1>1. ASSUME NEW c \in Fresh(a), Becomes(a, c, "outgoing"), Emit(a, "outgoing", c)
      PROVE  Reports(a)
  <2>1. c \in CallIds /\ GoesOn(calls[a][c], "outgoing") /\ "outgoing" \in CallStates
    BY <1>1 DEF Fresh, GoesOn, CallStates, WasUp, Over
  <2>2. QED
    BY <1>1, <2>1 DEF Reports, CallTypes, Matches, Over
<1>2. ASSUME NEW c \in Current(a), calls[a][c] = "incoming",
             Becomes(a, c, "established"), Emit(a, "established", c)
      PROVE  Reports(a)
  <2>1. c \in CallIds /\ GoesOn(calls[a][c], "established") /\ "established" \in CallStates \cap WasUp
    BY <1>2 DEF Current, GoesOn, CallStates, WasUp, Over
  <2>2. QED
    BY <1>2, <2>1 DEF Reports, CallTypes, Matches, Over
<1>3. QED
  BY <1>1, <1>2, CloseReports DEF WorkerActs, Reports

LEMMA OthersReport ==
  ASSUME Shapes, NEW a \in Agents, InviteComes(a) \/ RegistrarAnswers(a) \/ PeerAnswers(a) \/ PeerCloses(a)
  PROVE  Reports(a)
<1>1. CASE InviteComes(a)
  <2>1. PICK c \in Fresh(a) :
          \/ Becomes(a, c, "missed") /\ UNCHANGED emitted
          \/ Becomes(a, c, "incoming") /\ Emit(a, "incoming", c)
    BY <1>1 DEF InviteComes
  <2>2. /\ c \in CallIds /\ calls[a][c] = "new" /\ GoesOn(calls[a][c], "missed") /\ GoesOn(calls[a][c], "incoming")
        /\ {"missed", "incoming"} \subseteq CallStates
    BY DEF Fresh, GoesOn, CallStates, WasUp, Over
  <2>3. QED
    BY <2>1, <2>2 DEF Reports, CallTypes, Matches, Over
<1>2. CASE RegistrarAnswers(a)
  BY <1>2 DEF RegistrarAnswers, Reports
<1>3. CASE PeerAnswers(a)
  <2>1. PICK c \in CallIds :
          \/ calls[a][c] = "outgoing" /\ Becomes(a, c, "alerted") /\ Emit(a, "ringing", c)
          \/ /\ calls[a][c] \in {"outgoing", "alerted"}
             /\ Becomes(a, c, "established") /\ Emit(a, "established", c)
    BY <1>3 DEF PeerAnswers
  <2>2. calls[a][c] \in {"outgoing", "alerted"} =>
          /\ GoesOn(calls[a][c], "alerted") /\ GoesOn(calls[a][c], "established")
          /\ "alerted" \in CallStates /\ "established" \in CallStates \cap WasUp
    BY DEF GoesOn, CallStates, WasUp, Over
  <2>3. QED
    BY <2>1, <2>2 DEF Reports, CallTypes, Matches, Over
<1>4. CASE PeerCloses(a)
  BY <1>4, CloseReports DEF PeerCloses
<1>5. QED
  BY <1>1, <1>2, <1>3, <1>4

\* Calls go on, and reports tell of them: what was told before stays true.
LEMMA ReportStep ==
  ASSUME WaitInv, NEW a \in Agents, Reports(a), pushed' \in [Agents -> SUBSET CallIds],
         UNCHANGED <<view, wait>>
  PROVE  WaitInv'
<1>1. /\ calls' \in [Agents -> [CallIds -> CallStates]]
      /\ \A b \in Agents : \A c \in CallIds : GoesOn(calls[b][c], calls'[b][c])
  <2>1. CASE UNCHANGED calls
    BY <2>1 DEF WaitInv, Shapes, GoesOn
  <2>2. CASE \E c \in CallIds, s \in CallStates : Becomes(a, c, s) /\ GoesOn(calls[a][c], s)
    BY <2>2 DEF WaitInv, Shapes, GoesOn, Becomes
  <2>3. QED
    BY <2>1, <2>2 DEF Reports
<1> DEFINE Told(e, b) == /\ e.type = "established" => calls'[b][e.id] \in WasUp
                         /\ e.type = "closed" => calls'[b][e.id] \in Over
<1>2. ASSUME NEW b \in Agents, NEW i \in 1 .. Len(emitted[b])
      PROVE  emitted[b][i] \in AgentEvent /\ Told(emitted[b][i], b)
  <2>1. emitted[b] \in Seq(AgentEvent)
    BY DEF WaitInv, Shapes
  <2>2. emitted[b][i] \in AgentEvent
    BY <2>1, ElementOfSeq
  <2>3. emitted[b][i].type \in {"established", "closed"} => emitted[b][i].id \in CallIds
    BY <2>2 DEF AgentEvent, CallTypes
  <2>4. QED
    BY <1>1, <2>2, <2>3 DEF WaitInv, Truthful, GoesOn
<1>3. emitted' = emitted \/ \E e \in AgentEvent : Told(e, a) /\ emitted' = [emitted EXCEPT ![a] = Append(@, e)]
  <2>1. ASSUME NEW t \in {"registered", "unregistered"}, Emit(a, t, 0)
        PROVE  \E e \in AgentEvent : Told(e, a) /\ emitted' = [emitted EXCEPT ![a] = Append(@, e)]
    BY <2>1 DEF Emit, AgentEvent
  <2>2. ASSUME NEW c \in CallIds, NEW s \in CallStates, NEW t \in CallTypes,
               Becomes(a, c, s), Emit(a, t, c), Matches(t, s)
        PROVE  \E e \in AgentEvent : Told(e, a) /\ emitted' = [emitted EXCEPT ![a] = Append(@, e)]
    <3> DEFINE e == [type |-> t, id |-> c]
    <3>1. e \in AgentEvent /\ emitted' = [emitted EXCEPT ![a] = Append(@, e)]
      BY <2>2 DEF Emit, AgentEvent
    <3>2. calls'[a][c] = s
      BY <2>2 DEF Becomes, WaitInv, Shapes
    <3>3. Told(e, a)
      BY <2>2, <3>2 DEF Matches, WasUp
    <3> HIDE DEF e, Told
    <3>4. QED
      BY <3>1, <3>3
  <2> HIDE DEF Told
  <2>3. QED
    BY <2>1, <2>2 DEF Reports
<1>4. /\ emitted' \in [Agents -> Seq(AgentEvent)]
      /\ \A b \in Agents : \A i \in 1 .. Len(emitted'[b]) : Told(emitted'[b][i], b)
  <2> HIDE DEF Told
  <2>1. CASE emitted' = emitted
    BY <1>2, <2>1 DEF WaitInv, Shapes
  <2>2. ASSUME NEW e \in AgentEvent, Told(e, a), emitted' = [emitted EXCEPT ![a] = Append(@, e)]
        PROVE  /\ emitted' \in [Agents -> Seq(AgentEvent)]
               /\ \A b \in Agents : \A i \in 1 .. Len(emitted'[b]) : Told(emitted'[b][i], b)
    <3>1. emitted \in [Agents -> Seq(AgentEvent)] /\ emitted[a] \in Seq(AgentEvent)
      BY DEF WaitInv, Shapes
    <3>2. /\ Append(emitted[a], e) \in Seq(AgentEvent)
          /\ Len(Append(emitted[a], e)) = Len(emitted[a]) + 1
          /\ \A i \in 1 .. Len(emitted[a]) : Append(emitted[a], e)[i] = emitted[a][i]
          /\ Append(emitted[a], e)[Len(emitted[a]) + 1] = e
      BY <3>1, AppendProperties
    <3>3. /\ emitted' \in [Agents -> Seq(AgentEvent)] /\ emitted'[a] = Append(emitted[a], e)
          /\ \A b \in Agents \ {a} : emitted'[b] = emitted[b]
      BY <2>2, <3>1, <3>2
    <3>4. Len(emitted[a]) \in Nat
      BY <3>1
    <3>5. \A i \in 1 .. Len(emitted[a]) + 1 : i \in 1 .. Len(emitted[a]) \/ i = Len(emitted[a]) + 1
      BY <3>4
    <3>6. QED
      BY <1>2, <2>2, <3>2, <3>3, <3>5
  <2>3. QED
    BY <1>3, <2>1, <2>2
<1>5. Shapes'
  BY <1>1, <1>4 DEF WaitInv, Shapes
<1>6. \A b \in Agents : EstablishedIds(view[b]) \subseteq CallIds
  BY ShownIds DEF WaitInv, Shapes
<1>7. Truthful'
  BY <1>1, <1>4, <1>6 DEF WaitInv, Truthful, GoesOn
<1>8. \A b \in Agents : wait.guards[b] \subseteq CallIds
  BY DEF WaitInv, Shapes, WaitState
<1>9. \A b \in Agents : \A c \in CallIds : calls[b][c] = "done" => calls'[b][c] = "done"
  BY <1>1 DEF GoesOn, WasUp, Over
<1>10. Guarded'
  BY <1>1, <1>8, <1>9 DEF WaitInv, Guarded, GoesOn
<1>11. WaitTells'
  <2>1. wait.dropped \subseteq Agents
    BY DEF WaitInv, Shapes, WaitState
  <2>2. QED
    BY <1>8, <1>9, <2>1 DEF WaitInv, WaitTells
<1>12. QED
  BY <1>5, <1>7, <1>10, <1>11 DEF WaitInv

-----------------------------------------------------------------------------
(* The session's side.                                                     *)

\* The fold takes the oldest report in: what the view shows has been reported.
LEMMA FoldStep == ASSUME WaitInv, NEW a \in Agents, FoldEvent(a), UNCHANGED wait PROVE WaitInv'
<1> DEFINE e == Head(emitted[a])
<1>1. emitted[a] \in Seq(AgentEvent) /\ emitted[a] # <<>> /\ view[a] \in AgentView
  BY DEF WaitInv, Shapes, FoldEvent
<1>2. /\ e \in AgentEvent /\ e = emitted[a][1] /\ 1 \in 1 .. Len(emitted[a])
      /\ Tail(emitted[a]) \in Seq(AgentEvent)
      /\ \A i \in 1 .. Len(Tail(emitted[a])) :
           i + 1 \in 1 .. Len(emitted[a]) /\ Tail(emitted[a])[i] = emitted[a][i + 1]
  <2>1. /\ e \in AgentEvent /\ e = emitted[a][1] /\ Tail(emitted[a]) \in Seq(AgentEvent)
        /\ Len(Tail(emitted[a])) = Len(emitted[a]) - 1
        /\ \A i \in 1 .. Len(Tail(emitted[a])) : Tail(emitted[a])[i] = emitted[a][i + 1]
    BY <1>1, HeadTailProperties
  <2>2. Len(emitted[a]) \in Nat /\ Len(emitted[a]) > 0
    BY <1>1, EmptySeq, LenProperties
  <2>3. QED
    BY <2>1, <2>2
<1>3. /\ e.type = "established" => calls[a][e.id] \in WasUp
      /\ e.type = "closed" => calls[a][e.id] \in Over
  BY <1>2 DEF WaitInv, Truthful
<1> DEFINE w == Reduce(view[a], e)
<1>4. /\ w \in AgentView
      /\ \A d \in EstablishedIds(w) : d \in EstablishedIds(view[a]) \/ (d = e.id /\ e.type = "established")
      /\ \A d \in CallIdsOf(view[a]) : d \in CallIdsOf(w) \/ (d = e.id /\ e.type = "closed")
  BY <1>1, <1>2, ReduceKeeps
<1>5. /\ view' = [view EXCEPT ![a] = w] /\ emitted' = [emitted EXCEPT ![a] = Tail(emitted[a])]
      /\ UNCHANGED <<calls, pushed, wait>>
  BY DEF FoldEvent
<1> HIDE DEF e, w
<1>6. Shapes' /\ view'[a] = w /\ emitted'[a] = Tail(emitted[a])
      /\ \A b \in Agents \ {a} : view'[b] = view[b] /\ emitted'[b] = emitted[b]
  BY <1>2, <1>4, <1>5 DEF WaitInv, Shapes
<1>7. Truthful'
  <2> SUFFICES ASSUME NEW b \in Agents
               PROVE  /\ \A i \in 1 .. Len(emitted'[b]) :
                           /\ emitted'[b][i].type = "established" => calls[b][emitted'[b][i].id] \in WasUp
                           /\ emitted'[b][i].type = "closed" => calls[b][emitted'[b][i].id] \in Over
                      /\ \A c \in EstablishedIds(view'[b]) : calls[b][c] \in WasUp
    BY <1>5 DEF Truthful
  <2>1. CASE b # a
    BY <1>6, <2>1 DEF WaitInv, Truthful
  <2>2. CASE b = a
    <3>1. \A i \in 1 .. Len(emitted'[a]) :
            i + 1 \in 1 .. Len(emitted[a]) /\ emitted'[a][i] = emitted[a][i + 1]
      BY <1>2, <1>6
    <3>2. \A i \in 1 .. Len(emitted'[a]) :
            /\ emitted'[a][i].type = "established" => calls[a][emitted'[a][i].id] \in WasUp
            /\ emitted'[a][i].type = "closed" => calls[a][emitted'[a][i].id] \in Over
      <4>1. \A j \in 1 .. Len(emitted[a]) :
              /\ emitted[a][j].type = "established" => calls[a][emitted[a][j].id] \in WasUp
              /\ emitted[a][j].type = "closed" => calls[a][emitted[a][j].id] \in Over
        BY DEF WaitInv, Truthful
      <4>2. QED
        BY <3>1, <4>1
    <3>3. \A c \in EstablishedIds(view'[a]) : calls[a][c] \in WasUp
      BY <1>3, <1>4, <1>6 DEF WaitInv, Truthful
    <3>4. QED
      BY <2>2, <3>2, <3>3
  <2>3. QED
    BY <2>1, <2>2
<1>8. Guarded'
  <2> SUFFICES ASSUME NEW b \in Agents, NEW c \in wait.guards[b]
               PROVE  calls[b][c] \in WasUp /\ (c \notin CallIdsOf(view'[b]) => calls[b][c] = "done")
    BY <1>5 DEF Guarded
  <2>1. calls[b][c] \in WasUp /\ (c \notin CallIdsOf(view[b]) => calls[b][c] = "done")
    BY DEF WaitInv, Guarded
  <2>2. CASE b # a
    BY <1>6, <2>1, <2>2
  <2>3. CASE b = a
    <3>1. c \in CallIdsOf(view[b]) /\ c \notin CallIdsOf(view'[b]) => calls[b][c] \in Over
      BY <1>3, <1>4, <1>6, <2>3
    <3>2. QED
      BY <2>1, <3>1 DEF WasUp, Over
  <2>4. QED
    BY <2>2, <2>3
<1>9. WaitTells'
  BY <1>5 DEF WaitInv, WaitTells
<1>10. QED
  BY <1>6, <1>7, <1>8, <1>9 DEF WaitInv

\* Headers are no part of it.
LEMMA HeadersStep == ASSUME WaitInv, NEW a \in Agents, TracePoll(a), UNCHANGED wait PROVE WaitInv'
<1> DEFINE w == MergeReceivedHeaders(view[a], pushed[a])
<1>1. /\ view' = [view EXCEPT ![a] = w] /\ pushed' = [pushed EXCEPT ![a] = {}]
      /\ UNCHANGED <<calls, emitted, wait>>
  BY DEF TracePoll
<1>2. w \in AgentView /\ w.calls = view[a].calls
  <2>1. view[a] \in AgentView /\ pushed[a] \subseteq CallIds
    BY DEF WaitInv, Shapes
  <2>2. QED
    BY <2>1 DEF AgentView, MergeReceivedHeaders
<1> HIDE DEF w
<1>3. Shapes' /\ \A b \in Agents : view'[b].calls = view[b].calls
  BY <1>1, <1>2 DEF WaitInv, Shapes
<1>4. \A b \in Agents : CallIdsOf(view'[b]) = CallIdsOf(view[b]) /\ EstablishedIds(view'[b]) = EstablishedIds(view[b])
  BY <1>3 DEF CallIdsOf, EstablishedIds
<1>5. Truthful' /\ Guarded' /\ WaitTells'
  BY <1>1, <1>4 DEF WaitInv, Truthful, Guarded, WaitTells
<1>6. QED
  BY <1>3, <1>5 DEF WaitInv

LEMMA NothingThere ==
  /\ NoCalls \in [CallIds -> CallStates] /\ NoState \in AgentView
  /\ EstablishedIds(NoState) = {}
  /\ NoWait \in WaitState
  /\ <<>> \in Seq(AgentEvent) /\ Len(<<>>) = 0
<1>1. NoState.calls = <<>> /\ \A i : i \notin DOMAIN NoState.calls
  BY DEF NoState
<1>2. QED
  BY <1>1 DEF NoCalls, NoState, NoWait, CallStates, AgentView, EstablishedIds, WaitState

\* Nothing is guarded any more: only what is said of the agents is left.
LEMMA NoGuards == ASSUME Shapes', Truthful', wait' = NoWait PROVE WaitInv'
BY DEF NoWait, WaitInv, Guarded, WaitTells

\* An agent that is new has no past.
LEMMA NewStep == ASSUME WaitInv, NEW a \in Agents, NewAgent(a) PROVE WaitInv'
<1>1. PICK deflects \in BOOLEAN : Connect(a, deflects)
  BY DEF NewAgent
<1>2. /\ wait' = NoWait
      /\ calls' = [calls EXCEPT ![a] = NoCalls] /\ emitted' = [emitted EXCEPT ![a] = <<>>]
      /\ pushed' = [pushed EXCEPT ![a] = {}] /\ view' = [view EXCEPT ![a] = NoState]
  BY <1>1 DEF NewAgent, Verb, Connect
<1>3. Shapes'
  BY <1>2, NothingThere DEF WaitInv, Shapes
<1>4. /\ emitted'[a] = <<>> /\ view'[a] = NoState
      /\ \A b \in Agents \ {a} : emitted'[b] = emitted[b] /\ view'[b] = view[b] /\ calls'[b] = calls[b]
  BY <1>2 DEF WaitInv, Shapes
<1>5. Truthful'
  <2> SUFFICES ASSUME NEW b \in Agents
               PROVE  /\ \A i \in 1 .. Len(emitted'[b]) :
                           /\ emitted'[b][i].type = "established" => calls'[b][emitted'[b][i].id] \in WasUp
                           /\ emitted'[b][i].type = "closed" => calls'[b][emitted'[b][i].id] \in Over
                      /\ \A c \in EstablishedIds(view'[b]) : calls'[b][c] \in WasUp
    BY DEF Truthful
  <2>1. CASE b = a
    BY <1>4, <2>1, NothingThere
  <2>2. CASE b # a
    BY <1>4, <2>2 DEF WaitInv, Truthful
  <2>3. QED
    BY <2>1, <2>2
<1>6. QED
  BY <1>2, <1>3, <1>5, NoGuards

LEMMA EmptyInv ==
  ASSUME calls' = [a \in Agents |-> NoCalls], emitted' = [a \in Agents |-> <<>>],
         pushed' = [a \in Agents |-> {}], view' = [a \in Agents |-> NoState], wait' = NoWait
  PROVE  WaitInv'
<1>1. Shapes'
  BY NothingThere DEF Shapes
<1>2. Truthful'
  BY NothingThere DEF Truthful
<1>3. QED
  BY <1>1, <1>2, NoGuards

\* A step that changes the wait alone, or what the proof does not speak of.
seen == <<calls, emitted, pushed, view>>

LEMMA Forgets == ASSUME WaitInv, UNCHANGED seen, wait' = NoWait PROVE WaitInv'
<1>1. Shapes' /\ Truthful'
  BY NothingThere DEF seen, WaitInv, Shapes, Truthful
<1>2. QED
  BY <1>1, NoGuards

LEMMA Stays == ASSUME WaitInv, UNCHANGED <<seen, wait>> PROVE WaitInv'
BY DEF seen, WaitInv, Shapes, Truthful, Guarded, WaitTells

\* A wait guards what the views show as established: those calls were up.
LEMMA AwaitStep == ASSUME WaitInv, Await PROVE WaitInv'
<1>1. UNCHANGED seen
  BY DEF Await, agents, seen
<1>2. CASE "wait" \notin doing'
  BY <1>1, <1>2, Forgets DEF Await
<1>3. CASE "wait" \in doing'
  <2> DEFINE g == [a \in Agents |-> IF a \in connected THEN Guards(view[a]) ELSE {}]
  <2>1. wait' = [NoWait EXCEPT !.guards = g]
    BY <1>3 DEF Await
  <2>2. \A a \in Agents : \A c \in g[a] :
          c \in CallIds /\ c \in CallIdsOf(view[a]) /\ calls[a][c] \in WasUp
    <3> SUFFICES ASSUME NEW a \in Agents, NEW c \in EstablishedIds(view[a])
                 PROVE  c \in CallIds /\ c \in CallIdsOf(view[a]) /\ calls[a][c] \in WasUp
      BY DEF Guards
    <3>1. c \in CallIds
      BY ShownIds DEF WaitInv, Shapes
    <3>2. QED
      BY <3>1 DEF EstablishedIds, CallIdsOf, WaitInv, Truthful
  <2> HIDE DEF g
  <2>3. g \in [Agents -> SUBSET CallIds]
    <3>1. g = [a \in Agents |-> g[a]]
      BY DEF g
    <3>2. QED
      BY <2>2, <3>1
  <2>4. /\ wait' \in WaitState /\ wait'.guards = g /\ wait'.dropped = {}
    BY <2>1, <2>3 DEF NoWait, WaitState
  <2>5. Shapes' /\ Truthful'
    BY <1>1, <2>4 DEF seen, WaitInv, Shapes, Truthful
  <2>6. Guarded' /\ WaitTells'
    BY <1>1, <2>2, <2>4 DEF seen, Guarded, WaitTells
  <2>7. QED
    BY <2>5, <2>6 DEF WaitInv
<1>4. QED
  BY <1>2, <1>3

\* What a wait does while it lasts: a guard that reports has a witness.
LEMMA WaitStep ==
  ASSUME WaitInv, SleepEnds \/ WaitEnds \/ \E a \in Agents : GuardReports(a)
  PROVE  WaitInv'
<1>1. UNCHANGED seen
  BY DEF SleepEnds, WaitEnds, GuardReports, agents, seen
<1>2. wait \in WaitState
  BY DEF WaitInv, Shapes
<1>3. CASE SleepEnds \/ WaitEnds
  <2>1. wait' \in WaitState /\ wait'.guards = wait.guards /\ wait'.dropped = wait.dropped
    <3>1. \/ wait' = [wait EXCEPT !.slept = TRUE]
          \/ wait' = [wait EXCEPT !.end = "ok"]
          \/ wait' = [wait EXCEPT !.end = "dropped"]
      BY <1>3 DEF SleepEnds, WaitEnds
    <3>2. QED
      BY <1>2, <3>1 DEF WaitState
  <2>2. QED
    BY <1>1, <2>1 DEF seen, WaitInv, Shapes, Truthful, Guarded, WaitTells
<1>4. ASSUME NEW a \in Agents, GuardReports(a)  PROVE WaitInv'
  <2>1. wait' = [wait EXCEPT !.dropped = @ \cup {a}]
    BY <1>4 DEF GuardReports
  <2>2. wait' \in WaitState /\ wait'.guards = wait.guards /\ wait'.dropped = wait.dropped \cup {a}
    BY <1>2, <2>1 DEF WaitState
  <2>3. \E c \in wait.guards[a] : calls[a][c] = "done"
    BY <1>4 DEF GuardReports, WaitInv, Guarded
  <2>4. Shapes' /\ Truthful' /\ Guarded'
    BY <1>1, <2>2 DEF seen, WaitInv, Shapes, Truthful, Guarded
  <2>5. WaitTells'
    BY <1>1, <2>2, <2>3 DEF seen, WaitInv, WaitTells
  <2>6. QED
    BY <2>4, <2>5 DEF WaitInv
<1>5. QED
  BY <1>3, <1>4

LEMMA ScriptVerbs ==
  ASSUME WaitInv, \/ \E a \in Agents : Tell(a)
                  \/ AgentRefused \/ NoSession \/ NewServer \/ StopServer \/ RhaiResponds \/ JsResponds
  PROVE  WaitInv'
<1>1. wait' = NoWait
  BY DEF Tell, AgentRefused, NoSession, NewServer, StopServer, RhaiResponds, JsResponds, Verb
<1>2. UNCHANGED seen
  <2>1. ASSUME NEW a \in Agents, Tell(a)  PROVE UNCHANGED seen
    BY <2>1 DEF Tell, CallControl, StopDeflect, RespondIncoming, Dial, Transfer, Deflect, Act, seen
  <2>2. QED
    BY <2>1 DEF AgentRefused, NoSession, NewServer, StopServer, RhaiResponds, JsResponds, agents, seen
<1>3. QED
  BY <1>1, <1>2, Forgets

LEMMA WaitInvStep == ASSUME WaitInv, [ScenarioNext]_scene PROVE WaitInv'
<1>1. CASE ScriptStep
  <2>1. CASE ScriptReturns
    BY <2>1, Stays DEF ScriptReturns, agents, seen
  <2>2. QED
    BY <1>1, <2>1, NewStep, ScriptVerbs, AwaitStep DEF ScriptStep, RhaiAwaits, JsAwaits
<1>2. CASE Reset
  BY <1>2, EmptyInv DEF Reset, DropSessions
<1>3. CASE ResetEnds \/ UntilTicks \/ HttpEnds
  BY <1>3, Stays DEF ResetEnds, UntilTicks, HttpEnds, agents, seen
<1>4. CASE SleepEnds \/ WaitEnds \/ \E a \in Agents : GuardReports(a)
  BY <1>4, WaitStep
<1>5. CASE AgentsRun
  <2>1. UNCHANGED wait
    BY <1>5 DEF AgentsRun, thread
  <2>2. ASSUME NEW a \in Agents, WorkerActs(a)  PROVE WaitInv'
    BY <2>1, <2>2, WorkerReports, ReportStep DEF WorkerActs, WaitInv, Shapes
  <2>3. QED
    BY <1>5, <2>1, <2>2, FoldStep, HeadersStep DEF AgentsRun, AgentsStep
<1>6. CASE MockRuns
  BY <1>6, Stays DEF MockRuns, agents, thread, seen
<1>7. CASE Begins \/ Others
  <2>1. UNCHANGED wait
    BY <1>7 DEF Begins, Others, thread
  <2>2. ASSUME NEW a \in Agents, InviteComes(a) \/ RegistrarAnswers(a) \/ PeerAnswers(a) \/ PeerCloses(a)
        PROVE  WaitInv'
    <3>1. UNCHANGED view /\ pushed' \in [Agents -> SUBSET CallIds]
      BY <2>2 DEF InviteComes, RegistrarAnswers, PeerAnswers, PeerCloses, Fresh, WaitInv, Shapes
    <3>2. QED
      BY <2>1, <2>2, <3>1, OthersReport, ReportStep DEF WaitInv
  <2>3. ASSUME UNCHANGED agents  PROVE WaitInv'
    BY <2>1, <2>3, Stays DEF agents, seen
  <2>4. QED
    BY <1>7, <2>2, <2>3 DEF Begins, Others
<1>8. CASE UNCHANGED scene
  BY <1>8, Stays DEF scene, seen
<1>9. QED
  BY <1>1, <1>2, <1>3, <1>4, <1>5, <1>6, <1>7, <1>8 DEF ScenarioNext, ResetStep

LEMMA InitWaitInv == ScenarioInit => WaitInv
<1> SUFFICES ASSUME ScenarioInit PROVE WaitInv
  OBVIOUS
<1>1. Shapes
  BY NothingThere DEF ScenarioInit, AgentsInit, Shapes
<1>2. Truthful
  BY NothingThere DEF ScenarioInit, AgentsInit, Truthful
<1>3. Guarded /\ WaitTells
  BY DEF ScenarioInit, NoWait, Guarded, WaitTells
<1>4. QED
  BY <1>1, <1>2, <1>3 DEF WaitInv

\* A wait that fails for a dropped call tells the truth, however many agents and
\* calls there are: a call it guarded had been up and is over (runtime/wait.rs,
\* runtime/state.rs).
THEOREM DropsAreTrue == ScenarioSpec => []WaitTells
<1>1. WaitInv => WaitTells
  BY DEF WaitInv
<1>2. QED
  BY InitWaitInv, WaitInvStep, <1>1, PTL DEF ScenarioSpec

-----------------------------------------------------------------------------
(* The fold of the events that are under way.                              *)

LEMMA AllNumbers ==
  ASSUME NEW T \in SUBSET Nat, 0 \in T, \A n \in T : n + 1 \in T
  PROVE  T = Nat
<1> DEFINE U == Nat \ T
           Below == OpToRel(<, Nat)
<1>1. SUFFICES ASSUME U # {} PROVE FALSE
  OBVIOUS
<1>2. U \subseteq Nat /\ U # {}
  BY <1>1
<1>3. PICK x \in U : \A y \in U : ~ (<<y, x>> \in Below)
  <2> HIDE DEF U
  <2>1. QED
    BY <1>2, NatLessThanWellFounded, WFMin
<1>4. x \in Nat /\ x # 0 /\ x - 1 \in Nat /\ x - 1 < x
  OBVIOUS
<1>5. x - 1 \in T
  BY <1>3, <1>4 DEF OpToRel
<1>6. x - 1 + 1 \in T
  BY <1>5
<1>7. QED
  BY <1>4, <1>6

\* g has the views after each of the first n events of q.
Views(g, v, q, n) == g = [i \in 0 .. n |-> IF i = 0 THEN v ELSE Reduce(g[i - 1], q[i])]

LEMMA FoldedIs ==
  ASSUME NEW v, NEW q, Len(q) \in Nat
  PROVE  Folded(v, q) = (CHOOSE g : Views(g, v, q, Len(q)))[Len(q)]
BY DEF Folded, Views

LEMMA ViewsExist == ASSUME NEW v, NEW q, NEW n \in Nat PROVE \E g : Views(g, v, q, n)
<1> DEFINE P(k) == \E g : Views(g, v, q, k)
           T == {k \in Nat : P(k)}
<1>1. P(0)
  <2> DEFINE g == [i \in 0 .. 0 |-> v]
  <2>1. Views(g, v, q, 0)
    BY DEF Views
  <2>2. QED
    BY <2>1
<1>2. ASSUME NEW k \in Nat, P(k) PROVE P(k + 1)
  <2>1. PICK g : Views(g, v, q, k)
    BY <1>2
  <2> DEFINE h == [i \in 0 .. k + 1 |-> IF i <= k THEN g[i] ELSE Reduce(g[k], q[k + 1])]
             t == [i \in 0 .. k + 1 |-> IF i = 0 THEN v ELSE Reduce(h[i - 1], q[i])]
  <2>2. h[0] = v
    BY <2>1 DEF Views
  <2>3. ASSUME NEW i \in 1 .. k + 1 PROVE h[i] = Reduce(h[i - 1], q[i])
    <3>1. CASE i <= k
      <4>1. h[i] = g[i] /\ h[i - 1] = g[i - 1]
        BY <3>1
      <4>2. g[i] = Reduce(g[i - 1], q[i])
        BY <2>1, <3>1 DEF Views
      <4>3. QED
        BY <4>1, <4>2
    <3>2. CASE i = k + 1
      BY <3>2
    <3>3. QED
      BY <3>1, <3>2
  <2>4. h = [i \in 0 .. k + 1 |-> h[i]]
    OBVIOUS
  <2> HIDE DEF h
  <2>5. t = [i \in 0 .. k + 1 |-> t[i]]
    OBVIOUS
  <2>6. ASSUME NEW i \in 0 .. k + 1 PROVE t[i] = h[i]
    BY <2>2, <2>3
  <2> HIDE DEF t
  <2>7. t = h
    BY <2>4, <2>5, <2>6
  <2>8. Views(h, v, q, k + 1)
    BY <2>7 DEF Views, t
  <2>9. QED
    BY <2>8
<1> HIDE DEF P
<1>3. T \in SUBSET Nat /\ 0 \in T /\ \A k \in T : k + 1 \in T
  BY <1>1, <1>2
<1> HIDE DEF T
<1>4. T = Nat
  BY <1>3, AllNumbers
<1>5. QED
  BY <1>4 DEF T, P

\* Two folds of the same views and events go the same way.
LEMMA ViewsAgree ==
  ASSUME NEW g, NEW h, NEW v, NEW q, NEW r, NEW n \in Nat, NEW m \in Nat, NEW k \in Nat,
         Views(g, v, q, n), Views(h, v, r, m), k <= n, k <= m,
         \A i \in 1 .. k : q[i] = r[i]
  PROVE  g[k] = h[k]
<1> DEFINE P(i) == i <= k => g[i] = h[i]
           T == {i \in Nat : P(i)}
<1>1. P(0)
  BY DEF Views
<1>2. ASSUME NEW i \in Nat, P(i) PROVE P(i + 1)
  <2> SUFFICES ASSUME i + 1 <= k PROVE g[i + 1] = h[i + 1]
    OBVIOUS
  <2> DEFINE j == i + 1
  <2>0. j \in 0 .. n /\ j \in 0 .. m /\ j # 0 /\ j - 1 = i
    OBVIOUS
  <2> HIDE DEF j
  <2>1. g[j] = Reduce(g[j - 1], q[j])
    BY <2>0 DEF Views
  <2>2. h[j] = Reduce(h[j - 1], r[j])
    BY <2>0 DEF Views
  <2>3. g[i] = h[i] /\ q[j] = r[j]
    <3>1. i <= k /\ i + 1 \in 1 .. k
      OBVIOUS
    <3>2. QED
      BY <1>2, <3>1 DEF j
  <2>4. g[j] = h[j]
    BY <2>0, <2>1, <2>2, <2>3
  <2>5. QED
    BY <2>4 DEF j
<1> HIDE DEF P
<1>3. T \in SUBSET Nat /\ 0 \in T /\ \A i \in T : i + 1 \in T
  BY <1>1, <1>2
<1> HIDE DEF T
<1>4. T = Nat
  BY <1>3, AllNumbers
<1>5. QED
  BY <1>4 DEF T, P

LEMMA FoldedWith ==
  ASSUME NEW g, NEW v, NEW q, Len(q) \in Nat, Views(g, v, q, Len(q))
  PROVE  Folded(v, q) = g[Len(q)]
<1> DEFINE h == CHOOSE f : Views(f, v, q, Len(q))
<1>1. Views(h, v, q, Len(q))
  OBVIOUS
<1> HIDE DEF h
<1>2. h[Len(q)] = g[Len(q)]
  BY <1>1, ViewsAgree
<1>3. QED
  BY <1>2, FoldedIs DEF h

LEMMA FoldedNone == ASSUME NEW v PROVE Folded(v, <<>>) = v
<1>1. PICK g : Views(g, v, <<>>, 0)
  BY ViewsExist
<1>2. Len(<<>>) = 0
  OBVIOUS
<1>3. g[0] = v
  BY <1>1 DEF Views
<1>4. QED
  BY <1>1, <1>2, <1>3, FoldedWith

\* An event at the end is folded last ...
LEMMA FoldedAppend ==
  ASSUME NEW v, NEW E, NEW q \in Seq(E), NEW e \in E
  PROVE  Folded(v, Append(q, e)) = Reduce(Folded(v, q), e)
<1> DEFINE n == Len(q)
           r == Append(q, e)
<1>1. /\ n \in Nat /\ Len(r) = n + 1 /\ r[n + 1] = e
      /\ \A i \in 1 .. n : q[i] = r[i]
  BY AppendProperties
<1> HIDE DEF r
<1>2. PICK g : Views(g, v, q, n)
  BY <1>1, ViewsExist
<1> DEFINE m == n + 1
<1>3. n \in Nat /\ m \in Nat /\ n <= n /\ n <= m
  BY <1>1
<1> HIDE DEF n, m
<1>4. PICK h : Views(h, v, r, m)
  BY <1>3, ViewsExist
<1>5. g[n] = h[n]
  BY <1>1, <1>2, <1>3, <1>4, ViewsAgree
<1> USE DEF m
<1>6. Views(h, v, r, n + 1)
  BY <1>4
<1>7. h[n + 1] = Reduce(h[n], r[n + 1])
  BY <1>1, <1>6 DEF Views
<1>8. Folded(v, q) = g[n]
  BY <1>1, <1>2, FoldedWith DEF n
<1>9. Folded(v, r) = h[n + 1]
  BY <1>1, <1>6, FoldedWith
<1>10. QED
  BY <1>1, <1>5, <1>7, <1>8, <1>9 DEF r, n

\* ... and the one at the front first.
LEMMA FoldedTail ==
  ASSUME NEW v, NEW E, NEW q \in Seq(E), q # <<>>
  PROVE  Folded(Reduce(v, Head(q)), Tail(q)) = Folded(v, q)
<1> DEFINE n == Len(q)
           r == Tail(q)
           w == Reduce(v, Head(q))
<1>1. /\ n \in Nat \ {0} /\ Len(r) = n - 1 /\ Head(q) = q[1]
      /\ \A i \in 1 .. n - 1 : r[i] = q[i + 1]
  <2>1. /\ Len(r) = Len(q) - 1 /\ Head(q) = q[1]
        /\ \A i \in 1 .. Len(r) : r[i] = q[i + 1]
    BY HeadTailProperties
  <2>2. Len(q) \in Nat /\ Len(q) > 0
    BY EmptySeq, LenProperties
  <2>3. QED
    BY <2>1, <2>2
<1> HIDE DEF r
<1>2. PICK g : Views(g, v, q, n)
  BY <1>1, ViewsExist
<1> DEFINE h == [i \in 0 .. n - 1 |-> g[i + 1]]
           t == [i \in 0 .. n - 1 |-> IF i = 0 THEN w ELSE Reduce(h[i - 1], r[i])]
<1>3. ASSUME NEW i \in 0 .. n - 1 PROVE h[i] = t[i]
  <2>1. g[i + 1] = Reduce(g[i], q[i + 1])
    BY <1>1, <1>2 DEF Views
  <2>2. CASE i = 0
    <3>1. g[0] = v
      BY <1>1, <1>2 DEF Views
    <3>2. QED
      BY <1>1, <2>1, <2>2, <3>1
  <2>3. CASE i # 0
    <3>1. h[i - 1] = g[i] /\ r[i] = q[i + 1]
      BY <1>1, <2>3
    <3>2. QED
      BY <2>1, <2>3, <3>1
  <2>4. QED
    BY <2>2, <2>3
<1>4. h = [i \in 0 .. n - 1 |-> h[i]] /\ t = [i \in 0 .. n - 1 |-> t[i]]
  OBVIOUS
<1>5. h = t
  <2> HIDE DEF h, t
  <2>1. QED
    BY <1>3, <1>4
<1>6. Views(h, w, r, n - 1)
  <2> HIDE DEF h, w
  <2>1. QED
    BY <1>5 DEF Views
<1>7. h[n - 1] = g[n]
  BY <1>1
<1> HIDE DEF h, w
<1>8. Folded(w, r) = h[n - 1]
  BY <1>1, <1>6, FoldedWith
<1>9. Folded(v, q) = g[n]
  BY <1>1, <1>2, FoldedWith
<1>10. QED
  BY <1>7, <1>8, <1>9 DEF r, w

\* A view has a call once.
Once(v) == \A i, j \in DOMAIN v.calls : v.calls[i].id = v.calls[j].id => i = j

\* What an entry that is changed or added shows.
LEMMA PutShows ==
  ASSUME NEW v \in AgentView, Once(v), NEW c \in CallIds, NEW p \in {"ringing", "established"}, NEW peer \in BOOLEAN
  PROVE  LET w == PutCall(v, c, p, peer)
         IN  /\ Once(w) /\ CallIdsOf(w) = CallIdsOf(v) \cup {c}
             /\ EstablishedIds(w) = (EstablishedIds(v) \ {c}) \cup (IF p = "established" THEN {c} ELSE {})
<1> DEFINE w == PutCall(v, c, p, peer)
           n == Len(v.calls)
<1>1. /\ v.calls \in Seq(Entry) /\ n \in Nat /\ DOMAIN v.calls = 1 .. n
      /\ \A i \in 1 .. n : v.calls[i] \in Entry
  BY ElementOfSeq DEF AgentView
<1>2. CASE c \in CallIdsOf(v)
  <2> DEFINE changed == [i \in DOMAIN v.calls |->
        IF v.calls[i].id = c THEN CallView(c, p, peer \/ v.calls[i].peer) ELSE v.calls[i]]
  <2>1. w = [v EXCEPT !.calls = changed]
    BY <1>2 DEF PutCall
  <2>2. w.calls = changed /\ DOMAIN changed = 1 .. n
    BY <1>1, <2>1 DEF AgentView
  <2>3. \A i \in 1 .. n : /\ changed[i].id = v.calls[i].id
                          /\ v.calls[i].id = c => changed[i].phase = p
                          /\ v.calls[i].id # c => changed[i].phase = v.calls[i].phase
    BY <1>1 DEF CallView
  <2> HIDE DEF w, changed
  <2>4. Once(w)
    BY <1>1, <2>2, <2>3 DEF Once
  <2>5. CallIdsOf(w) = CallIdsOf(v)
    BY <1>1, <2>2, <2>3 DEF CallIdsOf
  <2>6. \A d \in EstablishedIds(w) : IF d = c THEN p = "established" ELSE d \in EstablishedIds(v)
    BY <1>1, <2>2, <2>3 DEF EstablishedIds
  <2>7. \A d \in EstablishedIds(v) \ {c} : d \in EstablishedIds(w)
    BY <1>1, <2>2, <2>3 DEF EstablishedIds
  <2>8. p = "established" => c \in EstablishedIds(w)
    <3>1. PICK i \in 1 .. n : v.calls[i].id = c
      BY <1>1, <1>2 DEF CallIdsOf
    <3>2. QED
      BY <2>2, <2>3, <3>1 DEF EstablishedIds
  <2>9. QED
    BY <1>2, <2>4, <2>5, <2>6, <2>7, <2>8 DEF w
<1>3. CASE c \notin CallIdsOf(v)
  <2> DEFINE e == CallView(c, p, peer)
             longer == Append(v.calls, e)
  <2>1. w = [v EXCEPT !.calls = longer]
    BY <1>3 DEF PutCall
  <2>2. e \in Entry /\ e.id = c /\ e.phase = p
    BY DEF Entry, CallView
  <2> HIDE DEF e
  <2>3. /\ DOMAIN longer = 1 .. n + 1
        /\ \A i \in 1 .. n : longer[i] = v.calls[i]
        /\ longer[n + 1] = e
    BY <1>1, <2>2, AppendProperties
  <2>4. w.calls = longer
    BY <2>1 DEF AgentView
  <2>5. \A i \in 1 .. n + 1 : i \in 1 .. n \/ i = n + 1
    BY <1>1
  <2>6. n + 1 \in 1 .. n + 1 /\ \A i \in 1 .. n : i \in 1 .. n + 1
    BY <1>1
  <2>7. \A i \in 1 .. n : v.calls[i].id # c
    BY <1>1, <1>3 DEF CallIdsOf
  <2> HIDE DEF w, longer
  <2>8. Once(w)
    BY <1>1, <2>2, <2>3, <2>4, <2>5, <2>7 DEF Once
  <2>9. CallIdsOf(w) = CallIdsOf(v) \cup {c}
    BY <1>1, <2>2, <2>3, <2>4, <2>5, <2>6 DEF CallIdsOf
  <2>10. \A d \in EstablishedIds(w) : d \in EstablishedIds(v) \/ (d = c /\ p = "established")
    BY <1>1, <2>2, <2>3, <2>4, <2>5 DEF EstablishedIds
  <2>11. EstablishedIds(v) \subseteq EstablishedIds(w)
    BY <1>1, <2>3, <2>4, <2>6 DEF EstablishedIds
  <2>12. p = "established" => c \in EstablishedIds(w)
    BY <2>2, <2>3, <2>4, <2>6 DEF EstablishedIds
  <2>13. c \notin EstablishedIds(v)
    BY <1>1, <2>7 DEF EstablishedIds
  <2>14. QED
    BY <2>8, <2>9, <2>10, <2>11, <2>12, <2>13 DEF w
<1>4. QED
  BY <1>2, <1>3

\* A call that has ended goes, and no other.
LEMMA CloseShows ==
  ASSUME NEW v \in AgentView, Once(v), NEW c \in CallIds
  PROVE  LET w == CallClosed(v, c)
         IN  /\ Once(w) /\ CallIdsOf(w) = CallIdsOf(v) \ {c}
             /\ EstablishedIds(w) = EstablishedIds(v) \ {c}
<1> DEFINE w == CallClosed(v, c)
           n == Len(v.calls)
<1>1. v.calls \in Seq(Entry) /\ n \in Nat /\ DOMAIN v.calls = 1 .. n
  BY DEF AgentView
<1>2. CASE c \notin CallIdsOf(v)
  <2>1. w = [v EXCEPT !.calls = v.calls, !.reason = TRUE]
    BY <1>2 DEF CallClosed
  <2>2. w.calls = v.calls
    BY <2>1 DEF AgentView
  <2>3. Once(w) /\ CallIdsOf(w) = CallIdsOf(v) /\ EstablishedIds(w) = EstablishedIds(v)
    BY <2>2 DEF Once, CallIdsOf, EstablishedIds
  <2>4. EstablishedIds(v) \subseteq CallIdsOf(v)
    BY DEF EstablishedIds, CallIdsOf
  <2>5. QED
    BY <1>2, <2>3, <2>4
<1>3. CASE c \in CallIdsOf(v)
  <2>1. PICK k \in 1 .. n : /\ k = CHOOSE i \in DOMAIN v.calls : v.calls[i].id = c
                            /\ v.calls[k].id = c
    BY <1>1, <1>3 DEF CallIdsOf
  <2> DEFINE less == Drop(v.calls, k)
  <2>2. w = [v EXCEPT !.calls = less, !.reason = TRUE]
    BY <1>3, <2>1 DEF CallClosed
  <2>3. /\ less \in Seq(Entry) /\ Len(less) = n - 1
        /\ \A i \in 1 .. Len(less) : less[i] = IF i < k THEN v.calls[i] ELSE v.calls[i + 1]
    BY <1>1, Without DEF Drop
  <2> HIDE DEF less
  <2>4. w.calls = less
    BY <2>2 DEF AgentView
  <2>5. DOMAIN less = 1 .. n - 1
    BY <2>3, LenProperties
  <2> DEFINE from(i) == IF i < k THEN i ELSE i + 1
  <2>6. \A i \in 1 .. n - 1 : /\ from(i) \in 1 .. n /\ from(i) # k
                              /\ less[i] = v.calls[from(i)]
    <3>1. \A i \in 1 .. n - 1 : less[i] = IF i < k THEN v.calls[i] ELSE v.calls[i + 1]
      BY <1>1, <2>3
    <3>2. \A i \in 1 .. n - 1 : less[i] = v.calls[from(i)]
      BY <3>1
    <3>3. ASSUME NEW i \in 1 .. n - 1
          PROVE  from(i) \in 1 .. n /\ from(i) # k
      <4>1. n \in Nat /\ k \in 1 .. n
        BY <1>1
      <4> HIDE DEF n
      <4>2. i \in 1 .. n /\ i + 1 \in 1 .. n /\ (i < k => i # k) /\ (~ (i < k) => i + 1 # k)
        BY <4>1
      <4>3. QED
        BY <4>2
    <3>4. QED
      BY <3>2, <3>3
  <2>7. \A i, j \in 1 .. n - 1 : from(i) = from(j) => i = j
    BY <1>1, <2>1
  <2>8. \A j \in 1 .. n : j # k => \E i \in 1 .. n - 1 : from(i) = j
    <3> SUFFICES ASSUME NEW j \in 1 .. n, j # k PROVE \E i \in 1 .. n - 1 : from(i) = j
      OBVIOUS
    <3>1. CASE j < k
      <4>1. j \in 1 .. n - 1 /\ from(j) = j
        BY <1>1, <2>1, <3>1
      <4>2. QED
        BY <4>1
    <3>2. CASE j > k
      <4>1. j - 1 \in 1 .. n - 1 /\ from(j - 1) = j
        BY <1>1, <2>1, <3>2
      <4>2. QED
        BY <4>1
    <3>3. QED
      BY <3>1, <3>2
  <2>9. \A j \in 1 .. n : v.calls[j].id = c <=> j = k
    BY <1>1, <2>1 DEF Once
  <2> HIDE DEF w, from
  <2>10. Once(w)
    <3> SUFFICES ASSUME NEW i \in 1 .. n - 1, NEW j \in 1 .. n - 1, less[i].id = less[j].id PROVE i = j
      BY <2>4, <2>5 DEF Once
    <3>1. from(i) \in 1 .. n /\ from(j) \in 1 .. n /\ v.calls[from(i)].id = v.calls[from(j)].id
      BY <2>6
    <3>2. from(i) = from(j)
      BY <1>1, <3>1 DEF Once
    <3>3. QED
      BY <2>7, <3>2
  <2>11. ASSUME NEW i \in 1 .. n - 1
         PROVE  \E j \in 1 .. n : less[i] = v.calls[j] /\ v.calls[j].id # c
    <3>1. from(i) \in 1 .. n /\ from(i) # k /\ less[i] = v.calls[from(i)]
      BY <2>6
    <3>2. v.calls[from(i)].id # c
      BY <2>9, <3>1
    <3>3. QED
      BY <3>1, <3>2
  <2>12. ASSUME NEW j \in 1 .. n, v.calls[j].id # c
         PROVE  \E i \in 1 .. n - 1 : less[i] = v.calls[j]
    <3>1. j # k
      BY <2>9, <2>12
    <3>2. PICK i \in 1 .. n - 1 : from(i) = j
      BY <2>8, <3>1
    <3>3. QED
      BY <2>6, <3>2
  <2>13. CallIdsOf(w) = {less[i].id : i \in 1 .. n - 1} /\ CallIdsOf(v) = {v.calls[j].id : j \in 1 .. n}
    BY <1>1, <2>4, <2>5 DEF CallIdsOf
  <2>14. CallIdsOf(w) = CallIdsOf(v) \ {c}
    <3> HIDE DEF n
    <3> QED
      BY <2>11, <2>12, <2>13
  <2>15. EstablishedIds(w) = EstablishedIds(v) \ {c}
    <3>1. /\ EstablishedIds(w) = {less[i].id : i \in {h \in 1 .. n - 1 : less[h].phase = "established"}}
          /\ EstablishedIds(v) = {v.calls[j].id : j \in {h \in 1 .. n : v.calls[h].phase = "established"}}
      BY <1>1, <2>4, <2>5 DEF EstablishedIds
    <3> HIDE DEF n
    <3>2. QED
      BY <2>11, <2>12, <3>1
  <2>16. QED
    BY <2>10, <2>14, <2>15 DEF w
<1>4. QED
  BY <1>2, <1>3

LEMMA ReduceShows ==
  ASSUME NEW v \in AgentView, Once(v), NEW e \in AgentEvent
  PROVE  LET w == Reduce(v, e)
         IN  /\ Once(w)
             /\ CallIdsOf(w) = IF e.type = "closed" THEN CallIdsOf(v) \ {e.id}
                               ELSE IF e.type \in CallTypes THEN CallIdsOf(v) \cup {e.id} ELSE CallIdsOf(v)
             /\ EstablishedIds(w) = IF e.type = "established" THEN EstablishedIds(v) \cup {e.id}
                                    ELSE IF e.type \in CallTypes THEN EstablishedIds(v) \ {e.id}
                                    ELSE EstablishedIds(v)
<1>1. CASE e.type \in {"registered", "unregistered"}
  <2>1. Reduce(v, e) = [v EXCEPT !.registered = TRUE] \/ Reduce(v, e) = [v EXCEPT !.registered = FALSE]
    BY <1>1 DEF Reduce
  <2>2. Reduce(v, e).calls = v.calls
    BY <2>1 DEF AgentView
  <2>3. e.type \notin CallTypes
    BY <1>1 DEF CallTypes
  <2>4. e.type # "closed" /\ e.type # "established"
    BY <1>1
  <2>5. QED
    BY <2>2, <2>3, <2>4 DEF EstablishedIds, CallIdsOf, Once
<1>2. CASE e.type \in CallTypes \ {"closed"}
  <2>1. e.id \in CallIds
    BY <1>2 DEF AgentEvent, CallTypes
  <2>2. PICK p \in {"ringing", "established"}, peer \in BOOLEAN :
          Reduce(v, e) = PutCall(v, e.id, p, peer) /\ (p = "established" <=> e.type = "established")
    BY <1>2 DEF Reduce, CallTypes, UpsertCall, SetPhase
  <2> DEFINE w == PutCall(v, e.id, p, peer)
  <2>3. /\ Once(w) /\ CallIdsOf(w) = CallIdsOf(v) \cup {e.id}
        /\ EstablishedIds(w) = (EstablishedIds(v) \ {e.id}) \cup (IF p = "established" THEN {e.id} ELSE {})
    BY <2>1, PutShows
  <2> HIDE DEF w
  <2>4. QED
    BY <1>2, <2>2, <2>3 DEF w
<1>3. CASE e.type = "closed"
  <2>1. e.id \in CallIds /\ Reduce(v, e) = CallClosed(v, e.id)
    BY <1>3 DEF AgentEvent, CallTypes, Reduce
  <2>2. "closed" \in CallTypes
    BY DEF CallTypes
  <2>3. QED
    BY <1>3, <2>1, <2>2, CloseShows
<1>4. QED
  BY <1>1, <1>2, <1>3 DEF AgentEvent, CallTypes

\* What becomes of the calls of a view is in its calls and the event alone.
LEMMA ReduceCalls ==
  ASSUME NEW v \in AgentView, NEW w \in AgentView, v.calls = w.calls, NEW e \in AgentEvent
  PROVE  Reduce(v, e).calls = Reduce(w, e).calls
<1>1. CallIdsOf(v) = CallIdsOf(w)
  BY DEF CallIdsOf
<1>2. ASSUME NEW c, NEW p, NEW peer PROVE PutCall(v, c, p, peer).calls = PutCall(w, c, p, peer).calls
  <2>1. CASE c \in CallIdsOf(v)
    <3> DEFINE changed == [i \in DOMAIN v.calls |->
          IF v.calls[i].id = c THEN CallView(c, p, peer \/ v.calls[i].peer) ELSE v.calls[i]]
    <3>1. PutCall(v, c, p, peer) = [v EXCEPT !.calls = changed]
      BY <2>1 DEF PutCall
    <3>2. PutCall(w, c, p, peer) = [w EXCEPT !.calls = changed]
      BY <1>1, <2>1 DEF PutCall
    <3> HIDE DEF changed
    <3>3. QED
      BY <3>1, <3>2 DEF AgentView
  <2>2. CASE c \notin CallIdsOf(v)
    <3> DEFINE longer == Append(v.calls, CallView(c, p, peer))
    <3>1. PutCall(v, c, p, peer) = [v EXCEPT !.calls = longer]
      BY <2>2 DEF PutCall
    <3>2. PutCall(w, c, p, peer) = [w EXCEPT !.calls = longer]
      BY <1>1, <2>2 DEF PutCall
    <3> HIDE DEF longer
    <3>3. QED
      BY <3>1, <3>2 DEF AgentView
  <2>3. QED
    BY <2>1, <2>2
<1>3. ASSUME NEW c PROVE CallClosed(v, c).calls = CallClosed(w, c).calls
  <2> DEFINE left == IF c \in CallIdsOf(v) THEN Drop(v.calls, CHOOSE i \in DOMAIN v.calls : v.calls[i].id = c) ELSE v.calls
  <2>1. CallClosed(v, c) = [v EXCEPT !.calls = left, !.reason = TRUE]
    BY DEF CallClosed
  <2>2. CallClosed(w, c) = [w EXCEPT !.calls = left, !.reason = TRUE]
    BY <1>1 DEF CallClosed
  <2> HIDE DEF left
  <2>3. QED
    BY <2>1, <2>2 DEF AgentView
<1>4. CASE e.type \in {"registered", "unregistered"}
  <2>1. \E b \in BOOLEAN : Reduce(v, e) = [v EXCEPT !.registered = b] /\ Reduce(w, e) = [w EXCEPT !.registered = b]
    BY <1>4 DEF Reduce
  <2>2. QED
    BY <2>1 DEF AgentView
<1>5. CASE e.type \in CallTypes \ {"closed"}
  <2>1. \E p, peer : Reduce(v, e) = PutCall(v, e.id, p, peer) /\ Reduce(w, e) = PutCall(w, e.id, p, peer)
    BY <1>5 DEF Reduce, CallTypes, UpsertCall, SetPhase
  <2>2. QED
    BY <1>2, <2>1
<1>6. CASE e.type = "closed"
  BY <1>3, <1>6 DEF Reduce
<1>7. QED
  BY <1>4, <1>5, <1>6 DEF AgentEvent, CallTypes

LEMMA FoldedCalls ==
  ASSUME NEW v \in AgentView, NEW w \in AgentView, v.calls = w.calls, NEW q \in Seq(AgentEvent)
  PROVE  Folded(v, q) \in AgentView /\ Folded(v, q).calls = Folded(w, q).calls
<1> DEFINE n == Len(q)
<1>1. n \in Nat /\ \A i \in 1 .. n : q[i] \in AgentEvent
  BY ElementOfSeq
<1> HIDE DEF n
<1>2. PICK g : Views(g, v, q, n)
  BY <1>1, ViewsExist
<1>3. PICK h : Views(h, w, q, n)
  BY <1>1, ViewsExist
<1> DEFINE P(i) == i <= n => g[i] \in AgentView /\ h[i] \in AgentView /\ g[i].calls = h[i].calls
           T == {i \in Nat : P(i)}
<1>4. P(0)
  BY <1>1, <1>2, <1>3 DEF Views
<1>5. ASSUME NEW i \in Nat, P(i) PROVE P(i + 1)
  <2> SUFFICES ASSUME i + 1 <= n
               PROVE  g[i + 1] \in AgentView /\ h[i + 1] \in AgentView /\ g[i + 1].calls = h[i + 1].calls
    OBVIOUS
  <2>1. g[i + 1] = Reduce(g[i], q[i + 1])
    BY <1>1, <1>2 DEF Views
  <2>2. h[i + 1] = Reduce(h[i], q[i + 1])
    BY <1>1, <1>3 DEF Views
  <2>3. i <= n /\ i + 1 \in 1 .. n
    BY <1>1
  <2>4. g[i] \in AgentView /\ h[i] \in AgentView /\ g[i].calls = h[i].calls
    BY <1>5, <2>3
  <2> DEFINE e == q[i + 1]
  <2>5. e \in AgentEvent
    BY <1>1, <2>3
  <2> HIDE DEF e
  <2>6. /\ Reduce(g[i], e) \in AgentView /\ Reduce(h[i], e) \in AgentView
        /\ Reduce(g[i], e).calls = Reduce(h[i], e).calls
    <3>1. Reduce(g[i], e) \in AgentView /\ Reduce(h[i], e) \in AgentView
      BY <2>4, <2>5, ReduceKeeps
    <3>2. Reduce(g[i], e).calls = Reduce(h[i], e).calls
      BY <2>4, <2>5, ReduceCalls
    <3>3. QED
      BY <3>1, <3>2
  <2>7. QED
    BY <2>1, <2>2, <2>6 DEF e
<1> HIDE DEF P
<1>6. T \in SUBSET Nat /\ 0 \in T /\ \A i \in T : i + 1 \in T
  BY <1>4, <1>5
<1> HIDE DEF T
<1>7. T = Nat
  BY <1>6, AllNumbers
<1>8. P(n)
  BY <1>1, <1>7 DEF T
<1>9. Folded(v, q) = g[n] /\ Folded(w, q) = h[n]
  BY <1>1, <1>2, <1>3, FoldedWith DEF n
<1>10. QED
  BY <1>1, <1>8, <1>9 DEF P

-----------------------------------------------------------------------------
(* The fold of what is under way is the worker's truth.                    *)

\* A view shows each call of a worker once, in its phase, and no other.
Shows(v, cs) ==
  /\ Once(v) /\ CallIdsOf(v) = {c \in CallIds : cs[c] \in Alive}
  /\ EstablishedIds(v) = {c \in CallIds : cs[c] = "established"}
FoldInv ==
  /\ connected \subseteq Agents
  /\ \A a \in Agents : Shows(Folded(view[a], emitted[a]), calls[a])

\* The event of a call tells what has become of it.
LEMMA EventShows ==
  ASSUME NEW v \in AgentView, NEW cs \in [CallIds -> CallStates], Shows(v, cs), NEW e \in AgentEvent,
         NEW ds, \/ e.type \notin CallTypes /\ ds = cs
                 \/ \E s \in CallStates : /\ e.type \in CallTypes /\ e.id \in CallIds
                                          /\ Matches(e.type, s) /\ ds = [cs EXCEPT ![e.id] = s]
  PROVE  Shows(Reduce(v, e), ds)
<1> DEFINE w == Reduce(v, e)
<1>1. /\ Once(w)
      /\ CallIdsOf(w) = IF e.type = "closed" THEN CallIdsOf(v) \ {e.id}
                        ELSE IF e.type \in CallTypes THEN CallIdsOf(v) \cup {e.id} ELSE CallIdsOf(v)
      /\ EstablishedIds(w) = IF e.type = "established" THEN EstablishedIds(v) \cup {e.id}
                             ELSE IF e.type \in CallTypes THEN EstablishedIds(v) \ {e.id}
                             ELSE EstablishedIds(v)
  BY ReduceShows DEF Shows
<1> HIDE DEF w
<1>2. "closed" \in CallTypes /\ "established" \in CallTypes
  BY DEF CallTypes
<1>3. CASE e.type \notin CallTypes /\ ds = cs
  BY <1>1, <1>2, <1>3 DEF Shows, w
<1>4. ASSUME NEW s \in CallStates, e.type \in CallTypes, e.id \in CallIds, Matches(e.type, s),
             ds = [cs EXCEPT ![e.id] = s]
      PROVE  Shows(w, ds)
  <2>1. (e.type = "closed" <=> s \notin Alive) /\ (e.type = "established" <=> s = "established")
    BY <1>4 DEF Matches, Over, CallStates, Alive
  <2>2. ds[e.id] = s /\ \A d \in CallIds \ {e.id} : ds[d] = cs[d]
    BY <1>4
  <2>3. {d \in CallIds : ds[d] \in Alive} =
          IF s \in Alive THEN {d \in CallIds : cs[d] \in Alive} \cup {e.id}
          ELSE {d \in CallIds : cs[d] \in Alive} \ {e.id}
    BY <1>4, <2>2
  <2>4. {d \in CallIds : ds[d] = "established"} =
          IF s = "established" THEN {d \in CallIds : cs[d] = "established"} \cup {e.id}
          ELSE {d \in CallIds : cs[d] = "established"} \ {e.id}
    BY <1>4, <2>2
  <2>5. CallIdsOf(w) = {d \in CallIds : ds[d] \in Alive}
    BY <1>1, <1>4, <2>1, <2>3 DEF Shows
  <2>6. EstablishedIds(w) = {d \in CallIds : ds[d] = "established"}
    BY <1>1, <1>4, <2>1, <2>4 DEF Shows
  <2>7. QED
    BY <1>1, <2>5, <2>6 DEF Shows
<1>5. QED
  BY <1>3, <1>4 DEF w

\* What is reported is what has become of the calls.
LEMMA ReportFolds ==
  ASSUME Shapes, FoldInv, NEW a \in Agents, Reports(a), UNCHANGED <<view, connected>>
  PROVE  FoldInv'
<1> DEFINE q == emitted[a]
           v == Folded(view[a], q)
<1>1. /\ q \in Seq(AgentEvent) /\ view[a] \in AgentView
      /\ emitted \in [Agents -> Seq(AgentEvent)] /\ calls \in [Agents -> [CallIds -> CallStates]]
      /\ calls[a] \in [CallIds -> CallStates]
  BY DEF Shapes
<1>2. v \in AgentView /\ Shows(v, calls[a])
  BY <1>1, FoldedCalls DEF FoldInv
<1>3. ASSUME NEW e \in AgentEvent, emitted' = [emitted EXCEPT ![a] = Append(@, e)],
             \A b \in Agents \ {a} : calls'[b] = calls[b],
             \/ e.type \notin CallTypes /\ calls'[a] = calls[a]
             \/ \E s \in CallStates : /\ e.type \in CallTypes /\ e.id \in CallIds
                                      /\ Matches(e.type, s) /\ calls'[a] = [calls[a] EXCEPT ![e.id] = s]
      PROVE  FoldInv'
  <2>1. emitted'[a] = Append(q, e) /\ \A b \in Agents \ {a} : emitted'[b] = emitted[b]
    BY <1>1, <1>3
  <2>2. Folded(view[a], Append(q, e)) = Reduce(v, e)
    BY <1>1, FoldedAppend
  <2> HIDE DEF v, q
  <2>3. Shows(Reduce(v, e), calls'[a])
    BY <1>1, <1>2, <1>3, EventShows
  <2>4. Shows(Folded(view[a], emitted'[a]), calls'[a])
    BY <2>1, <2>2, <2>3
  <2>5. \A b \in Agents \ {a} : Shows(Folded(view[b], emitted'[b]), calls'[b])
    BY <1>3, <2>1 DEF FoldInv
  <2>6. QED
    BY <2>4, <2>5 DEF FoldInv
<1>4. CASE UNCHANGED <<calls, emitted>>
  BY <1>4 DEF FoldInv
<1>5. ASSUME NEW t \in {"registered", "unregistered"}, Emit(a, t, 0), UNCHANGED calls
      PROVE  FoldInv'
  <2> DEFINE e == [type |-> t, id |-> 0]
  <2>1. e \in AgentEvent /\ e.type \notin CallTypes
    BY DEF AgentEvent, CallTypes
  <2>2. emitted' = [emitted EXCEPT ![a] = Append(@, e)]
    BY <1>5 DEF Emit
  <2> HIDE DEF e
  <2>3. QED
    BY <1>3, <1>5, <2>1, <2>2
<1>6. ASSUME NEW c \in CallIds, NEW s \in CallStates, Becomes(a, c, s)
      PROVE  /\ \A b \in Agents \ {a} : calls'[b] = calls[b]
             /\ calls'[a] = [calls[a] EXCEPT ![c] = s]
  BY <1>1, <1>6 DEF Becomes
<1>7. ASSUME NEW c \in CallIds, Becomes(a, c, "missed"), calls[a][c] = "new", UNCHANGED emitted
      PROVE  FoldInv'
  <2>1. "missed" \in CallStates /\ {"missed", "new"} \cap Alive = {} /\ "established" \in Alive
    BY DEF CallStates, Alive
  <2>2. /\ \A b \in Agents \ {a} : calls'[b] = calls[b]
        /\ calls'[a] = [calls[a] EXCEPT ![c] = "missed"]
    BY <1>6, <1>7, <2>1
  <2>3. calls'[a][c] = "missed" /\ \A d \in CallIds \ {c} : calls'[a][d] = calls[a][d]
    BY <1>1, <2>2
  <2>4. /\ {d \in CallIds : calls'[a][d] \in Alive} = {d \in CallIds : calls[a][d] \in Alive}
        /\ {d \in CallIds : calls'[a][d] = "established"} = {d \in CallIds : calls[a][d] = "established"}
    BY <1>7, <2>1, <2>3
  <2>5. Shows(v, calls'[a])
    BY <1>2, <2>4 DEF Shows
  <2>6. \A b \in Agents : Shows(Folded(view[b], emitted[b]), calls'[b])
    BY <2>2, <2>5 DEF FoldInv
  <2>7. QED
    BY <1>7, <2>6 DEF FoldInv
<1>8. ASSUME NEW c \in CallIds, NEW s \in CallStates, NEW t \in CallTypes,
             Becomes(a, c, s), Emit(a, t, c), Matches(t, s)
      PROVE  FoldInv'
  <2> DEFINE e == [type |-> t, id |-> c]
  <2>1. e \in AgentEvent /\ e.type = t /\ e.id = c
    BY DEF AgentEvent
  <2>2. emitted' = [emitted EXCEPT ![a] = Append(@, e)]
    BY <1>8 DEF Emit
  <2> HIDE DEF e
  <2>3. /\ \A b \in Agents \ {a} : calls'[b] = calls[b]
        /\ calls'[a] = [calls[a] EXCEPT ![c] = s]
    BY <1>6, <1>8
  <2>4. QED
    BY <1>3, <1>8, <2>1, <2>2, <2>3
<1>9. QED
  BY <1>4, <1>5, <1>7, <1>8 DEF Reports

\* Folding an event is what the invariant has done already.
LEMMA FoldFolds == ASSUME Shapes, FoldInv, NEW a \in Agents, FoldEvent(a) PROVE FoldInv'
<1> DEFINE q == emitted[a]
<1>1. /\ q \in Seq(AgentEvent) /\ q # <<>>
      /\ view \in [Agents -> AgentView] /\ emitted \in [Agents -> Seq(AgentEvent)]
  BY DEF Shapes, FoldEvent
<1>2. Folded(Reduce(view[a], Head(q)), Tail(q)) = Folded(view[a], q)
  BY <1>1, FoldedTail
<1> HIDE DEF q
<1>3. /\ view'[a] = Reduce(view[a], Head(q)) /\ emitted'[a] = Tail(q)
      /\ \A b \in Agents \ {a} : view'[b] = view[b] /\ emitted'[b] = emitted[b]
  BY <1>1 DEF FoldEvent, q
<1>4. \A b \in Agents : Folded(view'[b], emitted'[b]) = Folded(view[b], emitted[b])
  BY <1>2, <1>3 DEF q
<1>5. UNCHANGED <<calls, connected>>
  BY DEF FoldEvent
<1>6. QED
  BY <1>4, <1>5 DEF FoldInv

LEMMA SameShows == ASSUME NEW v, NEW w, v.calls = w.calls, NEW cs, Shows(v, cs) PROVE Shows(w, cs)
BY DEF Shows, Once, CallIdsOf, EstablishedIds

LEMMA HeadersFold == ASSUME Shapes, FoldInv, NEW a \in Agents, TracePoll(a) PROVE FoldInv'
<1> DEFINE w == MergeReceivedHeaders(view[a], pushed[a])
<1>1. /\ view' = [view EXCEPT ![a] = w] /\ UNCHANGED <<calls, emitted, connected>>
  BY DEF TracePoll
<1>2. /\ view \in [Agents -> AgentView] /\ view[a] \in AgentView /\ pushed[a] \subseteq CallIds
      /\ emitted[a] \in Seq(AgentEvent)
  BY DEF Shapes
<1>3. w \in AgentView /\ view[a].calls = w.calls
  BY <1>2 DEF AgentView, MergeReceivedHeaders
<1> HIDE DEF w
<1>4. Folded(view[a], emitted[a]).calls = Folded(w, emitted[a]).calls
  BY <1>2, <1>3, FoldedCalls
<1>5. Shows(Folded(w, emitted[a]), calls[a])
  <2>1. Shows(Folded(view[a], emitted[a]), calls[a])
    BY DEF FoldInv
  <2>2. QED
    BY <1>4, <2>1, SameShows
<1>6. view'[a] = w /\ \A b \in Agents \ {a} : view'[b] = view[b]
  BY <1>1, <1>2
<1>7. \A b \in Agents : Shows(Folded(view'[b], emitted[b]), calls[b])
  BY <1>5, <1>6 DEF FoldInv
<1>8. QED
  BY <1>1, <1>7 DEF FoldInv

LEMMA NothingShown == Shows(Folded(NoState, <<>>), NoCalls)
<1>1. Folded(NoState, <<>>) = NoState
  BY FoldedNone
<1>2. NoState.calls = <<>> /\ DOMAIN NoState.calls = {}
  BY DEF NoState
<1>3. \A c \in CallIds : NoCalls[c] = "new"
  BY DEF NoCalls
<1>4. "new" \notin Alive
  BY DEF Alive
<1>5. QED
  BY <1>1, <1>2, <1>3, <1>4 DEF Shows, Once, CallIdsOf, EstablishedIds

LEMMA ConnectFolds == ASSUME Shapes, FoldInv, NEW a \in Agents, NewAgent(a) PROVE FoldInv'
<1>1. PICK deflects \in BOOLEAN : Connect(a, deflects)
  BY DEF NewAgent
<1>2. /\ connected' = connected \cup {a}
      /\ calls' = [calls EXCEPT ![a] = NoCalls] /\ emitted' = [emitted EXCEPT ![a] = <<>>]
      /\ view' = [view EXCEPT ![a] = NoState]
  BY <1>1 DEF Connect
<1>3. /\ calls'[a] = NoCalls /\ emitted'[a] = <<>> /\ view'[a] = NoState
      /\ \A b \in Agents \ {a} : calls'[b] = calls[b] /\ emitted'[b] = emitted[b] /\ view'[b] = view[b]
  BY <1>2 DEF Shapes
<1>4. \A b \in Agents : Shows(Folded(view'[b], emitted'[b]), calls'[b])
  BY <1>3, NothingShown DEF FoldInv
<1>5. QED
  BY <1>2, <1>4 DEF FoldInv

folded == <<connected, calls, emitted, view>>
LEMMA FoldStays == ASSUME FoldInv, UNCHANGED folded PROVE FoldInv'
BY DEF folded, FoldInv

LEMMA FoldInvStep == ASSUME Shapes, FoldInv, [ScenarioNext]_scene PROVE FoldInv'
<1>1. ASSUME UNCHANGED agents PROVE FoldInv'
  BY <1>1, FoldStays DEF agents, folded
<1>2. CASE ScriptStep
  <2>1. ASSUME NEW a \in Agents, Tell(a)  PROVE FoldInv'
    <3>1. UNCHANGED folded
      BY <2>1 DEF Tell, CallControl, StopDeflect, RespondIncoming, Dial, Transfer, Deflect, Act, folded
    <3>2. QED
      BY <3>1, FoldStays
  <2>2. CASE \/ AgentRefused \/ NoSession \/ NewServer \/ StopServer \/ RhaiResponds \/ JsResponds
             \/ Await \/ ScriptReturns
    BY <1>1, <2>2 DEF AgentRefused, NoSession, NewServer, StopServer, RhaiResponds, JsResponds, Await, ScriptReturns
  <2>3. QED
    BY <1>2, <2>1, <2>2, ConnectFolds DEF ScriptStep, RhaiAwaits, JsAwaits
<1>3. CASE Reset
  <2>1. /\ connected' = {} /\ calls' = [a \in Agents |-> NoCalls]
        /\ emitted' = [a \in Agents |-> <<>>] /\ view' = [a \in Agents |-> NoState]
    BY <1>3 DEF Reset, DropSessions
  <2>2. \A a \in Agents : Shows(Folded(view'[a], emitted'[a]), calls'[a])
    BY <2>1, NothingShown
  <2>3. QED
    BY <2>1, <2>2 DEF FoldInv
<1>4. CASE \/ ResetEnds \/ UntilTicks \/ HttpEnds \/ SleepEnds \/ WaitEnds \/ MockRuns
           \/ \E a \in Agents : GuardReports(a)
  BY <1>1, <1>4 DEF ResetEnds, UntilTicks, HttpEnds, SleepEnds, WaitEnds, GuardReports, MockRuns
<1>5. CASE AgentsRun
  <2>1. ASSUME NEW a \in Agents, WorkerActs(a)  PROVE FoldInv'
    <3>1. Reports(a) /\ UNCHANGED <<view, connected>>
      BY <2>1, WorkerReports DEF WorkerActs
    <3>2. QED
      BY <3>1, ReportFolds
  <2>2. QED
    BY <1>5, <2>1, FoldFolds, HeadersFold DEF AgentsRun, AgentsStep
<1>6. CASE Begins \/ Others
  <2>1. ASSUME NEW a \in Agents, InviteComes(a) \/ RegistrarAnswers(a) \/ PeerAnswers(a) \/ PeerCloses(a)
        PROVE  FoldInv'
    <3>1. UNCHANGED <<view, connected>>
      BY <2>1 DEF InviteComes, RegistrarAnswers, PeerAnswers, PeerCloses
    <3>2. Reports(a)
      BY <2>1, OthersReport
    <3>3. QED
      BY <3>1, <3>2, ReportFolds
  <2>2. QED
    BY <1>1, <1>6, <2>1 DEF Begins, Others
<1>7. CASE UNCHANGED scene
  BY <1>7, FoldStays DEF scene, folded
<1>8. QED
  BY <1>2, <1>3, <1>4, <1>5, <1>6, <1>7 DEF ScenarioNext, ResetStep

LEMMA InitFoldInv == ScenarioInit => FoldInv
BY NothingShown DEF ScenarioInit, AgentsInit, FoldInv

LEMMA CallsCounted ==
  ASSUME NEW v \in AgentView, Once(v)
  PROVE  Len(v.calls) = Cardinality(CallIdsOf(v))
<1> DEFINE n == Len(v.calls)
           f == [i \in 1 .. n |-> v.calls[i].id]
<1>1. v.calls \in Seq(Entry) /\ n \in Nat /\ DOMAIN v.calls = 1 .. n
  BY DEF AgentView
<1>2. f \in Bijection(1 .. n, CallIdsOf(v))
  <2>1. f \in [1 .. n -> CallIdsOf(v)]
    BY <1>1 DEF CallIdsOf
  <2>2. \A i, j \in 1 .. n : f[i] = f[j] => i = j
    BY <1>1 DEF Once
  <2>3. \A c \in CallIdsOf(v) : \E i \in 1 .. n : f[i] = c
    BY <1>1 DEF CallIdsOf
  <2> HIDE DEF f
  <2>4. f \in Injection(1 .. n, CallIdsOf(v))
    BY <2>1, <2>2 DEF Injection, IsInjective
  <2>5. f \in Surjection(1 .. n, CallIdsOf(v))
    BY <2>1, <2>3 DEF Surjection
  <2>6. QED
    BY <2>4, <2>5 DEF Bijection
<1> HIDE DEF f
<1>3. IsFiniteSet(1 .. n) /\ Cardinality(1 .. n) = n
  BY <1>1, FS_Interval
<1>4. ExistsBijection(1 .. n, CallIdsOf(v))
  BY <1>2 DEF ExistsBijection
<1>5. QED
  BY <1>3, <1>4, FS_Bijection DEF n

\* With the events under way folded in, the view of an agent is what its worker
\* has, for any number of agents, calls and events under way (FoldsToTruth;
\* runtime/state.rs, AgentState::reduce).
THEOREM ViewsAreTrue == ScenarioSpec => []FoldsToTruth
<1>1. Shapes /\ FoldInv => FoldsToTruth
  <2> SUFFICES ASSUME Shapes, FoldInv, NEW a \in connected
               PROVE  LET v == Folded(view[a], emitted[a])
                      IN /\ Len(v.calls) = Cardinality(Current(a))
                         /\ CallIdsOf(v) = Current(a)
                         /\ EstablishedIds(v) = {c \in CallIds : calls[a][c] = "established"}
    BY DEF FoldsToTruth
  <2> DEFINE v == Folded(view[a], emitted[a])
  <2>1. a \in Agents
    BY DEF FoldInv
  <2>2. v \in AgentView
    BY <2>1, FoldedCalls DEF Shapes
  <2>3. /\ Once(v) /\ CallIdsOf(v) = Current(a)
        /\ EstablishedIds(v) = {c \in CallIds : calls[a][c] = "established"}
    BY <2>1 DEF FoldInv, Shows, Current
  <2> HIDE DEF v
  <2>4. Len(v.calls) = Cardinality(CallIdsOf(v))
    BY <2>2, <2>3, CallsCounted
  <2>5. QED
    BY <2>3, <2>4 DEF v
<1>2. WaitInv => Shapes
  BY DEF WaitInv
<1>3. QED
  BY InitWaitInv, WaitInvStep, InitFoldInv, FoldInvStep, <1>1, <1>2, PTL DEF ScenarioSpec

-----------------------------------------------------------------------------
(* The account of a run.                                                   *)

Endings == {"passed", "failed", "skipped"}
ReportEntry == [sc : Nat, outcome : Endings]
Aggregate == [files : Nat, passed_files : Nat, scenarios : Nat, passed_scenarios : Nat, skipped_scenarios : Nat]

Phase1 == {"build", "top"}
InSuite == InScenario \cup {"scenario"}
AtEnd == {"flush", "reap", "verdict", "ended"}

\* Where a file is: it has its verdict, waits for phase 2, or is run there.
Finished == {f \in Files : verdicts[f] # "none"}
PutOff == {programs[deferred[i]] : i \in DOMAIN deferred}
InHand == IF pc \in InSuite THEN {Program} ELSE {}
\* The files that phase 1 has been through.
Seen == {programs[i] : i \in {j \in DOMAIN programs : pc \in Phase1 => j < file}}

RunShapes ==
  /\ programs \in Seq(Files) /\ \A i, j \in DOMAIN programs : programs[i] = programs[j] => i = j
  /\ deferred \in Seq(DOMAIN programs) /\ \A i, j \in DOMAIN deferred : deferred[i] = deferred[j] => i = j
  /\ verdicts \in [Files -> {"none", "passed", "failed"}]
  /\ reports \in [Files -> Seq(ReportEntry)]
  /\ agg \in Aggregate /\ result \in Endings
  /\ file \in 1 .. Len(programs) + 1 /\ sc \in Nat /\ known \in Nat
  /\ pc \in Phase1 \cup InSuite \cup {"suite"} \cup AtEnd

Places ==
  /\ pc = "build" => known = 0
  /\ pc = "top" => file \in DOMAIN programs /\ known <= Len(Infos)
  /\ pc \in InSuite => file \in DOMAIN programs /\ sc \in 1 .. Len(Infos) + 1
  /\ pc \in InScenario => sc \in Wanted(Program)
  /\ pc \in AtEnd => deferred = << >>

\* Each file that has been seen is in one place.
Shares ==
  /\ Finished \cup PutOff \cup InHand = Seen
  /\ Finished \cap (PutOff \cup InHand) = {}
  /\ PutOff \cap InHand = {}

Counts ==
  /\ agg.files = IF pc = "build" THEN file - 1 ELSE IF pc = "top" THEN file ELSE Len(programs)
  /\ agg.passed_files = Cardinality(PassedFiles)
  /\ agg.scenarios = 0 => \A f \in Finished : reports[f] = << >>

\* What is said of a file that is finished.
Accurate(f) ==
  /\ reports[f] # << >> => Whole(f) /\ (verdicts[f] = "passed" <=> "failed" \notin Outcomes(f))
  /\ verdicts[f] = "passed" /\ Disk[f].infos # << >> => Whole(f)

Records ==
  /\ \A f \in Files : f \notin Finished \cup InHand => reports[f] = << >>
  /\ pc \in InSuite => InOrder(reports[Program], {i \in Wanted(Program) : i < sc})
  /\ pc \in Phase1 => \A f \in Finished : reports[f] = << >> /\ (verdicts[f] = "passed" => Disk[f].infos = << >>)
  /\ \A f \in Finished : Accurate(f)

Concluded ==
  /\ verdict \in {"none", "panicked", "ok", "failed", "no match"}
  /\ verdict # "panicked" /\ verdict # "none" => pc = "ended"
  /\ verdict = "ok" => agg.passed_files = agg.files
  /\ verdict \in {"failed", "no match"} =>
       agg.passed_files # agg.files \/ (IsActive(filters) /\ agg.scenarios = 0)
  /\ pc = "ended" => verdict # "none"

Books == RunShapes /\ Places /\ Shares /\ Counts /\ Records /\ Concluded

\* A panic leaves the books as they are.
AccountInv ==
  /\ lang \in {"rhai", "js"}
  /\ verdict = "panicked" => pc \in AtEnd
  /\ verdict # "panicked" => Books
\* The sorted order of the files, and a report more.
LEMMA SortExists ==
  ASSUME NEW S \in SUBSET Nat, IsFiniteSet(S)
  PROVE  \E s \in [1 .. Cardinality(S) -> S] : \A i, j \in DOMAIN s : i < j => s[i] < s[j]
<1> DEFINE Sorts(s, U, n) == s \in [1 .. n -> U] /\ \A i, j \in 1 .. n : i < j => s[i] < s[j]
           P(n) == \A U \in SUBSET Nat : IsFiniteSet(U) /\ Cardinality(U) = n => \E s : Sorts(s, U, n)
           T == {n \in Nat : P(n)}
<1>1. P(0)
  <2> SUFFICES ASSUME NEW U \in SUBSET Nat PROVE \E s : Sorts(s, U, 0)
    OBVIOUS
  <2> DEFINE s == [i \in 1 .. 0 |-> 0]
  <2>1. Sorts(s, U, 0)
    OBVIOUS
  <2>2. QED
    BY <2>1
<1>2. ASSUME NEW n \in Nat, P(n) PROVE P(n + 1)
  <2> SUFFICES ASSUME NEW U \in SUBSET Nat, IsFiniteSet(U), Cardinality(U) = n + 1
               PROVE  \E s : Sorts(s, U, n + 1)
    OBVIOUS
  <2>1. U # {}
    BY FS_EmptySet
  <2>2. PICK x \in U : \A y \in U : ~ (<<y, x>> \in OpToRel(<, Nat))
    BY <2>1, NatLessThanWellFounded, WFMin
  <2>3. \A y \in U \ {x} : x < y
    <3> SUFFICES ASSUME NEW y \in U \ {x} PROVE x < y
      OBVIOUS
    <3>1. x \in Nat /\ y \in Nat /\ ~ (y < x)
      BY <2>2 DEF OpToRel
    <3>2. QED
      BY <3>1
  <2> DEFINE V == U \ {x}
  <2>4. V \in SUBSET Nat /\ IsFiniteSet(V) /\ Cardinality(V) = n
    <3>1. IsFiniteSet(V) /\ Cardinality(V) = Cardinality(U) - 1
      BY <2>2, FS_RemoveElement
    <3>2. V \in SUBSET Nat /\ n + 1 - 1 = n
      OBVIOUS
    <3> HIDE DEF V
    <3>3. QED
      BY <3>1, <3>2
  <2>5. PICK r : Sorts(r, V, n)
    BY <1>2, <2>4
  <2> DEFINE m == n + 1
             s == [i \in 1 .. m |-> IF i = 1 THEN x ELSE r[i - 1]]
  <2>6. m \in Nat /\ \A i \in 1 .. m : i # 1 => i - 1 \in 1 .. n
    OBVIOUS
  <2>7. \A i \in 1 .. m : i # 1 => r[i - 1] \in V
    BY <2>5, <2>6
  <2> HIDE DEF m
  <2>8. s \in [1 .. m -> U]
    BY <2>7
  <2>9. ASSUME NEW i \in 1 .. m, NEW j \in 1 .. m, i < j
        PROVE  s[i] < s[j]
    <3>1. j # 1 /\ j - 1 \in 1 .. n /\ s[j] = r[j - 1] /\ r[j - 1] \in V
      BY <2>6, <2>7, <2>9
    <3>2. CASE i = 1
      BY <2>3, <3>1, <3>2
    <3>3. CASE i # 1
      <4>1. i - 1 \in 1 .. n /\ s[i] = r[i - 1] /\ i - 1 < j - 1
        BY <2>6, <2>9, <3>3
      <4>2. r[i - 1] < r[j - 1]
        BY <2>5, <3>1, <4>1
      <4>3. QED
        BY <3>1, <4>1, <4>2
    <3>4. QED
      BY <3>2, <3>3
  <2> HIDE DEF s
  <2>10. Sorts(s, U, m)
    BY <2>8, <2>9
  <2>11. QED
    BY <2>10 DEF m
<1> HIDE DEF P
<1>3. T \in SUBSET Nat /\ 0 \in T /\ \A n \in T : n + 1 \in T
  BY <1>1, <1>2
<1> HIDE DEF T
<1>4. T = Nat
  BY <1>3, AllNumbers
<1>5. Cardinality(S) \in Nat
  BY FS_CardinalityType
<1>6. P(Cardinality(S))
  BY <1>4, <1>5 DEF T
<1>7. PICK s : Sorts(s, S, Cardinality(S))
  BY <1>6 DEF P
<1>8. QED
  BY <1>7

\* What is sorted is a sequence that repeats nothing.
LEMMA SortedOnce ==
  ASSUME NEW S \in SUBSET Files, IsFiniteSet(S)
  PROVE  /\ Sorted(S) \in Seq(Files)
         /\ \A i, j \in DOMAIN Sorted(S) : Sorted(S)[i] = Sorted(S)[j] => i = j
<1> DEFINE n == Cardinality(S)
           s == Sorted(S)
<1>1. n \in Nat
  BY FS_CardinalityType
<1>2. S \in SUBSET Nat
  BY FlowFilesAssumption
<1>3. s \in [1 .. n -> S] /\ \A i, j \in DOMAIN s : i < j => s[i] < s[j]
  BY <1>2, SortExists DEF Sorted
<1> HIDE DEF s, n
<1>4. DOMAIN s = 1 .. n /\ \A i \in 1 .. n : s[i] \in Nat /\ s[i] \in Files
  BY <1>2, <1>3
<1>5. s \in Seq(Files)
  BY <1>1, <1>3
<1>6. ASSUME NEW i \in 1 .. n, NEW j \in 1 .. n, s[i] = s[j]
      PROVE  i = j
  <2>1. s[i] \in Nat /\ s[j] \in Nat /\ ~ (s[i] < s[j]) /\ ~ (s[j] < s[i])
    BY <1>4, <1>6
  <2>2. ~ (i < j) /\ ~ (j < i)
    BY <1>3, <1>4, <2>1
  <2>3. QED
    BY <2>2
<1>7. QED
  BY <1>4, <1>5, <1>6 DEF s

LEMMA CollectOnce ==
  ASSUME NEW l, NEW args \in Asked
  PROVE  /\ CollectFiles(l, args) \in Seq(Files)
         /\ \A i, j \in DOMAIN CollectFiles(l, args) : CollectFiles(l, args)[i] = CollectFiles(l, args)[j] => i = j
<1>1. /\ args.files \subseteq Files /\ IsFiniteSet(args.files)
      /\ args.dir \subseteq Files /\ IsFiniteSet(args.dir)
  BY FlowFilesAssumption
<1>2. JsDir(args.dir) \in SUBSET args.dir /\ RhaiDir(args.dir) \in SUBSET args.dir
  BY DEF JsDir, RhaiDir
<1>3. IsFiniteSet(JsDir(args.dir)) /\ IsFiniteSet(RhaiDir(args.dir))
  BY <1>1, <1>2, FS_Subset
<1> DEFINE A == args.files \cup JsDir(args.dir)
           B == args.files \cup RhaiDir(args.dir)
<1>4. A \in SUBSET Files /\ IsFiniteSet(A) /\ B \in SUBSET Files /\ IsFiniteSet(B)
  BY <1>1, <1>2, <1>3, FS_Union
<1> HIDE DEF A, B
<1>5. CollectFiles(l, args) = Sorted(A) \/ CollectFiles(l, args) = Sorted(B)
  BY DEF CollectFiles, JsFiles, RhaiFiles, A, B
<1>6. QED
  BY <1>4, <1>5, SortedOnce

LEMMA OrderNothing == InOrder(<< >>, {})
BY DEF InOrder

LEMMA OrderAppend ==
  ASSUME NEW r \in Seq(ReportEntry), NEW W, InOrder(r, W), NEW s \in Nat, \A w \in W : w < s, NEW o \in Endings
  PROVE  LET q == Append(r, [sc |-> s, outcome |-> o])
         IN  q \in Seq(ReportEntry) /\ InOrder(q, W \cup {s})
<1> DEFINE e == [sc |-> s, outcome |-> o]
           q == Append(r, e)
           n == Len(r)
           m == n + 1
<1>1. e \in ReportEntry
  BY DEF ReportEntry
<1> HIDE DEF e
<1>2. /\ q \in Seq(ReportEntry) /\ n \in Nat /\ Len(q) = m
      /\ \A i \in 1 .. n : q[i] = r[i]
      /\ q[m] = e
  BY <1>1, AppendProperties
<1> HIDE DEF q
<1>3. DOMAIN q = 1 .. m /\ DOMAIN r = 1 .. n
  BY <1>2
<1>4. /\ m \in 1 .. m /\ \A i \in 1 .. n : i \in 1 .. m
      /\ \A i \in 1 .. m : i \in 1 .. n \/ i = m
      /\ \A i \in 1 .. n : i < m
  BY <1>2
<1>5. e.sc = s
  BY DEF e
<1> HIDE DEF n, m
<1>6. {q[i].sc : i \in DOMAIN q} = {r[i].sc : i \in DOMAIN r} \cup {s}
  BY <1>2, <1>3, <1>4, <1>5
<1>7. ASSUME NEW i \in DOMAIN q, NEW j \in DOMAIN q, i < j
      PROVE  q[i].sc < q[j].sc
  <2>1. i \in 1 .. n /\ q[i] = r[i] /\ r[i].sc \in W
    <3>1. i \in 1 .. n
      <4>1. n \in Nat /\ m \in Nat /\ i \in 1 .. m /\ j \in 1 .. m
        BY <1>2, <1>3 DEF m
      <4>2. i # m
        BY <1>7, <4>1
      <4>3. QED
        BY <1>4, <4>1, <4>2
    <3>2. QED
      BY <1>2, <1>3, <3>1 DEF InOrder
  <2>2. CASE j = m
    BY <1>2, <1>5, <2>1, <2>2
  <2>3. CASE j \in 1 .. n
    BY <1>2, <1>3, <1>7, <2>1, <2>3 DEF InOrder
  <2>4. QED
    BY <1>3, <1>4, <2>2, <2>3
<1>8. QED
  BY <1>2, <1>6, <1>7 DEF InOrder, q, e

\* A suite passes when it has reported no failure.
LEMMA PassesWhen ==
  ASSUME NEW r \in Seq(ReportEntry)
  PROVE  Cardinality({i \in DOMAIN r : r[i].outcome \in {"passed", "skipped"}}) = Len(r)
           <=> "failed" \notin {r[i].outcome : i \in DOMAIN r}
<1> DEFINE n == Len(r)
           D == {i \in DOMAIN r : r[i].outcome \in {"passed", "skipped"}}
<1>1. n \in Nat /\ DOMAIN r = 1 .. n /\ \A i \in 1 .. n : r[i] \in ReportEntry
  OBVIOUS
<1>2. \A i \in 1 .. n : r[i].outcome \in {"passed", "skipped", "failed"}
  BY <1>1 DEF ReportEntry, Endings
<1>3. IsFiniteSet(1 .. n) /\ Cardinality(1 .. n) = n
  <2>1. 1 \in Int /\ n \in Int /\ (1 > n => n = 0)
    BY <1>1
  <2> HIDE DEF n
  <2>2. QED
    BY <2>1, FS_Interval
<1> HIDE DEF n
<1>4. D \in SUBSET (1 .. n)
  BY <1>1
<1>5. Cardinality(D) = n <=> D = 1 .. n
  BY <1>3, <1>4, FS_Subset
<1>6. D = 1 .. n <=> "failed" \notin {r[i].outcome : i \in DOMAIN r}
  BY <1>1, <1>2
<1>7. QED
  BY <1>5, <1>6 DEF n

LEMMA ProgramsCounted ==
  ASSUME RunShapes
  PROVE  /\ Len(programs) \in Nat
         /\ IsFiniteSet(ToSet(programs)) /\ Cardinality(ToSet(programs)) = Len(programs)
         /\ ToSet(programs) \subseteq Files
<1> DEFINE n == Len(programs)
           S == 1 .. n
           T == ToSet(programs)
<1>1. n \in Nat /\ DOMAIN programs = S /\ programs \in [S -> Files]
  BY DEF RunShapes
<1>2. IsFiniteSet(S) /\ Cardinality(S) = n
  <2>1. 1 \in Int /\ n \in Int /\ (1 > n => n = 0)
    BY <1>1
  <2> HIDE DEF n
  <2>2. QED
    BY <2>1, FS_Interval
<1> HIDE DEF n, S
<1>3. T = {programs[i] : i \in S}
  BY <1>1 DEF ToSet
<1>4. T \subseteq Files /\ programs \in [S -> T] /\ \A t \in T : \E i \in S : programs[i] = t
  BY <1>1, <1>3
<1> HIDE DEF T
<1>5. programs \in Surjection(S, T)
  BY <1>4 DEF Surjection
<1>6. programs \in Injection(S, T)
  BY <1>1, <1>4 DEF Injection, IsInjective, RunShapes
<1>7. IsFiniteSet(T) /\ Cardinality(T) = Cardinality(S)
  BY <1>2, <1>5, <1>6, FS_Surjection
<1>8. QED
  BY <1>1, <1>2, <1>4, <1>7 DEF T, n

LEMMA PassedCounted ==
  ASSUME RunShapes, Shares
  PROVE  /\ Seen \subseteq ToSet(programs) /\ PassedFiles \subseteq Finished /\ Finished \subseteq Seen
         /\ IsFiniteSet(PassedFiles) /\ Cardinality(PassedFiles) \in Nat
<1>1. Seen \subseteq ToSet(programs)
  BY DEF Seen, ToSet
<1>2. PassedFiles \subseteq Finished
  BY DEF PassedFiles, Finished
<1>3. Finished \subseteq Seen
  BY DEF Shares
<1>4. PassedFiles \in SUBSET ToSet(programs)
  BY <1>1, <1>2, <1>3
<1>5. IsFiniteSet(PassedFiles)
  BY <1>4, ProgramsCounted, FS_Subset
<1>6. QED
  BY <1>1, <1>2, <1>3, <1>5, FS_CardinalityType

\* A file that had no verdict gets one.
LEMMA GetsVerdict ==
  ASSUME RunShapes, Shares, Program \in Files, Program \notin Finished, NEW ok \in BOOLEAN, Verdict(ok)
  PROVE  /\ verdicts' \in [Files -> {"none", "passed", "failed"}]
         /\ verdicts'[Program] = (IF ok THEN "passed" ELSE "failed")
         /\ \A f \in Files : f # Program => verdicts'[f] = verdicts[f]
         /\ Finished' = Finished \cup {Program}
         /\ Cardinality(PassedFiles') = Cardinality(PassedFiles) + (IF ok THEN 1 ELSE 0)
<1>1. /\ verdicts' \in [Files -> {"none", "passed", "failed"}]
      /\ verdicts'[Program] = (IF ok THEN "passed" ELSE "failed")
      /\ \A f \in Files : f # Program => verdicts'[f] = verdicts[f]
  BY DEF RunShapes, Verdict
<1>2. Finished' = Finished \cup {Program}
  BY <1>1 DEF Finished
<1>3. /\ IsFiniteSet(PassedFiles) /\ Cardinality(PassedFiles) \in Nat
      /\ Program \notin PassedFiles
  BY PassedCounted
<1>4. CASE ok
  <2>1. PassedFiles' = PassedFiles \cup {Program}
    BY <1>1, <1>4 DEF PassedFiles
  <2>2. Cardinality(PassedFiles \cup {Program}) = Cardinality(PassedFiles) + 1
    BY <1>3, FS_AddElement
  <2>3. QED
    BY <1>1, <1>2, <1>4, <2>1, <2>2
<1>5. CASE ~ ok
  <2>1. PassedFiles' = PassedFiles
    BY <1>1, <1>3, <1>5 DEF PassedFiles
  <2>2. QED
    BY <1>1, <1>2, <1>3, <1>5, <2>1
<1>6. QED
  BY <1>4, <1>5

LEMMA InitAccount == Init => AccountInv
<1> SUFFICES ASSUME Init PROVE AccountInv
  OBVIOUS
<1>1. programs \in Seq(Files) /\ \A i, j \in DOMAIN programs : programs[i] = programs[j] => i = j
  BY CollectOnce DEF Init
<1>2. RunShapes
  <2>1. << >> \in Seq(DOMAIN programs) /\ << >> \in Seq(ReportEntry)
    OBVIOUS
  <2>2. /\ file \in 1 .. Len(programs) + 1 /\ sc \in Nat /\ known \in Nat
    BY <1>1 DEF Init
  <2>3. agg \in Aggregate /\ result \in Endings /\ pc \in Phase1
    BY DEF Init, NoAggregate, Aggregate, Endings, Phase1
  <2>4. QED
    BY <1>1, <2>1, <2>2, <2>3 DEF Init, RunShapes
<1>3. Finished = {} /\ PutOff = {} /\ InHand = {} /\ PassedFiles = {}
  BY DEF Init, Finished, PutOff, InHand, PassedFiles, InSuite, InScenario
<1>4. Seen = {}
  <2>1. \A j \in DOMAIN programs : ~ (j < file)
    BY <1>1 DEF Init
  <2>2. QED
    BY <2>1 DEF Seen, Init, Phase1
<1>5. Counts
  BY <1>3, FS_EmptySet DEF Counts, Init, NoAggregate
<1>6. Records
  BY <1>3 DEF Records, Init, InSuite, InScenario
<1>7. Places /\ Concluded
  BY DEF Places, Concluded, Init, InSuite, InScenario, AtEnd
<1>8. QED
  BY <1>2, <1>3, <1>4, <1>5, <1>6, <1>7 DEF AccountInv, Books, Shares, Init, DetectLang

LEMMA Unaccounted == ASSUME AccountInv, UNCHANGED <<place, told>> PROVE AccountInv'
<1>1. /\ UNCHANGED <<lang, programs, filters, pc, file, sc, known, deferred, focus>>
      /\ UNCHANGED <<result, reports, verdicts, agg, verdict>>
  BY DEF place, told
<1>2. UNCHANGED <<Program, Infos, Finished, PutOff, InHand, Seen, PassedFiles>>
  BY <1>1 DEF Program, Infos, Finished, PutOff, InHand, Seen, PassedFiles
<1>3. \A f : Wanted(f)' = Wanted(f) /\ Outcomes(f)' = Outcomes(f)
  BY <1>1 DEF Wanted, Outcomes
<1>4. \A f : Accurate(f)' <=> Accurate(f)
  BY <1>1, <1>3 DEF Accurate, Whole
<1>5. RunShapes' <=> RunShapes
  BY <1>1 DEF RunShapes
<1>6. Places' <=> Places
  BY <1>1, <1>2, <1>3 DEF Places
<1>7. (Shares' <=> Shares) /\ (Counts' <=> Counts) /\ (Concluded' <=> Concluded)
  BY <1>1, <1>2 DEF Shares, Counts, Concluded
<1>8. Records' <=> Records
  BY <1>1, <1>2, <1>3, <1>4 DEF Records
<1>9. QED
  BY <1>1, <1>5, <1>6, <1>7, <1>8 DEF AccountInv, Books

\* The file that phase 1 is at has no verdict yet and has not been put off.
LEMMA NewFile ==
  ASSUME Books, pc \in Phase1, file \in DOMAIN programs
  PROVE  /\ Program \in Files /\ Program \notin Seen /\ InHand = {} /\ Len(programs) \in Nat
         /\ \A i \in DOMAIN deferred : deferred[i] # file
         /\ Seen \cup {Program} = {programs[i] : i \in {j \in DOMAIN programs : j < file + 1}}
<1>1. /\ Program \in Files /\ InHand = {} /\ DOMAIN programs = 1 .. Len(programs) /\ Len(programs) \in Nat
  BY DEF Books, RunShapes, Program, InHand, InSuite, InScenario, Phase1
<1>2. Program \notin Seen
  BY <1>1 DEF Books, RunShapes, Seen, Program
<1>3. ASSUME NEW i \in DOMAIN deferred PROVE deferred[i] # file
  <2>1. programs[deferred[i]] \in Seen
    BY <1>3 DEF Books, Shares, PutOff
  <2>2. QED
    BY <1>2, <2>1 DEF Program
<1>4. \A j \in DOMAIN programs : j < file + 1 <=> j < file \/ j = file
  BY <1>1
<1>5. Seen = {programs[i] : i \in {j \in DOMAIN programs : j < file}}
  BY DEF Seen
<1>6. QED
  BY <1>1, <1>2, <1>3, <1>4, <1>5 DEF Program

\* Phase 1 is done with a file, or puts it off.
LEMMA FileDone ==
  ASSUME Books, pc \in Phase1, file \in DOMAIN programs, NEW ok \in BOOLEAN, Verdict(ok), ok => Infos = << >>,
         NextFile(deferred), agg' \in Aggregate, agg'.files = file,
         agg'.passed_files = agg.passed_files + (IF ok THEN 1 ELSE 0),
         UNCHANGED <<reports, focus, result, verdict>>
  PROVE  Books'
<1>1. /\ pc' = "build" /\ file' = file + 1 /\ known' = 0
      /\ UNCHANGED <<programs, filters, sc, deferred, focus, reports>>
  BY DEF NextFile
<1>2. /\ Program \in Files /\ Program \notin Seen /\ Program \notin Finished /\ Program \notin PutOff /\ InHand = {}
      /\ Seen \cup {Program} = {programs[i] : i \in {j \in DOMAIN programs : j < file + 1}}
      /\ Len(programs) \in Nat
  BY NewFile DEF Books, Shares
<1>3. /\ verdicts' \in [Files -> {"none", "passed", "failed"}]
      /\ verdicts'[Program] = (IF ok THEN "passed" ELSE "failed")
      /\ \A f \in Files : f # Program => verdicts'[f] = verdicts[f]
      /\ Finished' = Finished \cup {Program}
      /\ Cardinality(PassedFiles') = Cardinality(PassedFiles) + (IF ok THEN 1 ELSE 0)
  BY <1>2, GetsVerdict DEF Books
<1>4. PutOff' = PutOff /\ InHand' = {} /\ Seen' = Seen \cup {Program}
  BY <1>1, <1>2 DEF PutOff, InHand, Seen, InSuite, InScenario, Phase1
<1>5. RunShapes'
  <2>1. file + 1 \in 1 .. Len(programs) + 1
    BY <1>2 DEF Books, RunShapes
  <2>2. pc' \in Phase1
    BY <1>1 DEF Phase1
  <2>3. QED
    BY <1>1, <1>3, <2>1, <2>2 DEF Books, RunShapes
<1>6. Places' /\ Concluded'
  <2>1. agg' \in Aggregate /\ verdict \in {"none", "panicked"}
    BY DEF Books, Concluded, Phase1
  <2>2. QED
    BY <1>1, <2>1 DEF Places, Concluded, InSuite, InScenario, AtEnd
<1>7. Shares'
  BY <1>2, <1>3, <1>4 DEF Books, Shares
<1>8. \A f \in Files : f \notin Finished => reports[f] = << >>
  BY <1>2 DEF Books, Records
<1>9. \A f \in Finished' : reports'[f] = << >> /\ (verdicts'[f] = "passed" => Disk[f].infos = << >>)
  <2>1. \A f \in Finished : f # Program /\ f \in Files /\ reports[f] = << >> /\ (verdicts[f] = "passed" => Disk[f].infos = << >>)
    BY <1>2 DEF Books, Records, Finished
  <2>2. reports[Program] = << >> /\ (ok => Disk[Program].infos = << >>)
    BY <1>2, <1>8 DEF Infos
  <2>3. QED
    BY <1>1, <1>3, <2>1, <2>2
<1>10. Counts'
  <2>1. agg'.passed_files = Cardinality(PassedFiles')
    BY <1>3 DEF Books, Counts
  <2>2. agg'.files = file' - 1
    BY <1>1, <1>2 DEF Books, RunShapes
  <2>3. \A f \in Finished' : reports'[f] = << >>
    BY <1>9
  <2>4. QED
    BY <1>1, <2>1, <2>2, <2>3 DEF Counts
<1>11. Records'
  <2>1. \A f \in Finished' : Accurate(f)'
    BY <1>9 DEF Accurate
  <2>2. \A f \in Files : f \notin (Finished \cup InHand)' => reports'[f] = << >>
    BY <1>1, <1>3, <1>8
  <2>3. QED
    BY <1>1, <1>9, <2>1, <2>2 DEF Records, InSuite, InScenario
<1>12. QED
  BY <1>5, <1>6, <1>7, <1>10, <1>11 DEF Books

\* Phase 1 goes on with the file it is at.
LEMMA BuildsOn ==
  ASSUME Books, pc \in Phase1, pc' = "top", file \in DOMAIN programs, known' \in Nat, known' <= Len(Infos),
         agg' \in Aggregate, agg'.files = file, agg'.passed_files = agg.passed_files, agg'.scenarios = agg.scenarios,
         UNCHANGED <<programs, filters, file, sc, deferred, focus, result, reports, verdicts, verdict>>
  PROVE  Books'
<1>1. UNCHANGED <<Program, Infos, Finished, PutOff, PassedFiles>> /\ InHand = {} /\ InHand' = {}
  BY DEF Program, Infos, Finished, PutOff, PassedFiles, InHand, Phase1, InSuite, InScenario
<1>2. Seen' = Seen
  BY DEF Seen, Phase1
<1>3. \A f : Wanted(f)' = Wanted(f) /\ Outcomes(f)' = Outcomes(f)
  BY DEF Wanted, Outcomes
<1>4. \A f : Accurate(f)' <=> Accurate(f)
  BY <1>3 DEF Accurate, Whole
<1>5. RunShapes'
  BY DEF Books, RunShapes, Phase1
<1>6. Places'
  BY <1>1 DEF Places, InSuite, InScenario, AtEnd
<1>7. Shares'
  BY <1>1, <1>2 DEF Books, Shares
<1>8. Counts'
  BY <1>1 DEF Books, Counts
<1>9. Records'
  BY <1>1, <1>4 DEF Books, Records, Phase1, InSuite, InScenario
<1>10. Concluded'
  BY DEF Books, Concluded, Phase1
<1>11. QED
  BY <1>5, <1>6, <1>7, <1>8, <1>9, <1>10 DEF Books

LEMMA BuildSteps == ASSUME Books, BuildFails \/ BuildHost \/ RegisterScenario PROVE Books'
<1>0. agg \in Aggregate /\ Len(programs) \in Nat /\ DOMAIN programs = 1 .. Len(programs) /\ file \in Nat \ {0}
  BY DEF Books, RunShapes
<1>1. CASE BuildFails
  <2>1. pc = "build" /\ pc \in Phase1 /\ file \in DOMAIN programs
    BY <1>0, <1>1 DEF BuildFails, Phase1
  <2>2. agg' \in Aggregate /\ agg'.files = file /\ agg'.passed_files = agg.passed_files + 0
    <3>1. agg' = [agg EXCEPT !.files = @ + 1] /\ agg.files = file - 1
      BY <1>1, <2>1 DEF BuildFails, Books, Counts
    <3>2. QED
      BY <1>0, <3>1 DEF Aggregate
  <2>3. QED
    BY <1>1, <2>1, <2>2, FileDone DEF BuildFails
<1>2. CASE BuildHost
  <2>1. pc = "build" /\ pc' = "top" /\ file \in DOMAIN programs
        /\ UNCHANGED <<programs, filters, file, sc, known, deferred, focus, result, reports, verdicts, verdict>>
    BY <1>0, <1>2 DEF BuildHost
  <2>2. agg' \in Aggregate /\ agg'.files = file /\ agg'.passed_files = agg.passed_files /\ agg'.scenarios = agg.scenarios
    <3>1. agg' = [agg EXCEPT !.files = @ + 1] /\ agg.files = file - 1
      BY <1>2, <2>1 DEF BuildHost, Books, Counts
    <3>2. QED
      BY <1>0, <3>1 DEF Aggregate
  <2>3. known' \in Nat /\ known' <= Len(Infos)
    <3>1. Program \in Files /\ known = 0
      BY <2>1 DEF Books, RunShapes, Places, Program
    <3>2. Len(Infos) \in Nat
      BY <3>1, FlowFilesAssumption DEF Infos
    <3>3. QED
      BY <2>1, <3>1, <3>2
  <2>4. QED
    BY <2>1, <2>2, <2>3, BuildsOn DEF Phase1
<1>3. CASE RegisterScenario
  <2>1. /\ pc = "top" /\ known < Len(Infos) /\ known' = known + 1
        /\ UNCHANGED <<programs, filters, pc, file, sc, deferred, focus, result, reports, verdicts, agg, verdict>>
    BY <1>3 DEF RegisterScenario, told
  <2>2. known' \in Nat /\ known' <= Len(Infos)
    <3>1. Program \in Files /\ known \in Nat
      BY <2>1 DEF Books, RunShapes, Places, Program
    <3>2. Len(Infos) \in Nat
      BY <3>1, FlowFilesAssumption DEF Infos
    <3>3. QED
      BY <2>1, <3>1, <3>2
  <2>3. agg \in Aggregate /\ agg.files = file /\ file \in DOMAIN programs
    BY <2>1 DEF Books, RunShapes, Counts, Places
  <2>4. QED
    BY <2>1, <2>2, <2>3, BuildsOn DEF Phase1
<1>4. QED
  BY <1>1, <1>2, <1>3

\* What was put off before, and the file that is put off.
LEMMA DeferStep ==
  ASSUME Books, pc = "top", Registered # << >>, Defer, UNCHANGED <<result, reports, verdict>>
  PROVE  Books'
<1> DEFINE q == Append(deferred, file)
<1>1. /\ pc' = "build" /\ file' = file + 1 /\ known' = 0 /\ deferred' = q /\ focus' \in {TRUE, FALSE, focus'}
      /\ UNCHANGED <<programs, filters, sc, reports, verdicts, agg, result, verdict>>
  BY DEF Defer, NextFile
<1>2. pc \in Phase1 /\ file \in DOMAIN programs
  BY DEF Phase1, Books, Places
<1>3. /\ Program \in Files /\ Program \notin Seen /\ Program \notin Finished /\ Program \notin PutOff /\ InHand = {}
      /\ Seen \cup {Program} = {programs[i] : i \in {j \in DOMAIN programs : j < file + 1}}
      /\ Len(programs) \in Nat
      /\ \A i \in DOMAIN deferred : deferred[i] # file
  BY <1>2, NewFile DEF Books, Shares
<1>4. /\ q \in Seq(DOMAIN programs) /\ DOMAIN q = 1 .. Len(deferred) + 1 /\ Len(deferred) \in Nat
      /\ DOMAIN deferred = 1 .. Len(deferred)
      /\ \A i \in DOMAIN deferred : q[i] = deferred[i]
      /\ q[Len(deferred) + 1] = file
  BY <1>2, AppendProperties DEF Books, RunShapes
<1> HIDE DEF q
<1> DEFINE m == Len(deferred) + 1
<1>5. DOMAIN q = DOMAIN deferred \cup {m} /\ q[m] = file /\ m \notin DOMAIN deferred
  BY <1>4
<1> HIDE DEF m
<1>6. \A i, j \in DOMAIN q : q[i] = q[j] => i = j
  BY <1>3, <1>4, <1>5 DEF Books, RunShapes
<1>7. PutOff' = PutOff \cup {Program}
  BY <1>1, <1>4, <1>5 DEF PutOff, Program
<1>8. InHand' = {} /\ Seen' = Seen \cup {Program} /\ Finished' = Finished /\ PassedFiles' = PassedFiles
  BY <1>1, <1>3 DEF InHand, Seen, Finished, PassedFiles, InSuite, InScenario, Phase1
<1>9. RunShapes'
  <2>1. file + 1 \in 1 .. Len(programs) + 1
    BY <1>2, <1>3 DEF Books, RunShapes
  <2>2. pc' \in Phase1
    BY <1>1 DEF Phase1
  <2>3. QED
    BY <1>1, <1>4, <1>6, <2>1, <2>2 DEF Books, RunShapes
<1>10. Places' /\ Concluded'
  BY <1>1 DEF Books, Places, Concluded, InSuite, InScenario, AtEnd
<1>11. Shares'
  BY <1>3, <1>7, <1>8 DEF Books, Shares
<1>12. Counts'
  <2>1. agg.files = file' - 1
    BY <1>1, <1>2, <1>3 DEF Books, Counts, RunShapes
  <2>2. QED
    BY <1>1, <1>8, <2>1 DEF Books, Counts
<1>13. Records'
  <2>1. \A f \in Finished : reports[f] = << >> /\ (verdicts[f] = "passed" => Disk[f].infos = << >>)
    BY <1>2 DEF Books, Records
  <2>2. \A f \in Finished' : Accurate(f)'
    BY <1>1, <1>8, <2>1 DEF Accurate
  <2>3. \A f \in Files : f \notin (Finished \cup InHand)' => reports'[f] = << >>
    BY <1>1, <1>3, <1>8 DEF Books, Records
  <2>4. QED
    BY <1>1, <1>8, <2>1, <2>2, <2>3 DEF Records, InSuite, InScenario
<1>14. QED
  BY <1>9, <1>10, <1>11, <1>12, <1>13 DEF Books

LEMMA TopLevelStep == ASSUME Books, TopLevelEnds PROVE Books'
<1>1. pc = "top" /\ pc \in Phase1 /\ file \in DOMAIN programs /\ UNCHANGED <<result, reports, verdict>>
  BY DEF TopLevelEnds, Phase1, Books, Places
<1>2. /\ Program \in Files /\ Infos \in Seq(ToSet(Infos)) /\ known \in Nat /\ known <= Len(Infos)
      /\ Len(Infos) \in Nat
  <2>1. Program \in Files /\ known \in Nat /\ known <= Len(Infos)
    BY <1>1 DEF Books, RunShapes, Places, Program
  <2>2. Infos \in Seq(ToSet(Infos))
    BY <2>1, FlowFilesAssumption DEF Infos
  <2> HIDE DEF Infos
  <2>3. QED
    BY <2>1, <2>2
<1>3. known # 0 => Registered # << >>
  <2>1. known # 0 => Len(SubSeq(Infos, 1, known)) = known
    BY <1>2, SubSeqProperties
  <2>2. QED
    BY <1>2, <2>1 DEF Registered
<1>4. PICK t \in Thrown :
        /\ IF Parses(lang, Program) THEN t = "nothing" => known = Len(Infos) ELSE t = "error"
        /\ \/ TopLevelSingle(t = "nothing")
           \/ t # "nothing" /\ TopLevelError
           \/ t = "nothing" /\ Defer
  BY DEF TopLevelEnds
<1>5. agg \in Aggregate /\ agg.files = file
  BY <1>1 DEF Books, RunShapes, Counts
<1>6. CASE TopLevelSingle(t = "nothing")
  <2> DEFINE ok == t = "nothing"
  <2>1. ok => Infos = << >>
    <3>1. ok => known = Len(Infos)
      BY <1>4
    <3>2. known = 0
      BY <1>3, <1>6 DEF TopLevelSingle
    <3>3. Len(Infos) = 0 => Infos = << >>
      BY <1>2, EmptySeq
    <3>4. QED
      BY <3>1, <3>2, <3>3
  <2>2. agg' \in Aggregate /\ agg'.files = file /\ agg'.passed_files = agg.passed_files + (IF ok THEN 1 ELSE 0)
    <3> DEFINE b == IF ok THEN 1 ELSE 0
    <3>1. b \in Nat
      OBVIOUS
    <3>2. agg' = [agg EXCEPT !.scenarios = @ + 1, !.passed_scenarios = @ + b, !.passed_files = @ + b]
      BY <1>6 DEF TopLevelSingle
    <3> HIDE DEF b
    <3>3. agg' = [files |-> agg.files, passed_files |-> agg.passed_files + b, scenarios |-> agg.scenarios + 1,
                  passed_scenarios |-> agg.passed_scenarios + b, skipped_scenarios |-> agg.skipped_scenarios]
      BY <1>5, <3>2 DEF Aggregate
    <3>4. agg' \in Aggregate /\ agg'.files = file /\ agg'.passed_files = agg.passed_files + b
      BY <1>5, <3>1, <3>3 DEF Aggregate
    <3>5. QED
      BY <3>4 DEF b
  <2>3. ok \in BOOLEAN /\ Verdict(ok) /\ NextFile(deferred) /\ UNCHANGED focus
    BY <1>6 DEF TopLevelSingle
  <2> HIDE DEF ok
  <2>4. QED
    BY <1>1, <2>1, <2>2, <2>3, FileDone
<1>7. CASE t # "nothing" /\ TopLevelError
  <2>1. Verdict(FALSE) /\ NextFile(deferred) /\ UNCHANGED <<focus, agg>>
    BY <1>7 DEF TopLevelError
  <2>2. agg'.passed_files = agg.passed_files + 0
    BY <1>5, <2>1 DEF Aggregate
  <2>3. QED
    BY <1>1, <1>5, <2>1, <2>2, FileDone
<1>8. CASE t = "nothing" /\ Defer
  BY <1>1, <1>8, DeferStep DEF Defer
<1>9. QED
  BY <1>4, <1>6, <1>7, <1>8

\* Between the suites every file has its verdict or waits.
LEMMA BetweenThem ==
  ASSUME Books, BetweenSuites
  PROVE  /\ InHand = {} /\ Seen = {programs[i] : i \in DOMAIN programs} /\ agg.files = Len(programs)
         /\ pc \in Phase1 \cup {"suite"}
<1>1. CASE pc = "suite"
  BY <1>1 DEF InHand, InSuite, InScenario, Seen, Phase1, Books, Counts
<1>2. CASE pc = "build" /\ file > Len(programs)
  <2>1. Len(programs) \in Nat /\ DOMAIN programs = 1 .. Len(programs) /\ file = Len(programs) + 1
    BY <1>2 DEF Books, RunShapes
  <2>2. \A j \in DOMAIN programs : j < file
    BY <2>1
  <2>3. Seen = {programs[i] : i \in DOMAIN programs}
    BY <2>2 DEF Seen
  <2>4. agg.files = Len(programs)
    BY <1>2, <2>1 DEF Books, Counts
  <2>5. QED
    BY <1>2, <2>3, <2>4 DEF InHand, InSuite, InScenario, Phase1
<1>3. QED
  BY <1>1, <1>2 DEF BetweenSuites

LEMMA SuiteStartsStep == ASSUME Books, SuiteStarts PROVE Books'
<1> DEFINE h == Head(deferred)
           q == Tail(deferred)
           p == programs[h]
<1>1. /\ BetweenSuites /\ deferred # << >> /\ file' = h /\ deferred' = q /\ sc' = 1 /\ pc' = "scenario"
      /\ UNCHANGED <<programs, filters, known, focus, result, reports, verdicts, agg, verdict>>
  BY DEF SuiteStarts, told
<1>2. /\ InHand = {} /\ Seen = {programs[i] : i \in DOMAIN programs} /\ agg.files = Len(programs)
      /\ pc \in Phase1 \cup {"suite"}
  BY <1>1, BetweenThem
<1>3. /\ h \in DOMAIN programs /\ q \in Seq(DOMAIN programs) /\ Len(q) = Len(deferred) - 1
      /\ Len(deferred) \in Nat \ {0} /\ h = deferred[1]
      /\ \A i \in 1 .. Len(q) : q[i] = deferred[i + 1]
  BY <1>1, HeadTailProperties DEF Books, RunShapes
<1>4. DOMAIN deferred = 1 .. Len(deferred) /\ DOMAIN q = 1 .. Len(deferred) - 1
      /\ Len(programs) \in Nat /\ DOMAIN programs = 1 .. Len(programs)
  BY <1>3 DEF Books, RunShapes
<1> HIDE DEF h, q
<1> DEFINE n == Len(deferred) - 1
<1>5. /\ n \in Nat /\ DOMAIN q = 1 .. n /\ 1 \in DOMAIN deferred
      /\ \A i \in 1 .. n : i + 1 \in DOMAIN deferred /\ i + 1 # 1 /\ q[i] = deferred[i + 1]
      /\ \A i \in DOMAIN deferred : i # 1 => i - 1 \in 1 .. n /\ i - 1 + 1 = i
  BY <1>3, <1>4
<1> HIDE DEF n
<1>6. \A i, j \in DOMAIN q : q[i] = q[j] => i = j
  <2> SUFFICES ASSUME NEW i \in 1 .. n, NEW j \in 1 .. n, q[i] = q[j] PROVE i = j
    BY <1>5
  <2>1. i + 1 = j + 1
    BY <1>5 DEF Books, RunShapes
  <2>2. QED
    BY <2>1
<1>7. \A i \in DOMAIN q : q[i] # h
  <2> SUFFICES ASSUME NEW i \in 1 .. n, deferred[i + 1] = deferred[1] PROVE FALSE
    BY <1>3, <1>5
  <2>1. i + 1 \in DOMAIN deferred /\ 1 \in DOMAIN deferred /\ i + 1 # 1
    BY <1>5
  <2>2. QED
    BY <2>1 DEF Books, RunShapes
<1>8. PutOff = {programs[q[i]] : i \in DOMAIN q} \cup {p}
  <2>1. ASSUME NEW i \in DOMAIN deferred PROVE deferred[i] = h \/ \E j \in DOMAIN q : q[j] = deferred[i]
    <3>1. CASE i = 1
      BY <1>3, <3>1
    <3>2. CASE i # 1
      BY <1>5, <3>2
    <3>3. QED
      BY <3>1, <3>2
  <2>2. \A j \in DOMAIN q : \E i \in DOMAIN deferred : deferred[i] = q[j]
    BY <1>5
  <2>3. \E i \in DOMAIN deferred : deferred[i] = h
    BY <1>3, <1>5
  <2>4. QED
    BY <2>1, <2>2, <2>3 DEF PutOff
<1>9. p \notin {programs[q[i]] : i \in DOMAIN q}
  <2>1. \A i \in DOMAIN q : q[i] \in DOMAIN programs
    BY <1>3
  <2>2. QED
    BY <1>3, <1>7, <2>1 DEF Books, RunShapes
<1>10. p \in Files /\ Program' = p /\ p \notin Finished
  BY <1>1, <1>3, <1>8 DEF Books, RunShapes, Program, Shares
<1> HIDE DEF p
<1>11. PutOff' = {programs[q[i]] : i \in DOMAIN q} /\ InHand' = {p} /\ Finished' = Finished /\ PassedFiles' = PassedFiles
       /\ Seen' = Seen
  BY <1>1, <1>2, <1>10 DEF PutOff, InHand, Finished, PassedFiles, Seen, InSuite, InScenario, Phase1
<1>12. RunShapes'
  <2>1. h \in 1 .. Len(programs) + 1 /\ pc' \in InSuite
    BY <1>1, <1>3, <1>4 DEF InSuite
  <2>2. QED
    BY <1>1, <1>3, <1>6, <2>1 DEF Books, RunShapes
<1>13. Places'
  <2>1. Len(Infos') \in Nat
    BY <1>10, FlowFilesAssumption DEF Infos
  <2>2. 1 \in 1 .. Len(Infos') + 1
    BY <2>1
  <2>3. QED
    BY <1>1, <1>3, <2>2 DEF Places, InScenario, AtEnd
<1>14. Shares'
  BY <1>2, <1>8, <1>9, <1>10, <1>11 DEF Books, Shares
<1>15. Counts'
  BY <1>1, <1>2, <1>11 DEF Books, Counts
<1>16. Concluded'
  BY <1>1, <1>2 DEF Books, Concluded, Phase1
<1>17. Records'
  <2>1. reports[p] = << >> /\ reports' = reports
    BY <1>1, <1>2, <1>10 DEF Books, Records
  <2>2. {i \in Wanted(Program)' : i < sc'} = {}
    <3>1. DOMAIN Disk[p].infos = 1 .. Len(Disk[p].infos)
      BY <1>10, FlowFilesAssumption
    <3>2. \A i \in Wanted(Program)' : i \in 1 .. Len(Disk[p].infos)
      BY <1>10, <3>1 DEF Wanted
    <3>3. QED
      BY <1>1, <3>2
  <2>3. InOrder(reports[p], {})
    BY <2>1, OrderNothing
  <2>4. \A f \in Finished : Accurate(f)' <=> Accurate(f)
    BY <1>1 DEF Accurate, Whole, Wanted, Outcomes
  <2>5. QED
    BY <1>1, <1>2, <1>10, <1>11, <2>1, <2>2, <2>3, <2>4 DEF Books, Records, Phase1
<1>18. QED
  BY <1>12, <1>13, <1>14, <1>15, <1>16, <1>17 DEF Books

\* The suite that is run, and its scenarios.
LEMMA InASuite ==
  ASSUME Books, pc \in InSuite
  PROVE  /\ Program \in Files /\ file \in DOMAIN programs /\ InHand = {Program} /\ Program \notin Finished
         /\ Program \notin PutOff /\ Seen = {programs[i] : i \in DOMAIN programs} /\ agg.files = Len(programs)
         /\ Len(Infos) \in Nat /\ DOMAIN Infos = 1 .. Len(Infos) /\ sc \in 1 .. Len(Infos) + 1
         /\ Wanted(Program) \subseteq DOMAIN Infos /\ verdict \in {"none", "panicked"}
<1>1. /\ Program \in Files /\ file \in DOMAIN programs /\ sc \in 1 .. Len(Infos) + 1
  BY DEF Books, RunShapes, Places, Program
<1>2. Infos \in Seq(ToSet(Infos))
  BY <1>1, FlowFilesAssumption DEF Infos
<1>3. pc \notin Phase1 /\ pc # "build" /\ pc # "top" /\ pc # "ended"
  BY DEF InSuite, InScenario, Phase1
<1>4. Len(Infos) \in Nat /\ DOMAIN Infos = 1 .. Len(Infos)
  BY <1>2
<1>5. Wanted(Program) \subseteq DOMAIN Infos
  BY DEF Wanted, Infos
<1>6. InHand = {Program} /\ Seen = {programs[i] : i \in DOMAIN programs}
  BY <1>3 DEF InHand, Seen
<1>7. agg.files = Len(programs) /\ verdict \in {"none", "panicked"}
  BY <1>3 DEF Books, Counts, Concluded
<1>8. QED
  BY <1>1, <1>4, <1>5, <1>6, <1>7 DEF Books, Shares

\* The script thread goes on in a suite.
LEMMA SuiteOn ==
  ASSUME Books, pc \in InSuite, pc' \in InSuite, result' \in Endings, sc' \in 1 .. Len(Infos) + 1,
         pc' \in InScenario => sc' \in Wanted(Program),
         reports' \in [Files -> Seq(ReportEntry)], \A f \in Files : f # Program => reports'[f] = reports[f],
         InOrder(reports'[Program], {i \in Wanted(Program) : i < sc'}),
         UNCHANGED <<lang, programs, filters, file, known, deferred, focus, verdicts, agg, verdict>>
  PROVE  Books'
<1>1. /\ Program \in Files /\ file \in DOMAIN programs /\ InHand = {Program} /\ Program \notin Finished
      /\ Seen = {programs[i] : i \in DOMAIN programs} /\ agg.files = Len(programs)
      /\ Len(Infos) \in Nat
  BY InASuite
<1>2. pc' \notin Phase1 /\ pc' # "build" /\ pc' # "top" /\ pc' # "ended" /\ pc' \notin AtEnd /\ pc # "ended"
  BY DEF InSuite, InScenario, Phase1, AtEnd
<1>3. /\ UNCHANGED <<Program, Infos, Finished, PutOff, PassedFiles>> /\ \A f : Wanted(f)' = Wanted(f)
  BY DEF Program, Infos, Finished, PutOff, PassedFiles, Wanted
<1>4. InHand' = {Program} /\ Seen' = Seen
  BY <1>1, <1>2, <1>3 DEF InHand, Seen
<1>5. RunShapes'
  <2>1. sc' \in Nat
    BY <1>1
  <2>2. QED
    BY <2>1 DEF Books, RunShapes
<1>6. Places'
  BY <1>1, <1>2, <1>3 DEF Places
<1>7. Shares'
  BY <1>1, <1>3, <1>4 DEF Books, Shares
<1>8. \A f \in Finished : reports'[f] = reports[f] /\ f \in Files
  BY <1>1 DEF Finished
<1>9. Counts'
  BY <1>1, <1>2, <1>3, <1>8 DEF Books, Counts
<1>10. Concluded'
  BY <1>2 DEF Books, Concluded
<1>11. \A f \in Finished : Accurate(f)' <=> Accurate(f)
  BY <1>3, <1>8 DEF Accurate, Whole, Outcomes
<1>12. Records'
  <2>1. \A f \in Files : f \notin (Finished \cup InHand)' => reports'[f] = << >>
    BY <1>1, <1>3, <1>4 DEF Books, Records
  <2>2. \A f \in Finished' : Accurate(f)'
    BY <1>3, <1>11 DEF Books, Records
  <2>3. InOrder(reports[Program], {i \in Wanted(Program) : i < sc})'
    BY <1>3
  <2>4. QED
    BY <1>2, <2>1, <2>2, <2>3 DEF Records
<1>13. QED
  BY <1>5, <1>6, <1>7, <1>9, <1>10, <1>12 DEF Books

\* A scenario is reported.
LEMMA SuiteReports ==
  ASSUME Books, pc \in InSuite, sc \in Wanted(Program), NEW o \in Endings, Report(o),
         sc' = sc + 1, pc' = "scenario", result' \in Endings,
         UNCHANGED <<lang, programs, filters, file, known, deferred, focus, verdicts, agg, verdict>>
  PROVE  Books'
<1>1. /\ Program \in Files /\ Len(Infos) \in Nat /\ DOMAIN Infos = 1 .. Len(Infos)
      /\ Wanted(Program) \subseteq DOMAIN Infos
  BY InASuite
<1> DEFINE r == reports[Program]
           W == {i \in Wanted(Program) : i < sc}
<1>2. r \in Seq(ReportEntry) /\ InOrder(r, W) /\ reports \in [Files -> Seq(ReportEntry)]
  BY <1>1 DEF Books, RunShapes, Records
<1>3. sc \in Nat /\ sc' \in 1 .. Len(Infos) + 1
  BY <1>1
<1>4. \A w \in W : w < sc
  OBVIOUS
<1>5. W \cup {sc} = {i \in Wanted(Program) : i < sc'}
  <2>1. \A i \in Wanted(Program) : i < sc + 1 <=> i < sc \/ i = sc
    BY <1>1, <1>3
  <2>2. QED
    BY <2>1
<1> DEFINE q == Append(r, [sc |-> sc, outcome |-> o])
<1> HIDE DEF r, W
<1>6. q \in Seq(ReportEntry) /\ InOrder(q, W \cup {sc})
  BY <1>2, <1>3, <1>4, OrderAppend
<1>7. reports' = [reports EXCEPT ![Program] = q]
  BY DEF Report, q, r
<1> HIDE DEF q
<1>8. /\ reports' \in [Files -> Seq(ReportEntry)] /\ reports'[Program] = q
      /\ \A f \in Files : f # Program => reports'[f] = reports[f]
  BY <1>1, <1>2, <1>6, <1>7
<1>9. pc' \in InSuite /\ pc' \notin InScenario
  BY DEF InSuite, InScenario
<1>10. InOrder(reports'[Program], {i \in Wanted(Program) : i < sc'})
  BY <1>5, <1>6, <1>8
<1>11. QED
  BY <1>3, <1>8, <1>9, <1>10, SuiteOn

LEMMA ClassifyEnds == ASSUME NEW l \in {"rhai", "js"}, NEW t \in Thrown PROVE Classify(l, t) \in Endings
BY DEF Classify, ClassifyError, ClassifyScenarioError, Endings

LEMMA ChosenIsWanted ==
  ASSUME Books, pc \in InSuite, sc <= Len(Infos)
  PROVE  (sc \in Wanted(Program) <=> Chosen(Infos[sc])) /\ sc \in DOMAIN Infos
<1>1. sc \in DOMAIN Infos
  BY InASuite
<1>2. QED
  BY <1>1 DEF Wanted, Infos, Chosen

\* Nothing is reported.
LEMMA SuiteQuiet ==
  ASSUME Books, pc \in InSuite, pc' \in InSuite, result' \in Endings,
         pc' \in InScenario => sc \in Wanted(Program),
         UNCHANGED <<lang, programs, filters, file, sc, known, deferred, focus, reports, verdicts, agg, verdict>>
  PROVE  Books'
<1>1. /\ sc \in 1 .. Len(Infos) + 1 /\ Program \in Files
  BY InASuite
<1>2. /\ reports \in [Files -> Seq(ReportEntry)]
      /\ InOrder(reports[Program], {i \in Wanted(Program) : i < sc})
  BY DEF Books, RunShapes, Records
<1>3. QED
  BY <1>1, <1>2, SuiteOn

LEMMA SuiteSteps ==
  ASSUME Books, lang \in {"rhai", "js"},
         NotChosen \/ StaticSkip \/ RunScenario \/ SetupEnds \/ BodyEnds \/ TeardownEnds \/ ScenarioEnds
  PROVE  Books'
<1>0. result \in Endings /\ reports \in [Files -> Seq(ReportEntry)]
  BY DEF Books, RunShapes
<1>1. CASE NotChosen
  <2>1. /\ pc = "scenario" /\ sc <= Len(Infos) /\ ~ Chosen(Infos[sc]) /\ sc' = sc + 1 /\ pc' = "scenario"
        /\ UNCHANGED <<lang, programs, filters, file, known, deferred, focus, result, reports, verdicts, agg, verdict>>
    BY <1>1 DEF NotChosen, Advance, told
  <2>2. pc \in InSuite /\ pc' \in InSuite /\ pc' \notin InScenario
    BY <2>1 DEF InSuite, InScenario
  <2>3. /\ Program \in Files /\ Len(Infos) \in Nat /\ DOMAIN Infos = 1 .. Len(Infos)
        /\ Wanted(Program) \subseteq DOMAIN Infos /\ sc \in 1 .. Len(Infos) + 1
    BY <2>2, InASuite
  <2>4. sc' \in 1 .. Len(Infos) + 1
    BY <2>1, <2>3
  <2>5. sc \notin Wanted(Program)
    BY <2>1, <2>2, ChosenIsWanted
  <2>6. {i \in Wanted(Program) : i < sc'} = {i \in Wanted(Program) : i < sc}
    <3>1. \A i \in Wanted(Program) : i < sc + 1 <=> i < sc
      BY <2>3, <2>5
    <3>2. QED
      BY <2>1, <3>1
  <2>7. InOrder(reports'[Program], {i \in Wanted(Program) : i < sc'})
    BY <2>1, <2>2, <2>6 DEF Books, Records
  <2>8. QED
    BY <1>0, <2>1, <2>2, <2>4, <2>7, SuiteOn
<1>2. CASE StaticSkip
  <2>1. /\ pc = "scenario" /\ sc <= Len(Infos) /\ Chosen(Infos[sc]) /\ sc' = sc + 1 /\ pc' = "scenario"
        /\ Report("skipped")
        /\ UNCHANGED <<lang, programs, filters, file, known, deferred, focus, result, verdicts, agg, verdict>>
    BY <1>2 DEF StaticSkip, Advance
  <2>2. pc \in InSuite /\ "skipped" \in Endings
    BY <2>1 DEF InSuite, Endings
  <2>3. sc \in Wanted(Program)
    BY <2>1, <2>2, ChosenIsWanted
  <2>4. QED
    BY <1>0, <2>1, <2>2, <2>3, SuiteReports
<1>3. CASE RunScenario
  <2>1. /\ pc = "scenario" /\ sc <= Len(Infos) /\ Chosen(Infos[sc]) /\ pc' \in {"setup", "body"}
        /\ UNCHANGED <<lang, programs, filters, file, sc, known, deferred, focus, result, reports, verdicts, agg, verdict>>
    BY <1>3 DEF RunScenario, Advance, told
  <2>2. pc \in InSuite /\ pc' \in InSuite
    BY <2>1 DEF InSuite, InScenario
  <2>3. sc \in Wanted(Program)
    BY <2>1, <2>2, ChosenIsWanted
  <2>4. QED
    BY <1>0, <2>1, <2>2, <2>3, SuiteQuiet
<1>4. CASE SetupEnds \/ BodyEnds \/ TeardownEnds
  <2>1. /\ pc \in {"setup", "body", "teardown"} /\ pc' \in {"body", "teardown", "report"}
        /\ UNCHANGED <<lang, programs, filters, file, sc, known, deferred, focus, reports, verdicts, agg, verdict>>
        /\ result' = result \/ \E t \in Thrown : result' = Classify(lang, t)
    BY <1>4 DEF SetupEnds, BodyEnds, TeardownEnds, Advance
  <2>2. result' \in Endings
    BY <1>0, <2>1, ClassifyEnds
  <2>3. pc \in InSuite /\ pc' \in InSuite /\ sc \in Wanted(Program)
    BY <2>1 DEF InSuite, InScenario, Books, Places
  <2>4. QED
    BY <2>1, <2>2, <2>3, SuiteQuiet
<1>5. CASE ScenarioEnds
  <2>1. /\ pc = "report" /\ sc' = sc + 1 /\ pc' = "scenario" /\ Report(result) /\ result' = "passed"
        /\ UNCHANGED <<lang, programs, filters, file, known, deferred, focus, verdicts, agg, verdict>>
    BY <1>5 DEF ScenarioEnds, Advance
  <2>2. pc \in InSuite /\ sc \in Wanted(Program) /\ result' \in Endings
    BY <2>1 DEF InSuite, InScenario, Books, Places, Endings
  <2>3. QED
    BY <1>0, <2>1, <2>2, SuiteReports
<1>6. QED
  BY <1>1, <1>2, <1>3, <1>4, <1>5

\* A suite that has reported all of its scenarios gets its verdict.
LEMMA SuiteEndsStep == ASSUME Books, SuiteEnds PROVE Books'
<1> DEFINE r == reports[Program]
<1>1. /\ pc = "scenario" /\ sc > Len(Infos) /\ pc' = "suite" /\ sc' = 0 /\ Verdict(Passes)
      /\ UNCHANGED <<lang, programs, filters, file, known, deferred, focus, result, reports, verdict>>
  BY DEF SuiteEnds, Advance
<1>2. pc \in InSuite /\ pc' \notin InSuite /\ pc' \notin InScenario /\ pc' \notin Phase1 /\ pc' \notin AtEnd
  BY <1>1 DEF InSuite, InScenario, Phase1, AtEnd
<1>3. /\ Program \in Files /\ file \in DOMAIN programs /\ InHand = {Program} /\ Program \notin Finished
      /\ Program \notin PutOff /\ Seen = {programs[i] : i \in DOMAIN programs} /\ agg.files = Len(programs)
      /\ Len(Infos) \in Nat /\ DOMAIN Infos = 1 .. Len(Infos) /\ sc \in 1 .. Len(Infos) + 1
      /\ Wanted(Program) \subseteq DOMAIN Infos /\ verdict \in {"none", "panicked"}
  BY <1>2, InASuite
<1>4. r \in Seq(ReportEntry) /\ InOrder(r, Wanted(Program))
  <2>1. {i \in Wanted(Program) : i < sc} = Wanted(Program)
    <3>1. \A i \in Wanted(Program) : i < sc
      BY <1>1, <1>3
    <3>2. QED
      BY <3>1
  <2>2. QED
    BY <1>2, <1>3, <2>1 DEF Books, RunShapes, Records
<1>5. Passes <=> "failed" \notin Outcomes(Program)
  BY <1>4, PassesWhen DEF Passes, Reported, Outcomes
<1> DEFINE ok == Passes
           b == IF ok THEN 1 ELSE 0
<1>6. ok \in BOOLEAN /\ Verdict(ok) /\ b \in Nat
  BY <1>1 DEF Passes
<1> HIDE DEF ok
<1>7. /\ verdicts' \in [Files -> {"none", "passed", "failed"}]
      /\ verdicts'[Program] = (IF ok THEN "passed" ELSE "failed")
      /\ \A f \in Files : f # Program => verdicts'[f] = verdicts[f]
      /\ Finished' = Finished \cup {Program}
      /\ Cardinality(PassedFiles') = Cardinality(PassedFiles) + b
  BY <1>3, <1>6, GetsVerdict DEF Books
<1>8. /\ agg \in Aggregate /\ agg' \in Aggregate /\ agg'.files = agg.files /\ agg'.passed_files = agg.passed_files + b
      /\ agg'.scenarios = agg.scenarios + Len(r)
  <2>1. agg' = [agg EXCEPT !.scenarios = @ + Len(r), !.passed_scenarios = @ + Reported({"passed"}),
                           !.skipped_scenarios = @ + Reported({"skipped"}), !.passed_files = @ + b]
    BY DEF SuiteEnds, ok
  <2>2. Reported({"passed"}) \in Nat /\ Reported({"skipped"}) \in Nat /\ Len(r) \in Nat
    <3>1. Len(r) \in Nat /\ DOMAIN r = 1 .. Len(r)
      BY <1>4
    <3>2. IsFiniteSet(DOMAIN r)
      BY <3>1, FS_Interval
    <3>3. \A o : IsFiniteSet({i \in DOMAIN r : r[i].outcome \in o})
      BY <3>2, FS_Subset
    <3>4. \A o : Cardinality({i \in DOMAIN r : r[i].outcome \in o}) \in Nat
      BY <3>3, FS_CardinalityType
    <3>5. QED
      BY <3>1, <3>4 DEF Reported
  <2> HIDE DEF b, r
  <2>3. agg \in Aggregate
    BY DEF Books, RunShapes
  <2>4. agg' = [files |-> agg.files, passed_files |-> agg.passed_files + b, scenarios |-> agg.scenarios + Len(r),
                passed_scenarios |-> agg.passed_scenarios + Reported({"passed"}),
                skipped_scenarios |-> agg.skipped_scenarios + Reported({"skipped"})]
    BY <2>1, <2>3 DEF Aggregate
  <2> DEFINE n == Len(r)
             p == Reported({"passed"})
             s == Reported({"skipped"})
  <2>5. n \in Nat /\ p \in Nat /\ s \in Nat /\ b \in Nat
    BY <1>6, <2>2
  <2> HIDE DEF n, p, s
  <2>6. /\ agg.files \in Nat /\ agg.passed_files + b \in Nat /\ agg.scenarios + n \in Nat
        /\ agg.passed_scenarios + p \in Nat /\ agg.skipped_scenarios + s \in Nat
    BY <2>3, <2>5 DEF Aggregate
  <2>7. agg' \in Aggregate
    BY <2>4, <2>6 DEF Aggregate, n, p, s
  <2>8. QED
    BY <2>3, <2>4, <2>7
<1> HIDE DEF b
<1>9. /\ UNCHANGED <<Program, Infos, PutOff>> /\ (\A f : Wanted(f)' = Wanted(f) /\ Outcomes(f)' = Outcomes(f))
      /\ InHand' = {} /\ Seen' = Seen
  BY <1>1, <1>2, <1>3 DEF Program, Infos, PutOff, Wanted, Outcomes, InHand, Seen
<1>10. RunShapes'
  <2>1. sc' \in Nat
    BY <1>1
  <2>2. QED
    BY <1>1, <1>7, <1>8, <2>1 DEF Books, RunShapes
<1>11. Places'
  BY <1>1, <1>2 DEF Places
<1>12. Shares'
  BY <1>3, <1>7, <1>9 DEF Books, Shares
<1>13. Counts'
  <2>1. agg'.files = Len(programs')
    BY <1>1, <1>3, <1>8
  <2>2. agg'.passed_files = Cardinality(PassedFiles')
    BY <1>7, <1>8 DEF Books, Counts
  <2>3. agg'.scenarios = 0 => agg.scenarios = 0 /\ r = << >>
    <3>1. agg.scenarios \in Nat /\ Len(r) \in Nat /\ (Len(r) = 0 => r = << >>)
      BY <1>4, <1>8, EmptySeq DEF Aggregate
    <3> HIDE DEF r
    <3>2. QED
      BY <1>8, <3>1
  <2>4. agg'.scenarios = 0 => \A f \in Finished' : reports'[f] = << >>
    BY <1>1, <1>7, <2>3 DEF Books, Counts
  <2>5. QED
    BY <1>1, <2>1, <2>2, <2>4 DEF Counts
<1>14. Concluded'
  BY <1>1, <1>3 DEF Concluded
<1>15. Accurate(Program)'
  <2>1. Whole(Program)'
    BY <1>1, <1>4, <1>9 DEF Whole
  <2>2. verdicts'[Program] = "passed" <=> "failed" \notin Outcomes(Program)
    BY <1>5, <1>7 DEF ok
  <2>3. QED
    BY <1>9, <2>1, <2>2 DEF Accurate
<1>16. \A f \in Finished : Accurate(f)'
  <2>1. \A f \in Finished : f \in Files /\ f # Program /\ Accurate(f)
    BY <1>3 DEF Books, Records, Finished
  <2>2. QED
    BY <1>1, <1>7, <1>9, <2>1 DEF Accurate, Whole
<1>17. Records'
  <2>1. \A f \in Files : f \notin (Finished \cup InHand)' => reports'[f] = << >>
    BY <1>1, <1>3, <1>7, <1>9 DEF Books, Records
  <2>2. \A f \in Finished' : Accurate(f)'
    BY <1>7, <1>9, <1>15, <1>16
  <2>3. QED
    BY <1>2, <2>1, <2>2 DEF Records
<1>18. QED
  BY <1>10, <1>11, <1>12, <1>13, <1>14, <1>17 DEF Books

\* The run ends, with every file accounted for.
LEMMA EndOn ==
  ASSUME Books, InHand = {}, Seen = {programs[i] : i \in DOMAIN programs}, agg.files = Len(programs), deferred = << >>,
         pc' \in AtEnd,
         verdict' # verdict => verdict' \in {"ok", "failed", "no match"},
         verdict' # "none" => pc' = "ended",
         pc' = "ended" => verdict' # "none",
         verdict' = "ok" => agg.passed_files = agg.files,
         verdict' \in {"failed", "no match"} => agg.passed_files # agg.files \/ (IsActive(filters) /\ agg.scenarios = 0),
         verdict \in {"none", "ok", "failed", "no match"},
         UNCHANGED <<lang, programs, filters, file, sc, known, deferred, focus, result, reports, verdicts, agg>>
  PROVE  Books'
<1>1. pc' \notin InSuite /\ pc' \notin InScenario /\ pc' \notin Phase1 /\ pc' # "build" /\ pc' # "top"
  BY DEF AtEnd, InSuite, InScenario, Phase1
<1>2. /\ UNCHANGED <<Finished, PutOff, PassedFiles>> /\ \A f : Accurate(f)' <=> Accurate(f)
  BY DEF Finished, PutOff, PassedFiles, Accurate, Whole, Wanted, Outcomes
<1>3. InHand' = InHand /\ Seen' = Seen
  BY <1>1 DEF InHand, Seen
<1>4. RunShapes' /\ Places'
  BY <1>1 DEF Books, RunShapes, Places
<1>5. Shares' /\ Counts' /\ Records'
  BY <1>1, <1>2, <1>3 DEF Books, Shares, Counts, Records
<1>6. Concluded'
  BY DEF Books, Concluded
<1>7. QED
  BY <1>4, <1>5, <1>6 DEF Books

LEMMA FilesEndStep == ASSUME Books, verdict # "panicked", FilesEnd PROVE Books'
<1>1. /\ BetweenSuites /\ deferred = << >> /\ pc' = "flush"
      /\ UNCHANGED <<lang, programs, filters, file, sc, known, deferred, focus, result, reports, verdicts, agg, verdict>>
  BY DEF FilesEnd, Advance, told
<1>2. /\ InHand = {} /\ Seen = {programs[i] : i \in DOMAIN programs} /\ agg.files = Len(programs)
      /\ pc \in Phase1 \cup {"suite"}
  BY <1>1, BetweenThem
<1>3. verdict = "none" /\ pc' \in AtEnd /\ pc' # "ended"
  BY <1>1, <1>2 DEF Books, Concluded, Phase1, AtEnd
<1>4. QED
  BY <1>1, <1>2, <1>3, EndOn

\* Everything is in its place when the run is about to end.
LEMMA AtTheEnd ==
  ASSUME Books, pc \in AtEnd
  PROVE  /\ InHand = {} /\ Seen = {programs[i] : i \in DOMAIN programs} /\ agg.files = Len(programs)
         /\ deferred = << >>
<1>1. pc \notin InSuite /\ pc \notin Phase1 /\ pc # "build" /\ pc # "top"
  BY DEF AtEnd, InSuite, InScenario, Phase1
<1>2. QED
  BY <1>1 DEF InHand, Seen, Books, Counts, Places

LEMMA LeaveSteps ==
  ASSUME Books, verdict # "panicked", FlushDone \/ FlushTimeout \/ Reap
  PROVE  Books'
<1>1. /\ pc \in {"flush", "reap"} /\ pc' \in {"reap", "verdict"}
      /\ UNCHANGED <<lang, programs, filters, file, sc, known, deferred, focus, result, reports, verdicts, agg, verdict>>
  BY DEF FlushDone, FlushTimeout, Reap, Advance, told
<1>2. pc \in AtEnd /\ pc' \in AtEnd /\ pc # "ended" /\ pc' # "ended" /\ verdict = "none"
  BY <1>1 DEF Books, Concluded, AtEnd
<1>3. QED
  BY <1>1, <1>2, AtTheEnd, EndOn

LEMMA RunEndStep == ASSUME Books, verdict # "panicked", RunEnd PROVE Books'
<1>1. /\ pc = "verdict" /\ pc' = "ended"
      /\ UNCHANGED <<lang, programs, filters, file, sc, known, deferred, focus, result, reports, verdicts, agg>>
  BY DEF RunEnd, Advance
<1>2. verdict = "none" /\ pc \in AtEnd /\ pc' \in AtEnd
  BY <1>1 DEF Books, Concluded, AtEnd
<1> DEFINE none == IsActive(filters) /\ agg.scenarios = 0
<1>3. verdict' = IF none THEN "no match" ELSE IF agg.passed_files = agg.files THEN "ok" ELSE "failed"
  BY <1>2 DEF RunEnd
<1>4. /\ verdict' \in {"ok", "failed", "no match"}
      /\ verdict' = "ok" => agg.passed_files = agg.files
      /\ verdict' \in {"failed", "no match"} => agg.passed_files # agg.files \/ none
  BY <1>3
<1>5. QED
  BY <1>1, <1>2, <1>4, AtTheEnd, EndOn

LEMMA AccountStep == ASSUME AccountInv, [Next]_vars PROVE AccountInv'
<1>1. CASE \/ Script \/ (\E w \in waiters : PollRetries(w) \/ PollSettles(w))
           \/ (\E n \in Names : CallComes(n) \/ CallEnds(n)) \/ UNCHANGED vars
  <2>1. UNCHANGED <<place, told>>
    BY <1>1 DEF Script, ConnectAgent, StartMock, Asserts, AwaitUntil, Step, PollRetries, PollSettles,
      CallComes, CallEnds, vars
  <2>2. QED
    BY <2>1, Unaccounted
<1>2. CASE Panics
  <2>1. verdict' = "panicked" /\ pc' = "flush" /\ lang' = lang
    BY <1>2 DEF Panics, Advance
  <2>2. QED
    BY <2>1 DEF AccountInv, AtEnd
<1>3. CASE BuildFails \/ BuildHost \/ RegisterScenario
  <2>1. pc \in {"build", "top"} /\ UNCHANGED <<lang, verdict>>
    BY <1>3 DEF BuildFails, BuildHost, RegisterScenario, NextFile, told
  <2>2. QED
    BY <1>3, <2>1, BuildSteps DEF AccountInv, AtEnd
<1>4. CASE TopLevelEnds
  <2>1. pc = "top" /\ UNCHANGED <<lang, verdict>>
    BY <1>4 DEF TopLevelEnds, TopLevelSingle, TopLevelError, Defer, NextFile
  <2>2. QED
    BY <1>4, <2>1, TopLevelStep DEF AccountInv, AtEnd
<1>5. CASE SuiteStarts
  <2>1. pc \in {"build", "suite"} /\ UNCHANGED <<lang, verdict>>
    BY <1>5 DEF SuiteStarts, BetweenSuites, told
  <2>2. QED
    BY <1>5, <2>1, SuiteStartsStep DEF AccountInv, AtEnd
<1>6. CASE NotChosen \/ StaticSkip \/ RunScenario \/ SetupEnds \/ BodyEnds \/ TeardownEnds \/ ScenarioEnds
  <2>1. pc \in {"scenario", "setup", "body", "teardown", "report"} /\ UNCHANGED <<lang, verdict>>
    BY <1>6 DEF NotChosen, StaticSkip, RunScenario, SetupEnds, BodyEnds, TeardownEnds, ScenarioEnds, Advance, told
  <2>2. QED
    BY <1>6, <2>1, SuiteSteps DEF AccountInv, AtEnd
<1>7. CASE SuiteEnds
  <2>1. pc = "scenario" /\ UNCHANGED <<lang, verdict>>
    BY <1>7 DEF SuiteEnds, Advance
  <2>2. QED
    BY <1>7, <2>1, SuiteEndsStep DEF AccountInv, AtEnd
<1>8. CASE FilesEnd
  <2>1. pc \in {"build", "suite"} /\ UNCHANGED <<lang, verdict>>
    BY <1>8 DEF FilesEnd, BetweenSuites, Advance, told
  <2>2. QED
    BY <1>8, <2>1, FilesEndStep DEF AccountInv, AtEnd
<1>9. CASE FlushDone \/ FlushTimeout \/ Reap
  <2>1. pc' \in AtEnd /\ UNCHANGED <<lang, verdict>>
    BY <1>9 DEF FlushDone, FlushTimeout, Reap, Advance, told, AtEnd
  <2>2. QED
    BY <1>9, <2>1, LeaveSteps DEF AccountInv
<1>10. CASE RunEnd
  <2>1. pc' \in AtEnd /\ lang' = lang /\ (verdict = "panicked" => verdict' = "panicked")
    BY <1>10 DEF RunEnd, Advance, AtEnd
  <2>2. CASE verdict = "panicked"
    BY <2>1, <2>2 DEF AccountInv
  <2>3. CASE verdict # "panicked"
    <3>1. Books'
      BY <1>10, <2>3, RunEndStep DEF AccountInv
    <3>2. QED
      BY <2>1, <3>1 DEF AccountInv
  <2>4. QED
    BY <2>2, <2>3
<1>11. QED
  BY <1>1, <1>2, <1>3, <1>4, <1>5, <1>6, <1>7, <1>8, <1>9, <1>10 DEF Next, ScriptEnds, Runner

\* The books say what a run that ended by itself claims.
LEMMA BooksAccount == ASSUME Books, pc = "ended", verdict # "panicked" PROVE Accounted
<1>1. /\ InHand = {} /\ Seen = {programs[i] : i \in DOMAIN programs} /\ agg.files = Len(programs)
      /\ deferred = << >>
  BY AtTheEnd DEF AtEnd
<1>2. PutOff = {} /\ Seen = ToSet(programs)
  BY <1>1 DEF PutOff, ToSet
<1>3. Finished = ToSet(programs)
  BY <1>1, <1>2 DEF Books, Shares
<1>4. /\ PassedFiles \subseteq ToSet(programs) /\ IsFiniteSet(ToSet(programs))
      /\ Cardinality(ToSet(programs)) = Len(programs) /\ agg.passed_files = Cardinality(PassedFiles)
  BY <1>3, ProgramsCounted, PassedCounted DEF Books, Counts
<1>5. agg.passed_files = agg.files <=> PassedFiles = ToSet(programs)
  <2>1. Cardinality(ToSet(programs)) = Cardinality(PassedFiles) => ToSet(programs) = PassedFiles
    BY <1>4, FS_Subset
  <2>2. QED
    BY <1>1, <1>4, <2>1
<1>6. \A f \in Files : f \notin Finished => reports[f] = << >>
  BY <1>1 DEF Books, Records
<1>7. agg.scenarios = 0 => \A f \in Files : reports[f] = << >>
  BY <1>6 DEF Books, Counts
<1>8. \A f \in Finished : Accurate(f)
  BY DEF Books, Records
<1>9. \A f \in Files :
        reports[f] # << >> => Whole(f) /\ (verdicts[f] = "passed" <=> "failed" \notin Outcomes(f))
  BY <1>6, <1>8 DEF Accurate
<1>10. \A f \in PassedFiles : Disk[f].infos # << >> => Whole(f)
  BY <1>8 DEF Accurate, PassedFiles, Finished
<1>11. /\ verdict = "ok" => PassedFiles = ToSet(programs)
       /\ verdict # "ok" => PassedFiles # ToSet(programs) \/ (IsActive(filters) /\ \A f \in Files : reports[f] = << >>)
  BY <1>5, <1>7 DEF Books, Concluded
<1>12. QED
  BY <1>3, <1>4, <1>9, <1>10, <1>11 DEF Accounted, Finished

\* A run that ends by itself accounts for every file and scenario it was given, and
\* passes just when they do (engine/run.rs: run, run_files, run_suite).
THEOREM AllAccounted == Spec => []Accounted
<1>1. AccountInv => Accounted
  BY BooksAccount DEF AccountInv, Accounted
<1>2. QED
  BY InitAccount, AccountStep, <1>1, PTL DEF Spec
=============================================================================
