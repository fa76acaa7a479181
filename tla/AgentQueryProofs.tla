-------------------------- MODULE AgentQueryProofs --------------------------
(***************************************************************************)
(* Proofs about AgentQuery, for every set of callers and kinds, any number *)
(* of queries and any capacity of the pipes: its invariants, and that it   *)
(* implements AgentRpc.                                                    *)
(***************************************************************************)
EXTENDS AgentQuery, TLAPS

(***************************************************************************)
(* What the queues return.                                                 *)
(***************************************************************************)
\* Appending to a queue that has room keeps it typed and within its bound.
LEMMA AppendFits ==
  ASSUME NEW S, NEW s \in Seq(S), NEW m \in S, NEW N \in Nat, Len(s) < N
  PROVE  /\ Append(s, m) \in Seq(S)
         /\ Len(Append(s, m)) <= N
         /\ \A i \in 1 .. Len(Append(s, m)) :
              Append(s, m)[i] = m \/ (i \in 1 .. Len(s) /\ Append(s, m)[i] = s[i])
OBVIOUS

\* Taking the head keeps a queue typed, no longer, and with no new element.
LEMMA TailShrinks ==
  ASSUME NEW S, NEW s \in Seq(S), s # <<>>
  PROVE  /\ Head(s) \in S
         /\ Head(s) = s[1] /\ 1 \in 1 .. Len(s)
         /\ Tail(s) \in Seq(S)
         /\ Len(Tail(s)) <= Len(s)
         /\ \A i \in 1 .. Len(Tail(s)) : i + 1 \in 1 .. Len(s) /\ Tail(s)[i] = s[i + 1]
OBVIOUS

\* So does cutting it.
LEMMA PrefixShrinks ==
  ASSUME NEW S, NEW s \in Seq(S), NEW n \in 0 .. Len(s)
  PROVE  /\ SubSeq(s, 1, n) \in Seq(S)
         /\ Len(SubSeq(s, 1, n)) <= Len(s)
         /\ \A i \in 1 .. Len(SubSeq(s, 1, n)) : i \in 1 .. Len(s) /\ SubSeq(s, 1, n)[i] = s[i]
OBVIOUS

(***************************************************************************)
(* Type correctness.                                                       *)
(***************************************************************************)
\* Whatever is written to stdin stays within the pipe.
LEMMA WriteType ==
  ASSUME TypeOK, NEW m \in ToWorker, Write(m)
  PROVE  /\ stdin' \in Seq(ToWorker) /\ Len(stdin') <= InCap
         /\ \A i \in 1 .. Len(stdin') :
              stdin'[i] = m \/ (i \in 1 .. Len(stdin) /\ stdin'[i] = stdin[i])
<1>1. stdin \in Seq(ToWorker) /\ Len(stdin) <= InCap /\ InCap \in Nat
  BY AgentQueryAssumption DEF TypeOK
<1>2. CASE wproc = "gone"
  BY <1>1, <1>2 DEF Write
<1>3. CASE wproc # "gone"
  <2>1. Len(stdin) < InCap /\ stdin' = Append(stdin, m)
    BY <1>3 DEF Write
  <2>2. QED
    BY <1>1, <2>1, AppendFits
<1>4. QED
  BY <1>2, <1>3

\* Whatever the worker emits stays within its queue.
LEMMA EmitType ==
  ASSUME TypeOK, NEW m \in FromWorker, Emit(m)
  PROVE  /\ out' \in Seq(FromWorker) /\ Len(out') <= OutCap
         /\ \A i \in 1 .. Len(out') :
              out'[i] = m \/ (i \in 1 .. Len(out) /\ out'[i] = out[i])
<1>1. out \in Seq(FromWorker) /\ Len(out) <= OutCap /\ OutCap \in Nat
  BY AgentQueryAssumption DEF TypeOK
<1>2. CASE rpc = "done"
  BY <1>1, <1>2 DEF Emit
<1>3. CASE rpc # "done"
  <2>1. Len(out) < OutCap /\ out' = Append(out, m)
    BY <1>3 DEF Emit
  <2>2. QED
    BY <1>1, <2>1, AppendFits
<1>4. QED
  BY <1>2, <1>3

\* The empty queue fits any pipe.
LEMMA EmptyFits ==
  /\ <<>> \in Seq(ToWorker) /\ Len(<<>>) <= InCap
  /\ <<>> \in Seq(FromWorker) /\ Len(<<>>) <= OutCap
BY AgentQueryAssumption

\* The death of the worker only cuts the queues.
LEMMA KilledType ==
  ASSUME TypeOK, Killed
  PROVE  /\ stdin' = <<>> /\ stdin' \in Seq(ToWorker) /\ Len(stdin') <= InCap
         /\ out' \in Seq(FromWorker) /\ Len(out') <= OutCap
         /\ \A i \in 1 .. Len(out') : i \in 1 .. Len(out) /\ out'[i] = out[i]
         /\ wproc' = "gone" /\ UNCHANGED events
<1>1. PICK n \in 0 .. Len(out) : out' = SubSeq(out, 1, n)
  BY DEF Killed
<1>2. Len(out) \in Nat /\ Len(out) <= OutCap /\ Len(SubSeq(out, 1, n)) \in Nat
  BY DEF TypeOK
<1>3. QED
  BY <1>1, <1>2, PrefixShrinks, EmptyFits, AgentQueryAssumption DEF Killed, TypeOK

\* Every variable keeps its type and both queues their bound.
THEOREM TypeInvariant == Spec => []TypeOK
<1>1. Init => TypeOK
  <2> SUFFICES ASSUME Init PROVE TypeOK
    OBVIOUS
  <2>1. /\ locked \in BOOLEAN /\ dead \in BOOLEAN /\ ev_rx \in BOOLEAN
        /\ shutdown_sent \in BOOLEAN /\ next_id \in Nat /\ events \in Nat
    BY DEF Init
  <2>2. /\ stdin \in Seq(ToWorker) /\ Len(stdin) <= InCap
        /\ out \in Seq(FromWorker) /\ Len(out) <= OutCap
    BY EmptyFits DEF Init
  <2>3. /\ pc \in [Callers -> CallerPc] /\ qid \in [Callers -> Nat]
        /\ qkind \in [Callers -> Kinds] /\ got \in [Callers -> Kinds]
        /\ chan \in [Callers -> {"open", "value", "closed"}]
        /\ res \in [Callers -> Kinds \cup {None}] /\ pending \subseteq Entry
    BY DEF Init, CallerPc
  <2>4. QED
    BY <2>1, <2>2, <2>3 DEF Init, TypeOK
<1>2. TypeOK /\ [Next]_vars => TypeOK'
  <2> SUFFICES ASSUME TypeOK, [Next]_vars PROVE TypeOK'
    OBVIOUS
  <2> USE DEF TypeOK
  <2>1. ASSUME NEW c \in Callers, NEW k \in Kinds, QueryCall(c, k) PROVE TypeOK'
    BY <2>1 DEF QueryCall, CallerPc, reader, owner, worker
  <2>2. ASSUME NEW c \in Callers, QueryCheck(c) PROVE TypeOK'
    <3>0. UNCHANGED <<qkind, chan, got, pending, reader, owner, worker>>
      BY <2>2 DEF QueryCheck
    <3>1. CASE dead
      <4>1. Return(c, None) /\ UNCHANGED <<qid, next_id>>
        BY <2>2, <3>1 DEF QueryCheck
      <4>2. QED
        BY <3>0, <4>1 DEF Return, CallerPc, reader, owner, worker
    <3>2. CASE ~dead
      <4>1. /\ pc' = [pc EXCEPT ![c] = "register"] /\ qid' = [qid EXCEPT ![c] = next_id]
            /\ next_id' = next_id + 1 /\ UNCHANGED res
        BY <2>2, <3>2 DEF QueryCheck
      <4>2. QED
        BY <3>0, <4>1 DEF CallerPc, reader, owner, worker
    <3>3. QED
      BY <3>1, <3>2
  <2>3. ASSUME NEW c \in Callers, QueryRegister(c) PROVE TypeOK'
    <3>0. UNCHANGED <<qid, qkind, got, next_id, reader, owner, worker>>
      BY <2>3 DEF QueryRegister
    <3>1. CASE dead
      <4>1. Return(c, None) /\ UNCHANGED <<chan, pending>>
        BY <2>3, <3>1 DEF QueryRegister
      <4>2. QED
        BY <3>0, <4>1 DEF Return, CallerPc, reader, owner, worker
    <3>2. CASE ~dead
      <4>1. Enlist(c)
        BY <2>3, <3>2 DEF QueryRegister
      <4>2. QED
        BY <3>0, <4>1 DEF Enlist, CallerPc, Entry, reader, owner, worker
    <3>3. QED
      BY <3>1, <3>2
  <2>4. ASSUME NEW c \in Callers, QuerySend(c) PROVE TypeOK'
    <3>1. [type |-> "query", id |-> qid[c], kind |-> qkind[c]] \in ToWorker
      BY DEF ToWorker
    <3>2. stdin' \in Seq(ToWorker) /\ Len(stdin') <= InCap
      BY <2>4, <3>1, WriteType DEF QuerySend
    <3>3. QED
      BY <2>4, <3>2 DEF QuerySend, CallerPc, reader, owner
  <2>5. ASSUME NEW c \in Callers, QueryReply(c) PROVE TypeOK'
    BY <2>5 DEF QueryReply, Return, CallerPc, reader, owner, worker
  <2>6. ASSUME NEW c \in Callers, QueryClosed(c) PROVE TypeOK'
    BY <2>6 DEF QueryClosed, CallerPc, reader, owner, worker
  <2>7. ASSUME NEW c \in Callers, QueryTimeout(c) PROVE TypeOK'
    BY <2>7 DEF QueryTimeout, CallerPc, reader, owner, worker
  <2>8. ASSUME NEW c \in Callers, QueryExpire(c) PROVE TypeOK'
    BY <2>8 DEF QueryExpire, Return, CallerPc, Entry, reader, owner, worker
  <2>9. ASSUME ReadReady PROVE TypeOK'
    <3>1. Tail(out) \in Seq(FromWorker) /\ Len(Tail(out)) <= OutCap
      BY <2>9, TailShrinks, AgentQueryAssumption DEF ReadReady
    <3>2. QED
      BY <2>9, <3>1 DEF ReadReady, client, owner
  <2>10. ASSUME ReadEvent PROVE TypeOK'
    <3>1. Tail(out) \in Seq(FromWorker) /\ Len(Tail(out)) <= OutCap
      BY <2>10, TailShrinks, AgentQueryAssumption DEF ReadEvent
    <3>2. QED
      BY <2>10, <3>1 DEF ReadEvent, client, owner
  <2>11. ASSUME ReadReply PROVE TypeOK'
    <3>1. Tail(out) \in Seq(FromWorker) /\ Len(Tail(out)) <= OutCap /\ Head(out) \in FromWorker
      BY <2>11, TailShrinks, AgentQueryAssumption DEF ReadReply
    <3>2. Head(out).kind \in Kinds
      BY <2>11, <3>1 DEF ReadReply, FromWorker
    <3>3. QED
      BY <2>11, <3>1, <3>2 DEF ReadReply, Entry, reader, owner
  <2>12. ASSUME ReadEof PROVE TypeOK'
    BY <2>12 DEF ReadEof, client, owner, worker
  <2>13. ASSUME DrainBegin PROVE TypeOK'
    BY <2>13 DEF DrainBegin, client, owner, worker
  <2>14. ASSUME DrainEnd PROVE TypeOK'
    BY <2>14 DEF DrainEnd, owner, worker
  <2>15. ASSUME SpawnOk PROVE TypeOK'
    BY <2>15, SMTT(60) DEF SpawnOk, client, reader, worker
  <2>16. ASSUME DropReceiver PROVE TypeOK'
    <3>1. ev_rx' = FALSE /\ UNCHANGED <<client, reader, spawn, drop_pc, shutdown_sent, worker>>
      BY <2>16 DEF DropReceiver
    <3>2. ev_rx' \in BOOLEAN
      BY <3>1
    <3>3. UNCHANGED <<client, reader, spawn, drop_pc, shutdown_sent, worker>>
      BY <3>1
    <3>4. QED
      BY <3>2, <3>3 DEF client, reader, worker
  <2>17. ASSUME DropBegin PROVE TypeOK'
    BY <2>17, SMTT(60) DEF DropBegin, client, reader, worker
  <2>18. ASSUME DropReaped PROVE TypeOK'
    BY <2>18, SMTT(60) DEF DropReaped, client, reader, worker
  <2>19. ASSUME SpawnFail PROVE TypeOK'
    <3>1. CASE wproc = "gone"
      BY <2>19, <3>1 DEF SpawnFail, client, reader, worker
    <3>2. CASE wproc # "gone"
      BY <2>19, <3>2, KilledType DEF SpawnFail, client, reader, worker
    <3>3. QED
      BY <3>1, <3>2
  <2>20. ASSUME RequestShutdown PROVE TypeOK'
    <3>1. [type |-> "shutdown"] \in ToWorker
      BY DEF ToWorker
    <3>2. stdin' \in Seq(ToWorker) /\ Len(stdin') <= InCap
      BY <2>20, <3>1, WriteType DEF RequestShutdown
    <3>3. QED
      BY <2>20, <3>2 DEF RequestShutdown, client, reader
  <2>21. ASSUME DropSend PROVE TypeOK'
    <3>1. [type |-> "shutdown"] \in ToWorker
      BY DEF ToWorker
    <3>2. stdin' \in Seq(ToWorker) /\ Len(stdin') <= InCap
      <4>1. CASE shutdown_sent
        BY <2>21, <4>1 DEF DropSend
      <4>2. CASE ~shutdown_sent
        BY <2>21, <4>2, <3>1, WriteType DEF DropSend
      <4>3. QED
        BY <4>1, <4>2
    <3>3. UNCHANGED <<client, reader, ev_rx, spawn, out, wproc, events>> /\ drop_pc' = "waiting"
            /\ shutdown_sent' = TRUE
      BY <2>21 DEF DropSend
    <3>4. QED
      BY <3>2, <3>3 DEF client, reader
  <2>22. ASSUME DropKill PROVE TypeOK'
    BY <2>22, KilledType DEF DropKill, client, reader
  <2>23. ASSUME WorkerCrash PROVE TypeOK'
    BY <2>23, KilledType DEF WorkerCrash, client, reader, owner
  <2>24. ASSUME WorkerReady PROVE TypeOK'
    <3>1. [type |-> "ready"] \in FromWorker
      BY DEF FromWorker
    <3>2. out' \in Seq(FromWorker) /\ Len(out') <= OutCap
      BY <2>24, <3>1, EmitType DEF WorkerReady
    <3>3. QED
      BY <2>24, <3>2 DEF WorkerReady, client, reader, owner
  <2>25. ASSUME WorkerEvent PROVE TypeOK'
    <3>1. [type |-> "event"] \in FromWorker
      BY DEF FromWorker
    <3>2. out' \in Seq(FromWorker) /\ Len(out') <= OutCap
      BY <2>25, <3>1, EmitType DEF WorkerEvent
    <3>3. QED
      BY <2>25, <3>2 DEF WorkerEvent, client, reader, owner
  <2>26. ASSUME WorkerServe PROVE TypeOK'
    <3>1. Tail(stdin) \in Seq(ToWorker) /\ Len(Tail(stdin)) <= InCap /\ Head(stdin) \in ToWorker
      BY <2>26, TailShrinks, AgentQueryAssumption DEF WorkerServe
    <3>2. [type |-> "reply", id |-> Head(stdin).id, kind |-> Head(stdin).kind] \in FromWorker
      BY <2>26, <3>1 DEF WorkerServe, ToWorker, FromWorker
    <3>3. out' \in Seq(FromWorker) /\ Len(out') <= OutCap
      BY <2>26, <3>2, EmitType DEF WorkerServe
    <3>4. QED
      BY <2>26, <3>1, <3>3 DEF WorkerServe, client, reader, owner
  <2>27. ASSUME WorkerShutdown PROVE TypeOK'
    BY <2>27 DEF WorkerShutdown, client, reader, owner
  <2>28. ASSUME WorkerExit PROVE TypeOK'
    BY <2>28, EmptyFits DEF WorkerExit, client, reader, owner
  <2>29. ASSUME WorkerHang PROVE TypeOK'
    BY <2>29 DEF WorkerHang, client, reader, owner
  <2>30. CASE UNCHANGED vars
    BY <2>30 DEF vars, client, reader, owner, worker
  <2>31. QED
    BY <2>1, <2>2, <2>3, <2>4, <2>5, <2>6, <2>7, <2>8, <2>9, <2>10, <2>11,
       <2>12, <2>13, <2>14, <2>15, <2>16, <2>17, <2>18, <2>19, <2>20, <2>21,
       <2>22, <2>23, <2>24, <2>25, <2>26, <2>27, <2>28, <2>29, <2>30
    DEF Next, QueryStep, Reader, Owner, Worker, Terminated
<1>3. QED
  BY <1>1, <1>2, PTL DEF Spec

(***************************************************************************)
(* The inductive invariant.                                                *)
(***************************************************************************)
Active   == {"register", "send", "wait", "expire"}
Enlisted == {"send", "wait", "expire"}

\* The reader's place decides the lock, dead, and that the map is empty at the end.
DrainInv ==
  /\ locked <=> rpc = "drain"
  /\ dead <=> rpc \in {"drain", "done"}
  /\ rpc = "done" => pending = {}

\* An open channel has its Sender in the map.
OpenIsPending ==
  \A c \in Callers :
    pc[c] \in Enlisted /\ chan[c] = "open" => [id |-> qid[c], to |-> c] \in pending

\* Ids in use were given out, each to one caller.
IdInv ==
  /\ \A c \in Callers : pc[c] \in Active => qid[c] < next_id
  /\ \A c, d \in Callers :
       pc[c] \in Active /\ pc[d] \in Active /\ qid[c] = qid[d] => c = d

\* A message under the id of a query in progress is about what it asks.
Matches(m) ==
  m.type \in {"query", "reply"} =>
    /\ m.id < next_id
    /\ \A c \in Callers : pc[c] \in Active /\ qid[c] = m.id => qkind[c] = m.kind

MessageInv ==
  /\ \A i \in 1 .. Len(stdin) : Matches(stdin[i])
  /\ \A i \in 1 .. Len(out) : Matches(out[i])

ValueInv ==
  \A c \in Callers : pc[c] \in Enlisted /\ chan[c] = "value" => got[c] = qkind[c]

IInv ==
  /\ DrainInv /\ PendingIsLive /\ OpenIsPending
  /\ IdInv /\ MessageInv /\ ValueInv /\ NoProcessLeftBehind

\* Nothing about the callers changes when their variables do not.
LEMMA ClientKept ==
  ASSUME IInv, UNCHANGED client
  PROVE  PendingIsLive' /\ OpenIsPending' /\ IdInv' /\ ValueInv'
BY DEF IInv, client, PendingIsLive, OpenIsPending, IdInv, ValueInv, Active, Enlisted

LEMMA DrainKept ==
  ASSUME IInv, UNCHANGED reader, rpc # "done" \/ pending' = {}
  PROVE  DrainInv'
BY DEF IInv, reader, DrainInv

LEMMA ProcessKept ==
  ASSUME IInv, UNCHANGED <<spawn, drop_pc>>, wproc' = wproc \/ wproc' = "gone" \/ wproc # "gone"
  PROVE  NoProcessLeftBehind'
BY DEF IInv, NoProcessLeftBehind

\* Old messages, and messages that carry no id, still match.
LEMMA MessagesKept ==
  ASSUME IInv, UNCHANGED <<pc, qid, qkind, next_id>>,
         \A i \in 1 .. Len(stdin') :
           (\E j \in 1 .. Len(stdin) : stdin'[i] = stdin[j])
             \/ stdin'[i].type \notin {"query", "reply"},
         \A i \in 1 .. Len(out') :
           (\E j \in 1 .. Len(out) : out'[i] = out[j]) \/ Matches(out'[i])
  PROVE  MessageInv'
BY DEF IInv, MessageInv, Matches, Active

(***************************************************************************)
(* Every step keeps the inductive invariant.                               *)
(***************************************************************************)
LEMMA Inductive ==
  ASSUME TypeOK, IInv, [Next]_vars
  PROVE  IInv'
<1>1. ASSUME NEW c \in Callers, NEW k \in Kinds, QueryCall(c, k) PROVE IInv'
  <2>1. UNCHANGED <<reader, owner, worker>>
    BY <1>1 DEF QueryCall
  <2>2. PendingIsLive' /\ OpenIsPending' /\ ValueInv'
    BY <1>1 DEF QueryCall, TypeOK, Entry, IInv, PendingIsLive, OpenIsPending, ValueInv, Enlisted
  <2>3. IdInv'
    BY <1>1 DEF QueryCall, TypeOK, IInv, IdInv, Active
  <2>4. MessageInv'
    BY <1>1, <2>1 DEF QueryCall, TypeOK, IInv, MessageInv, Matches, Active, worker
  <2>5. DrainInv'
    BY <1>1, <2>1, DrainKept DEF QueryCall, IInv, DrainInv
  <2>6. NoProcessLeftBehind'
    BY <2>1, ProcessKept DEF owner, worker
  <2>7. QED
    BY <2>2, <2>3, <2>4, <2>5, <2>6 DEF IInv
<1>2. ASSUME NEW c \in Callers, QueryCheck(c) PROVE IInv'
  <2>1. UNCHANGED <<reader, owner, worker>>
    BY <1>2 DEF QueryCheck
  <2>2. NoProcessLeftBehind'
    BY <2>1, ProcessKept DEF owner, worker
  <2>3. CASE dead
    <3>1. /\ pc[c] = "check" /\ pc' = [pc EXCEPT ![c] = "idle"]
          /\ UNCHANGED <<qid, qkind, chan, got, pending, next_id>>
      BY <1>2, <2>3 DEF QueryCheck, Return
    <3>2. PendingIsLive' /\ OpenIsPending' /\ ValueInv'
      BY <1>2, <3>1 DEF QueryCheck, TypeOK, Entry, IInv, PendingIsLive, OpenIsPending, ValueInv, Enlisted
    <3>3. IdInv'
      BY <1>2, <3>1 DEF QueryCheck, TypeOK, IInv, IdInv, Active
    <3>4. MessageInv'
      BY <1>2, <2>1, <3>1 DEF QueryCheck, TypeOK, IInv, IdInv, MessageInv, Matches, Active, worker
    <3>5. DrainInv'
      BY <1>2, <2>1, <3>1, DrainKept DEF QueryCheck, IInv, DrainInv
    <3>6. QED
      BY <2>2, <3>2, <3>3, <3>4, <3>5 DEF IInv
  <2>4. CASE ~dead
    <3>1. /\ pc[c] = "check" /\ pc' = [pc EXCEPT ![c] = "register"]
          /\ qid' = [qid EXCEPT ![c] = next_id] /\ next_id' = next_id + 1
          /\ UNCHANGED <<qkind, chan, got, pending>>
      BY <1>2, <2>4 DEF QueryCheck
    <3>2. PendingIsLive' /\ OpenIsPending' /\ ValueInv'
      BY <1>2, <3>1 DEF QueryCheck, TypeOK, Entry, IInv, PendingIsLive, OpenIsPending, ValueInv, Enlisted
    <3>3. IdInv'
      BY <1>2, <3>1 DEF QueryCheck, TypeOK, IInv, IdInv, Active
    <3>4. MessageInv'
      <4>1. \A x \in ToWorker \cup FromWorker : Matches(x) => Matches(x)'
        <5> SUFFICES ASSUME NEW x \in ToWorker \cup FromWorker, Matches(x),
                            x.type \in {"query", "reply"}
                     PROVE  /\ x.id < next_id'
                            /\ \A d \in Callers :
                                 pc'[d] \in Active /\ qid'[d] = x.id => qkind'[d] = x.kind
          BY <3>1 DEF Matches
        <5>1. x.id \in Nat /\ x.id < next_id /\ next_id \in Nat
          BY DEF ToWorker, FromWorker, Matches, TypeOK
        <5>2. QED
          BY <5>1, <3>1 DEF Matches, TypeOK, Active
      <4>2. UNCHANGED <<stdin, out>>
        BY <2>1 DEF worker
      <4>3. /\ \A i \in 1 .. Len(stdin) : stdin[i] \in ToWorker
            /\ \A i \in 1 .. Len(out) : out[i] \in FromWorker
        BY DEF TypeOK
      <4>4. /\ \A i \in 1 .. Len(stdin) : Matches(stdin[i])
            /\ \A i \in 1 .. Len(out) : Matches(out[i])
        BY DEF IInv, MessageInv
      <4>5. QED
        BY <4>1, <4>2, <4>3, <4>4 DEF MessageInv
    <3>5. DrainInv'
      <4>1. rpc # "done"
        BY <2>4 DEF IInv, DrainInv
      <4>2. QED
        BY <2>1, <4>1, DrainKept
    <3>6. QED
      BY <2>2, <3>2, <3>3, <3>4, <3>5 DEF IInv
  <2>5. QED
    BY <2>3, <2>4
<1>3. ASSUME NEW c \in Callers, QueryRegister(c) PROVE IInv'
  <2>1. UNCHANGED <<reader, owner, worker>>
    BY <1>3 DEF QueryRegister
  <2>2. NoProcessLeftBehind'
    BY <2>1, ProcessKept DEF owner, worker
  <2>3. CASE dead
    <3>1. /\ pc[c] = "register" /\ pc' = [pc EXCEPT ![c] = "idle"]
          /\ UNCHANGED <<qid, qkind, chan, got, pending, next_id>>
      BY <1>3, <2>3 DEF QueryRegister, Return
    <3>2. PendingIsLive' /\ OpenIsPending' /\ ValueInv'
      BY <1>3, <3>1 DEF QueryRegister, TypeOK, Entry, IInv, PendingIsLive, OpenIsPending, ValueInv, Enlisted
    <3>3. IdInv'
      BY <1>3, <3>1 DEF QueryRegister, TypeOK, IInv, IdInv, Active
    <3>4. MessageInv'
      BY <1>3, <2>1, <3>1 DEF QueryRegister, TypeOK, IInv, IdInv, MessageInv, Matches, Active, worker
    <3>5. DrainInv'
      BY <1>3, <2>1, <3>1, DrainKept DEF QueryRegister, IInv, DrainInv
    <3>6. QED
      BY <2>2, <3>2, <3>3, <3>4, <3>5 DEF IInv
  <2>4. CASE ~dead
    <3>1. /\ pc[c] = "register" /\ pc' = [pc EXCEPT ![c] = "send"]
          /\ pending' = {p \in pending : p.id # qid[c]} \cup {[id |-> qid[c], to |-> c]}
          /\ chan' = [x \in Callers |->
                        IF x = c THEN "open"
                        ELSE IF [id |-> qid[c], to |-> x] \in pending THEN "closed"
                        ELSE chan[x]]
          /\ UNCHANGED <<qid, qkind, got, next_id>>
      BY <1>3, <2>4 DEF QueryRegister, Enlist
    <3>2. PendingIsLive' /\ OpenIsPending' /\ ValueInv'
      BY <1>3, <3>1 DEF QueryRegister, TypeOK, Entry, IInv, PendingIsLive, OpenIsPending, ValueInv, Enlisted
    <3>3. IdInv'
      BY <1>3, <3>1 DEF QueryRegister, TypeOK, IInv, IdInv, Active
    <3>4. MessageInv'
      BY <1>3, <2>1, <3>1 DEF QueryRegister, TypeOK, IInv, IdInv, MessageInv, Matches, Active, worker
    <3>5. DrainInv'
      <4>1. rpc # "done"
        BY <2>4 DEF IInv, DrainInv
      <4>2. QED
        BY <2>1, <4>1, DrainKept
    <3>6. QED
      BY <2>2, <3>2, <3>3, <3>4, <3>5 DEF IInv
  <2>5. QED
    BY <2>3, <2>4
<1>4. ASSUME NEW c \in Callers, QuerySend(c) PROVE IInv'
  <2>1. /\ UNCHANGED <<reader, owner, out, wproc>>
        /\ pc[c] = "send" /\ pc' = [pc EXCEPT ![c] = "wait"]
        /\ UNCHANGED <<qid, qkind, chan, got, pending, next_id>>
    BY <1>4 DEF QuerySend
  <2> DEFINE m == [type |-> "query", id |-> qid[c], kind |-> qkind[c]]
  <2>2. m \in ToWorker /\ Write(m)
    BY <1>4 DEF QuerySend, ToWorker, TypeOK
  <2>3. PendingIsLive' /\ OpenIsPending' /\ ValueInv'
    BY <2>1 DEF TypeOK, Entry, IInv, PendingIsLive, OpenIsPending, ValueInv, Enlisted
  <2>4. IdInv'
    BY <2>1 DEF TypeOK, IInv, IdInv, Active
  <2>5. MessageInv'
    <3>1. Matches(m)
      BY <2>1 DEF Matches, IInv, IdInv, TypeOK, Active
    <3>2. \A i \in 1 .. Len(stdin') : Matches(stdin'[i])
      BY <2>2, <3>1, WriteType DEF IInv, MessageInv
    <3>3. \A x : Matches(x) => Matches(x)'
      BY <2>1 DEF Matches, TypeOK, Active
    <3>4. QED
      BY <2>1, <3>2, <3>3 DEF IInv, MessageInv, Matches
  <2>6. DrainInv'
    BY <2>1, DrainKept DEF IInv, DrainInv
  <2>7. NoProcessLeftBehind'
    BY <2>1, ProcessKept DEF owner
  <2>8. QED
    BY <2>3, <2>4, <2>5, <2>6, <2>7 DEF IInv
<1>5. ASSUME NEW c \in Callers, QueryReply(c) PROVE IInv'
  <2>1. UNCHANGED <<reader, owner, worker>>
    BY <1>5 DEF QueryReply
  <2>2. PendingIsLive' /\ OpenIsPending' /\ ValueInv'
    BY <1>5 DEF QueryReply, Return, TypeOK, Entry, IInv, PendingIsLive, OpenIsPending, ValueInv, Enlisted
  <2>3. IdInv'
    BY <1>5 DEF QueryReply, Return, TypeOK, IInv, IdInv, Active
  <2>4. MessageInv'
    BY <1>5, <2>1 DEF QueryReply, Return, TypeOK, IInv, MessageInv, Matches, Active, worker
  <2>5. DrainInv'
    BY <1>5, <2>1, DrainKept DEF QueryReply, Return, IInv, DrainInv
  <2>6. NoProcessLeftBehind'
    BY <2>1, ProcessKept DEF owner, worker
  <2>7. QED
    BY <2>2, <2>3, <2>4, <2>5, <2>6 DEF IInv
<1>6. ASSUME NEW c \in Callers, QueryClosed(c) PROVE IInv'
  <2>1. UNCHANGED <<reader, owner, worker>>
    BY <1>6 DEF QueryClosed
  <2>2. PendingIsLive' /\ OpenIsPending' /\ ValueInv'
    BY <1>6 DEF QueryClosed, TypeOK, Entry, IInv, PendingIsLive, OpenIsPending, ValueInv, Enlisted
  <2>3. IdInv'
    BY <1>6 DEF QueryClosed, TypeOK, IInv, IdInv, Active
  <2>4. MessageInv'
    BY <1>6, <2>1 DEF QueryClosed, TypeOK, IInv, MessageInv, Matches, Active, worker
  <2>5. DrainInv'
    BY <1>6, <2>1, DrainKept DEF QueryClosed, IInv, DrainInv
  <2>6. NoProcessLeftBehind'
    BY <2>1, ProcessKept DEF owner, worker
  <2>7. QED
    BY <2>2, <2>3, <2>4, <2>5, <2>6 DEF IInv
<1>7. ASSUME NEW c \in Callers, QueryTimeout(c) PROVE IInv'
  <2>1. UNCHANGED <<reader, owner, worker>>
    BY <1>7 DEF QueryTimeout
  <2>2. PendingIsLive' /\ OpenIsPending' /\ ValueInv'
    BY <1>7 DEF QueryTimeout, TypeOK, Entry, IInv, PendingIsLive, OpenIsPending, ValueInv, Enlisted
  <2>3. IdInv'
    BY <1>7 DEF QueryTimeout, TypeOK, IInv, IdInv, Active
  <2>4. MessageInv'
    BY <1>7, <2>1 DEF QueryTimeout, TypeOK, IInv, MessageInv, Matches, Active, worker
  <2>5. DrainInv'
    BY <1>7, <2>1, DrainKept DEF QueryTimeout, IInv, DrainInv
  <2>6. NoProcessLeftBehind'
    BY <2>1, ProcessKept DEF owner, worker
  <2>7. QED
    BY <2>2, <2>3, <2>4, <2>5, <2>6 DEF IInv
<1>8. ASSUME NEW c \in Callers, QueryExpire(c) PROVE IInv'
  <2>1. UNCHANGED <<reader, owner, worker>>
    BY <1>8 DEF QueryExpire
  <2>2. PendingIsLive' /\ OpenIsPending' /\ ValueInv'
    BY <1>8 DEF QueryExpire, Return, TypeOK, Entry, IInv, PendingIsLive, OpenIsPending, ValueInv, Enlisted
  <2>3. IdInv'
    BY <1>8 DEF QueryExpire, Return, TypeOK, IInv, IdInv, Active
  <2>4. MessageInv'
    BY <1>8, <2>1 DEF QueryExpire, Return, TypeOK, IInv, MessageInv, Matches, Active, worker
  <2>5. DrainInv'
    BY <1>8, <2>1, DrainKept DEF QueryExpire, Return, IInv, DrainInv
  <2>6. NoProcessLeftBehind'
    BY <2>1, ProcessKept DEF owner, worker
  <2>7. QED
    BY <2>2, <2>3, <2>4, <2>5, <2>6 DEF IInv
<1>9. ASSUME ReadReady PROVE IInv'
  <2>1. UNCHANGED client
    BY <1>9 DEF ReadReady
  <2>2. DrainInv'
    BY <1>9, <2>1 DEF ReadReady, IInv, DrainInv, client
  <2>3. NoProcessLeftBehind'
    BY <1>9, ProcessKept DEF ReadReady, owner, worker
  <2>4. MessageInv'
    <3>1. \A i \in 1 .. Len(out') : \E j \in 1 .. Len(out) : out'[i] = out[j]
      BY <1>9, TailShrinks DEF ReadReady, TypeOK
    <3>2. QED
      BY <1>9, <2>1, <3>1, MessagesKept DEF ReadReady, client
  <2>5. QED
    BY <2>1, <2>2, <2>3, <2>4, ClientKept DEF IInv
<1>10. ASSUME ReadEvent PROVE IInv'
  <2>1. UNCHANGED client
    BY <1>10 DEF ReadEvent
  <2>2. DrainInv'
    BY <1>10, <2>1 DEF ReadEvent, IInv, DrainInv, client
  <2>3. NoProcessLeftBehind'
    BY <1>10, ProcessKept DEF ReadEvent, owner, worker
  <2>4. MessageInv'
    <3>1. \A i \in 1 .. Len(out') : \E j \in 1 .. Len(out) : out'[i] = out[j]
      BY <1>10, TailShrinks DEF ReadEvent, TypeOK
    <3>2. QED
      BY <1>10, <2>1, <3>1, MessagesKept DEF ReadEvent, client
  <2>5. QED
    BY <2>1, <2>2, <2>3, <2>4, ClientKept DEF IInv
<1>11. ASSUME ReadReply PROVE IInv'
  <2> DEFINE m == Head(out)
  <2>1. /\ UNCHANGED <<pc, qid, qkind, next_id, reader, owner, stdin, wproc>>
        /\ rpc = "read" /\ out # <<>> /\ out' = Tail(out)
        /\ pending' = {p \in pending : p.id # m.id}
        /\ chan' = [c \in Callers |->
                      IF [id |-> m.id, to |-> c] \in pending THEN "value" ELSE chan[c]]
        /\ got' = [c \in Callers |->
                     IF [id |-> m.id, to |-> c] \in pending THEN m.kind ELSE got[c]]
    BY <1>11 DEF ReadReply
  <2>2. Matches(m) /\ m.type = "reply"
    BY <1>11, <2>1, TailShrinks DEF ReadReply, IInv, MessageInv, TypeOK
  <2>3. PendingIsLive' /\ OpenIsPending'
    BY <2>1 DEF TypeOK, Entry, IInv, PendingIsLive, OpenIsPending, Enlisted
  <2>4. ValueInv'
    BY <2>1, <2>2 DEF TypeOK, Entry, IInv, PendingIsLive, ValueInv, Matches, Enlisted, Active
  <2>5. IdInv'
    BY <2>1 DEF IInv, IdInv, Active
  <2>6. MessageInv'
    <3>1. \A i \in 1 .. Len(out') : \E j \in 1 .. Len(out) : out'[i] = out[j]
      BY <2>1, TailShrinks DEF TypeOK
    <3>2. QED
      BY <2>1, <3>1, MessagesKept
  <2>7. DrainInv' /\ NoProcessLeftBehind'
    BY <2>1, DrainKept, ProcessKept DEF reader, owner
  <2>8. QED
    BY <2>3, <2>4, <2>5, <2>6, <2>7 DEF IInv
<1>12. ASSUME ReadEof PROVE IInv'
  <2>1. UNCHANGED client
    BY <1>12 DEF ReadEof
  <2>2. DrainInv'
    BY <1>12, <2>1 DEF ReadEof, IInv, DrainInv, client
  <2>3. NoProcessLeftBehind'
    BY <1>12, ProcessKept DEF ReadEof, owner, worker
  <2>4. MessageInv'
    BY <1>12, <2>1, MessagesKept DEF ReadEof, client, worker
  <2>5. QED
    BY <2>1, <2>2, <2>3, <2>4, ClientKept DEF IInv
<1>13. ASSUME DrainBegin PROVE IInv'
  <2>1. UNCHANGED client
    BY <1>13 DEF DrainBegin
  <2>2. DrainInv'
    BY <1>13, <2>1 DEF DrainBegin, IInv, DrainInv, client
  <2>3. NoProcessLeftBehind'
    BY <1>13, ProcessKept DEF DrainBegin, owner, worker
  <2>4. MessageInv'
    BY <1>13, <2>1, MessagesKept DEF DrainBegin, client, worker
  <2>5. QED
    BY <2>1, <2>2, <2>3, <2>4, ClientKept DEF IInv
<1>14. ASSUME DrainEnd PROVE IInv'
  <2>1. /\ UNCHANGED <<pc, qid, qkind, got, next_id, dead, owner, worker>>
        /\ rpc = "drain" /\ rpc' = "done" /\ locked' = FALSE /\ pending' = {}
        /\ chan' = [c \in Callers |->
                      IF \E p \in pending : p.to = c THEN "closed" ELSE chan[c]]
    BY <1>14 DEF DrainEnd
  <2>2. PendingIsLive' /\ OpenIsPending' /\ ValueInv'
    BY <2>1 DEF TypeOK, Entry, IInv, PendingIsLive, OpenIsPending, ValueInv, Enlisted
  <2>3. IdInv'
    BY <2>1 DEF IInv, IdInv, Active
  <2>4. MessageInv'
    BY <2>1, MessagesKept DEF worker
  <2>5. DrainInv'
    BY <2>1 DEF IInv, DrainInv
  <2>6. NoProcessLeftBehind'
    BY <2>1, ProcessKept DEF owner, worker
  <2>7. QED
    BY <2>2, <2>3, <2>4, <2>5, <2>6 DEF IInv
<1>15. ASSUME SpawnOk PROVE IInv'
  <2>1. UNCHANGED client
    BY <1>15 DEF SpawnOk
  <2>2. DrainInv'
    BY <1>15, <2>1, DrainKept DEF SpawnOk, IInv, DrainInv, client
  <2>3. NoProcessLeftBehind'
    BY <1>15 DEF SpawnOk, IInv, NoProcessLeftBehind, worker
  <2>4. MessageInv'
    BY <1>15, <2>1, MessagesKept DEF SpawnOk, client, worker
  <2>5. QED
    BY <2>1, <2>2, <2>3, <2>4, ClientKept DEF IInv
<1>16. ASSUME SpawnFail PROVE IInv'
  <2>1. UNCHANGED client
    BY <1>16 DEF SpawnFail
  <2>2. DrainInv'
    BY <1>16, <2>1, DrainKept DEF SpawnFail, IInv, DrainInv, client
  <2>3. NoProcessLeftBehind'
    BY <1>16 DEF SpawnFail, Killed, IInv, NoProcessLeftBehind, worker
  <2>4. MessageInv'
    <3>1. CASE wproc = "gone"
      BY <1>16, <2>1, <3>1, MessagesKept DEF SpawnFail, client, worker
    <3>2. CASE Killed
      <4>1. Len(stdin') = 0
        BY <3>2, KilledType
      <4>2. \A i \in 1 .. Len(out') : \E j \in 1 .. Len(out) : out'[i] = out[j]
        BY <3>2, KilledType
      <4>3. QED
        BY <2>1, <4>1, <4>2, MessagesKept DEF client
    <3>3. QED
      BY <1>16, <3>1, <3>2 DEF SpawnFail
  <2>5. QED
    BY <2>1, <2>2, <2>3, <2>4, ClientKept DEF IInv
<1>17. ASSUME DropReceiver PROVE IInv'
  <2>1. UNCHANGED client
    BY <1>17 DEF DropReceiver
  <2>2. DrainInv'
    BY <1>17, <2>1, DrainKept DEF DropReceiver, IInv, DrainInv, client
  <2>3. NoProcessLeftBehind'
    BY <1>17, ProcessKept DEF DropReceiver, owner, worker
  <2>4. MessageInv'
    BY <1>17, <2>1, MessagesKept DEF DropReceiver, client, worker
  <2>5. QED
    BY <2>1, <2>2, <2>3, <2>4, ClientKept DEF IInv
<1>18. ASSUME RequestShutdown PROVE IInv'
  <2>1. UNCHANGED client
    BY <1>18 DEF RequestShutdown
  <2>2. DrainInv'
    BY <1>18, <2>1, DrainKept DEF RequestShutdown, IInv, DrainInv, client
  <2>3. NoProcessLeftBehind'
    BY <1>18, ProcessKept DEF RequestShutdown, owner, worker
  <2>4. MessageInv'
    <3>1. [type |-> "shutdown"] \in ToWorker
      BY DEF ToWorker
    <3>2. UNCHANGED out /\ (UNCHANGED stdin \/ Write([type |-> "shutdown"]))
      BY <1>18 DEF RequestShutdown
    <3>3. \A i \in 1 .. Len(stdin') :
            (\E j \in 1 .. Len(stdin) : stdin'[i] = stdin[j])
              \/ stdin'[i].type \notin {"query", "reply"}
      BY <3>1, <3>2, WriteType
    <3>4. QED
      BY <2>1, <3>2, <3>3, MessagesKept DEF client
  <2>5. QED
    BY <2>1, <2>2, <2>3, <2>4, ClientKept DEF IInv
<1>19. ASSUME DropBegin PROVE IInv'
  <2>1. UNCHANGED client
    BY <1>19 DEF DropBegin
  <2>2. DrainInv'
    BY <1>19, <2>1, DrainKept DEF DropBegin, IInv, DrainInv, client
  <2>3. NoProcessLeftBehind'
    BY <1>19 DEF DropBegin, IInv, NoProcessLeftBehind, worker
  <2>4. MessageInv'
    BY <1>19, <2>1, MessagesKept DEF DropBegin, client, worker
  <2>5. QED
    BY <2>1, <2>2, <2>3, <2>4, ClientKept DEF IInv
<1>20. ASSUME DropSend PROVE IInv'
  <2>1. UNCHANGED client
    BY <1>20 DEF DropSend
  <2>2. DrainInv'
    BY <1>20, <2>1, DrainKept DEF DropSend, IInv, DrainInv, client
  <2>3. NoProcessLeftBehind'
    BY <1>20 DEF DropSend, IInv, NoProcessLeftBehind, worker
  <2>4. MessageInv'
    <3>1. [type |-> "shutdown"] \in ToWorker
      BY DEF ToWorker
    <3>2. UNCHANGED out /\ (UNCHANGED stdin \/ Write([type |-> "shutdown"]))
      BY <1>20 DEF DropSend
    <3>3. \A i \in 1 .. Len(stdin') :
            (\E j \in 1 .. Len(stdin) : stdin'[i] = stdin[j])
              \/ stdin'[i].type \notin {"query", "reply"}
      BY <3>1, <3>2, WriteType
    <3>4. QED
      BY <2>1, <3>2, <3>3, MessagesKept DEF client
  <2>5. QED
    BY <2>1, <2>2, <2>3, <2>4, ClientKept DEF IInv
<1>21. ASSUME DropReaped PROVE IInv'
  <2>1. UNCHANGED client
    BY <1>21 DEF DropReaped
  <2>2. DrainInv'
    BY <1>21, <2>1, DrainKept DEF DropReaped, IInv, DrainInv, client
  <2>3. NoProcessLeftBehind'
    BY <1>21 DEF DropReaped, IInv, NoProcessLeftBehind, worker
  <2>4. MessageInv'
    BY <1>21, <2>1, MessagesKept DEF DropReaped, client, worker
  <2>5. QED
    BY <2>1, <2>2, <2>3, <2>4, ClientKept DEF IInv
<1>22. ASSUME DropKill PROVE IInv'
  <2>1. UNCHANGED client
    BY <1>22 DEF DropKill
  <2>2. DrainInv'
    BY <1>22, <2>1, DrainKept DEF DropKill, IInv, DrainInv, client
  <2>3. NoProcessLeftBehind'
    BY <1>22 DEF DropKill, Killed, IInv, NoProcessLeftBehind
  <2>4. MessageInv'
    <3>1. Killed
      BY <1>22 DEF DropKill
    <3>2. Len(stdin') = 0
      BY <3>1, KilledType
    <3>3. \A i \in 1 .. Len(out') : \E j \in 1 .. Len(out) : out'[i] = out[j]
      BY <3>1, KilledType
    <3>4. QED
      BY <2>1, <3>2, <3>3, MessagesKept DEF client
  <2>5. QED
    BY <2>1, <2>2, <2>3, <2>4, ClientKept DEF IInv
<1>23. ASSUME WorkerReady PROVE IInv'
  <2>1. UNCHANGED client
    BY <1>23 DEF WorkerReady
  <2>2. DrainInv'
    BY <1>23, <2>1, DrainKept DEF WorkerReady, IInv, DrainInv, client
  <2>3. NoProcessLeftBehind'
    BY <1>23, ProcessKept DEF WorkerReady, owner, worker
  <2>4. MessageInv'
    <3>1. [type |-> "ready"] \in FromWorker /\ Matches([type |-> "ready"])'
      BY DEF FromWorker, Matches
    <3>2. UNCHANGED stdin /\ Emit([type |-> "ready"])
      BY <1>23 DEF WorkerReady
    <3>3. \A i \in 1 .. Len(out') :
            (\E j \in 1 .. Len(out) : out'[i] = out[j]) \/ Matches(out'[i])
      BY <3>1, <3>2, EmitType DEF Matches
    <3>4. QED
      BY <2>1, <3>2, <3>3, MessagesKept DEF client
  <2>5. QED
    BY <2>1, <2>2, <2>3, <2>4, ClientKept DEF IInv
<1>24. ASSUME WorkerEvent PROVE IInv'
  <2>1. UNCHANGED client
    BY <1>24 DEF WorkerEvent
  <2>2. DrainInv'
    BY <1>24, <2>1, DrainKept DEF WorkerEvent, IInv, DrainInv, client
  <2>3. NoProcessLeftBehind'
    BY <1>24, ProcessKept DEF WorkerEvent, owner, worker
  <2>4. MessageInv'
    <3>1. [type |-> "event"] \in FromWorker /\ Matches([type |-> "event"])'
      BY DEF FromWorker, Matches
    <3>2. UNCHANGED stdin /\ Emit([type |-> "event"])
      BY <1>24 DEF WorkerEvent
    <3>3. \A i \in 1 .. Len(out') :
            (\E j \in 1 .. Len(out) : out'[i] = out[j]) \/ Matches(out'[i])
      BY <3>1, <3>2, EmitType DEF Matches
    <3>4. QED
      BY <2>1, <3>2, <3>3, MessagesKept DEF client
  <2>5. QED
    BY <2>1, <2>2, <2>3, <2>4, ClientKept DEF IInv
<1>25. ASSUME WorkerServe PROVE IInv'
  <2>1. UNCHANGED client
    BY <1>25 DEF WorkerServe
  <2>2. DrainInv'
    BY <1>25, <2>1, DrainKept DEF WorkerServe, IInv, DrainInv, client
  <2>3. NoProcessLeftBehind'
    BY <1>25, ProcessKept DEF WorkerServe, owner, worker
  <2>4. MessageInv'
    <3> DEFINE r == [type |-> "reply", id |-> Head(stdin).id, kind |-> Head(stdin).kind]
    <3>1. /\ stdin # <<>> /\ stdin' = Tail(stdin) /\ Head(stdin).type = "query"
          /\ Emit(r)
      BY <1>25 DEF WorkerServe
    <3>2. /\ Head(stdin) \in ToWorker /\ Matches(Head(stdin))
          /\ \A i \in 1 .. Len(stdin') : \E j \in 1 .. Len(stdin) : stdin'[i] = stdin[j]
      BY <3>1, TailShrinks DEF TypeOK, IInv, MessageInv
    <3>3. r \in FromWorker /\ Matches(r)
      BY <3>1, <3>2 DEF ToWorker, FromWorker, Matches
    <3>4. \A i \in 1 .. Len(out') :
            (\E j \in 1 .. Len(out) : out'[i] = out[j]) \/ Matches(out'[i])
      BY <3>1, <3>3, EmitType
    <3>5. QED
      BY <2>1, <3>2, <3>4, MessagesKept DEF client
  <2>5. QED
    BY <2>1, <2>2, <2>3, <2>4, ClientKept DEF IInv
<1>26. ASSUME WorkerShutdown PROVE IInv'
  <2>1. UNCHANGED client
    BY <1>26 DEF WorkerShutdown
  <2>2. DrainInv'
    BY <1>26, <2>1, DrainKept DEF WorkerShutdown, IInv, DrainInv, client
  <2>3. NoProcessLeftBehind'
    BY <1>26, ProcessKept DEF WorkerShutdown, owner, worker
  <2>4. MessageInv'
    BY <1>26, <2>1, MessagesKept DEF WorkerShutdown, client, worker
  <2>5. QED
    BY <2>1, <2>2, <2>3, <2>4, ClientKept DEF IInv
<1>27. ASSUME WorkerExit PROVE IInv'
  <2>1. UNCHANGED client
    BY <1>27 DEF WorkerExit
  <2>2. DrainInv'
    BY <1>27, <2>1, DrainKept DEF WorkerExit, IInv, DrainInv, client
  <2>3. NoProcessLeftBehind'
    BY <1>27, ProcessKept DEF WorkerExit, owner, worker
  <2>4. MessageInv'
    <3>1. Len(stdin') = 0 /\ UNCHANGED out
      BY <1>27 DEF WorkerExit
    <3>2. QED
      BY <2>1, <3>1, MessagesKept DEF client
  <2>5. QED
    BY <2>1, <2>2, <2>3, <2>4, ClientKept DEF IInv
<1>28. ASSUME WorkerCrash PROVE IInv'
  <2>1. UNCHANGED client
    BY <1>28 DEF WorkerCrash
  <2>2. DrainInv'
    BY <1>28, <2>1, DrainKept DEF WorkerCrash, IInv, DrainInv, client
  <2>3. NoProcessLeftBehind'
    BY <1>28, ProcessKept DEF WorkerCrash, owner
  <2>4. MessageInv'
    <3>1. Killed
      BY <1>28 DEF WorkerCrash
    <3>2. Len(stdin') = 0
      BY <3>1, KilledType
    <3>3. \A i \in 1 .. Len(out') : \E j \in 1 .. Len(out) : out'[i] = out[j]
      BY <3>1, KilledType
    <3>4. QED
      BY <2>1, <3>2, <3>3, MessagesKept DEF client
  <2>5. QED
    BY <2>1, <2>2, <2>3, <2>4, ClientKept DEF IInv
<1>29. ASSUME WorkerHang PROVE IInv'
  <2>1. UNCHANGED client
    BY <1>29 DEF WorkerHang
  <2>2. DrainInv'
    BY <1>29, <2>1, DrainKept DEF WorkerHang, IInv, DrainInv, client
  <2>3. NoProcessLeftBehind'
    BY <1>29, ProcessKept DEF WorkerHang, owner, worker
  <2>4. MessageInv'
    BY <1>29, <2>1, MessagesKept DEF WorkerHang, client, worker
  <2>5. QED
    BY <2>1, <2>2, <2>3, <2>4, ClientKept DEF IInv
<1>30. CASE UNCHANGED vars
  <2>1. UNCHANGED <<client, reader, owner, worker>>
    BY <1>30 DEF vars
  <2>2. MessageInv'
    BY <2>1, MessagesKept DEF client, worker
  <2>3. DrainInv'
    BY <2>1, DrainKept DEF client, IInv, DrainInv
  <2>4. NoProcessLeftBehind'
    BY <2>1, ProcessKept DEF owner, worker
  <2>5. QED
    BY <2>1, <2>2, <2>3, <2>4, ClientKept DEF IInv
<1>31. QED
  BY <1>1, <1>2, <1>3, <1>4, <1>5, <1>6, <1>7, <1>8, <1>9, <1>10, <1>11,
     <1>12, <1>13, <1>14, <1>15, <1>16, <1>17, <1>18, <1>19, <1>20, <1>21,
     <1>22, <1>23, <1>24, <1>25, <1>26, <1>27, <1>28, <1>29, <1>30
  DEF Next, QueryStep, Reader, Owner, Worker, Terminated

LEMMA Invariance == Spec => []IInv
<1>1. Init => IInv
  <2> SUFFICES ASSUME Init PROVE IInv
    OBVIOUS
  <2>1. DrainInv /\ NoProcessLeftBehind
    BY DEF Init, DrainInv, NoProcessLeftBehind
  <2>2. PendingIsLive /\ OpenIsPending /\ IdInv /\ ValueInv /\ MessageInv
    BY DEF Init, PendingIsLive, OpenIsPending, IdInv, ValueInv, MessageInv, Active, Enlisted
  <2>3. QED
    BY <2>1, <2>2 DEF IInv
<1>2. QED
  BY <1>1, Inductive, TypeInvariant, PTL DEF Spec

\* No query is stranded by the death of the worker.
THEOREM NoStranding == Spec => []NoStrandedQuery
<1>1. IInv => NoStrandedQuery
  BY DEF IInv, DrainInv, OpenIsPending, NoStrandedQuery, Enlisted
<1>2. QED
  BY <1>1, Invariance, PTL

\* A reply reaches the query it answers.
THEOREM Matching == Spec => []RepliesMatch
<1>1. IInv => RepliesMatch
  BY DEF IInv, ValueInv, RepliesMatch, Enlisted
<1>2. QED
  BY <1>1, Invariance, PTL

\* The pending map holds the waiters of queries in progress and nothing else.
THEOREM NoLeak == Spec => []PendingIsLive
<1>1. IInv => PendingIsLive
  BY DEF IInv
<1>2. QED
  BY <1>1, Invariance, PTL

\* A failed spawn and a finished drop leave no process.
THEOREM Reaping == Spec => []NoProcessLeftBehind
<1>1. IInv => NoProcessLeftBehind
  BY DEF IInv
<1>2. QED
  BY <1>1, Invariance, PTL

-----------------------------------------------------------------------------
(***************************************************************************)
(* AgentQuery implements AgentRpc: every step of the client, its reader    *)
(* thread and the worker is a step of the abstract call or changes nothing *)
(* the caller can see.                                                     *)
(***************************************************************************)
absPhase == [c \in Callers |->
               IF pc[c] = "idle" THEN "idle" ELSE IF doomed(c) THEN "doomed" ELSE "asked"]

\* What the caller can see is unchanged: the abstract call stutters.
LEMMA Stutter ==
  ASSUME UNCHANGED <<qkind, res, dead>>, absPhase' = absPhase
  PROVE  UNCHANGED Rpc!vars
BY DEF Rpc!vars, absPhase

LEMMA StutterUnseen ==
  ASSUME UNCHANGED <<pc, chan, qkind, res, dead>>
  PROVE  UNCHANGED Rpc!vars
BY Stutter DEF absPhase, doomed

\* One caller's query ends with nothing.
LEMMA GivingUp ==
  ASSUME TypeOK, NEW c \in Callers, pc[c] # "idle",
         UNCHANGED <<qkind, dead>>, Return(c, None),
         \A x \in Callers \ {c} : chan'[x] = chan[x]
  PROVE  Rpc!GiveUp(c)
<1>1. absPhase' = [absPhase EXCEPT ![c] = "idle"]
  BY DEF absPhase, doomed, Return, TypeOK
<1>2. absPhase[c] # "idle"
  BY DEF absPhase
<1>3. QED
  BY <1>1, <1>2 DEF Rpc!GiveUp, Return, absPhase

\* Callers can only be lost, with the worker.
LEMMA Losing ==
  ASSUME TypeOK, UNCHANGED <<qkind, res>>, dead' = TRUE,
         \A x \in Callers : absPhase'[x] = absPhase[x]
                              \/ (absPhase[x] = "asked" /\ absPhase'[x] = "doomed")
  PROVE  Rpc!Next
<1> DEFINE S == {x \in Callers : absPhase'[x] # absPhase[x]}
<1>1. absPhase' = [x \in Callers |->
                     IF x \in S /\ absPhase[x] = "asked" THEN "doomed" ELSE absPhase[x]]
  BY DEF absPhase
<1>2. PICK T \in SUBSET Callers :
          absPhase' = [x \in Callers |->
                        IF x \in T /\ absPhase[x] = "asked" THEN "doomed" ELSE absPhase[x]]
  <2>1. S \in SUBSET Callers
    OBVIOUS
  <2> HIDE DEF S
  <2>2. QED
    BY <1>1, <2>1
<1>3. Rpc!Lose(T)
  BY <1>2 DEF Rpc!Lose, absPhase
<1>4. QED
  BY <1>3 DEF Rpc!Next

\* No other caller's Sender is under the id of a query in progress.
LEMMA OwnEntry ==
  ASSUME TypeOK, IInv, NEW c \in Callers, NEW x \in Callers,
         pc[c] \in Active, [id |-> qid[c], to |-> x] \in pending
  PROVE  x = c
BY DEF IInv, PendingIsLive, IdInv, Active, TypeOK, Entry

LEMMA StepRefines ==
  ASSUME TypeOK, IInv, [Next]_vars
  PROVE  [Rpc!Next]_(Rpc!vars)
<1>1. ASSUME NEW c \in Callers, NEW k \in Kinds, QueryCall(c, k)
      PROVE  Rpc!Next
  <2>1. /\ pc[c] = "idle" /\ pc' = [pc EXCEPT ![c] = "check"]
        /\ UNCHANGED <<chan, res, dead>> /\ qkind' = [qkind EXCEPT ![c] = k]
    BY <1>1 DEF QueryCall, reader
  <2>2. absPhase' = [absPhase EXCEPT ![c] = IF dead THEN "doomed" ELSE "asked"]
    BY <2>1 DEF absPhase, doomed, TypeOK
  <2>3. absPhase[c] = "idle"
    BY <2>1 DEF absPhase
  <2>4. Rpc!Ask(c, k)
    BY <2>1, <2>2, <2>3 DEF Rpc!Ask, absPhase
  <2>5. QED
    BY <2>4 DEF Rpc!Next
<1>2. ASSUME NEW c \in Callers, QueryCheck(c)
      PROVE  [Rpc!Next]_(Rpc!vars)
  <2>1. pc[c] = "check" /\ UNCHANGED <<qkind, chan, dead>>
    BY <1>2 DEF QueryCheck, reader
  <2>2. CASE dead
    <3>1. Return(c, None)
      BY <1>2, <2>2 DEF QueryCheck
    <3>2. QED
      BY <2>1, <3>1, GivingUp DEF Rpc!Next
  <2>3. CASE ~dead
    <3>1. pc' = [pc EXCEPT ![c] = "register"] /\ UNCHANGED res
      BY <1>2, <2>3 DEF QueryCheck
    <3>2. absPhase' = absPhase
      BY <2>1, <2>3, <3>1 DEF absPhase, doomed, TypeOK
    <3>3. QED
      BY <2>1, <3>1, <3>2, Stutter
  <2>4. QED
    BY <2>2, <2>3
<1>3. ASSUME NEW c \in Callers, QueryRegister(c)
      PROVE  [Rpc!Next]_(Rpc!vars)
  <2>1. pc[c] = "register" /\ UNCHANGED <<qkind, dead>>
    BY <1>3 DEF QueryRegister, reader
  <2>2. CASE dead
    <3>1. Return(c, None) /\ UNCHANGED chan
      BY <1>3, <2>2 DEF QueryRegister
    <3>2. QED
      BY <2>1, <3>1, GivingUp DEF Rpc!Next
  <2>3. CASE ~dead
    <3>1. pc' = [pc EXCEPT ![c] = "send"] /\ UNCHANGED res
      BY <1>3, <2>3 DEF QueryRegister, Enlist
    <3>2. absPhase' = absPhase
      BY <2>1, <2>3, <3>1 DEF absPhase, doomed, TypeOK
    <3>3. QED
      BY <2>1, <3>1, <3>2, Stutter
  <2>4. QED
    BY <2>2, <2>3
<1>4. ASSUME NEW c \in Callers, QuerySend(c)
      PROVE  UNCHANGED Rpc!vars
  <2>1. /\ pc[c] = "send" /\ pc' = [pc EXCEPT ![c] = "wait"]
        /\ UNCHANGED <<chan, qkind, res, dead>>
    BY <1>4 DEF QuerySend, reader
  <2>2. absPhase' = absPhase
    BY <2>1 DEF absPhase, doomed, TypeOK
  <2>3. QED
    BY <2>1, <2>2, Stutter
<1>5. ASSUME NEW c \in Callers, QueryReply(c)
      PROVE  Rpc!Next
  <2>1. /\ pc[c] = "wait" /\ chan[c] = "value" /\ pc' = [pc EXCEPT ![c] = "idle"]
        /\ UNCHANGED <<chan, qkind, dead>>
        /\ res' = [res EXCEPT ![c] = IF got[c] = qkind[c] THEN got[c] ELSE None]
    BY <1>5 DEF QueryReply, Return, reader
  <2>2. got[c] = qkind[c]
    BY <2>1 DEF IInv, ValueInv, Enlisted
  <2>3. absPhase[c] = "asked" /\ absPhase' = [absPhase EXCEPT ![c] = "idle"]
    BY <2>1 DEF absPhase, doomed, TypeOK
  <2>4. Rpc!Answer(c)
    BY <2>1, <2>2, <2>3 DEF Rpc!Answer, absPhase
  <2>5. QED
    BY <2>4 DEF Rpc!Next
<1>6. ASSUME NEW c \in Callers, QueryClosed(c)
      PROVE  UNCHANGED Rpc!vars
  <2>1. /\ pc[c] = "wait" /\ chan[c] = "closed" /\ pc' = [pc EXCEPT ![c] = "expire"]
        /\ UNCHANGED <<chan, qkind, res, dead>>
    BY <1>6 DEF QueryClosed, reader
  <2>2. absPhase' = absPhase
    BY <2>1 DEF absPhase, doomed, TypeOK
  <2>3. QED
    BY <2>1, <2>2, Stutter
<1>7. ASSUME NEW c \in Callers, QueryTimeout(c)
      PROVE  [Rpc!Next]_(Rpc!vars)
  <2>1. /\ pc[c] = "wait" /\ chan[c] = "open" /\ pc' = [pc EXCEPT ![c] = "expire"]
        /\ UNCHANGED <<chan, qkind, res, dead>>
    BY <1>7 DEF QueryTimeout, reader
  <2>2. CASE dead
    <3>1. \A x \in Callers : absPhase'[x] = absPhase[x]
                               \/ (absPhase[x] = "asked" /\ absPhase'[x] = "doomed")
      BY <2>1, <2>2 DEF absPhase, doomed, TypeOK
    <3>2. dead' = TRUE
      BY <2>1, <2>2 DEF TypeOK
    <3>3. QED
      BY <2>1, <3>1, <3>2, Losing
  <2>3. CASE ~dead
    <3>1. absPhase' = absPhase
      BY <2>1, <2>3 DEF absPhase, doomed, TypeOK
    <3>2. QED
      BY <2>1, <3>1, Stutter
  <2>4. QED
    BY <2>2, <2>3
<1>8. ASSUME NEW c \in Callers, QueryExpire(c)
      PROVE  Rpc!Next
  <2>1. /\ pc[c] = "expire" /\ Return(c, None) /\ UNCHANGED <<qkind, dead>>
        /\ chan' = [x \in Callers |->
                      IF [id |-> qid[c], to |-> x] \in pending THEN "closed" ELSE chan[x]]
    BY <1>8 DEF QueryExpire, reader
  <2>2. \A x \in Callers \ {c} : chan'[x] = chan[x]
    BY <2>1, OwnEntry DEF Active
  <2>3. QED
    BY <2>1, <2>2, GivingUp DEF Rpc!Next
<1>9. ASSUME ReadReply
      PROVE  UNCHANGED Rpc!vars
  <2>1. /\ UNCHANGED <<pc, qkind, res, dead>>
        /\ chan' = [c \in Callers |->
                      IF [id |-> Head(out).id, to |-> c] \in pending THEN "value" ELSE chan[c]]
    BY <1>9 DEF ReadReply, reader
  <2>2. \A c \in Callers : [id |-> Head(out).id, to |-> c] \in pending => chan[c] = "open"
    BY DEF IInv, PendingIsLive
  <2>3. \A c \in Callers : (chan'[c] = "closed") <=> (chan[c] = "closed")
    BY <2>1, <2>2
  <2>4. absPhase' = absPhase
    BY <2>1, <2>3 DEF absPhase, doomed
  <2>5. QED
    BY <2>1, <2>4, Stutter
<1>10. ASSUME DrainBegin
       PROVE  Rpc!Next
  <2>1. UNCHANGED <<pc, chan, qkind, res>> /\ dead' = TRUE /\ rpc = "lock"
    BY <1>10 DEF DrainBegin, client
  <2>2. ~dead
    BY <2>1 DEF IInv, DrainInv
  <2>3. \A x \in Callers : absPhase'[x] = absPhase[x]
                             \/ (absPhase[x] = "asked" /\ absPhase'[x] = "doomed")
    BY <2>1, <2>2 DEF absPhase, doomed
  <2>4. QED
    BY <2>1, <2>3, Losing
<1>11. ASSUME DrainEnd
       PROVE  Rpc!Next
  <2>1. /\ UNCHANGED <<pc, qkind, res, dead>> /\ rpc = "drain"
        /\ chan' = [c \in Callers |->
                      IF \E p \in pending : p.to = c THEN "closed" ELSE chan[c]]
    BY <1>11 DEF DrainEnd
  <2>2. dead = TRUE /\ dead' = TRUE
    BY <2>1 DEF IInv, DrainInv, TypeOK
  <2>3. \A x \in Callers : chan'[x] = chan[x] \/ (chan[x] = "open" /\ chan'[x] = "closed")
    BY <2>1 DEF IInv, PendingIsLive
  <2>4. \A x \in Callers : absPhase'[x] = absPhase[x]
                             \/ (absPhase[x] = "asked" /\ absPhase'[x] = "doomed")
    BY <2>1, <2>2, <2>3 DEF absPhase, doomed
  <2>5. QED
    BY <2>1, <2>2, <2>4, Losing
<1>12. ASSUME ReadReady \/ ReadEvent \/ ReadEof
       PROVE  UNCHANGED Rpc!vars
  <2>1. UNCHANGED <<client, dead>>
    BY <1>12 DEF ReadReady, ReadEvent, ReadEof
  <2>2. QED
    BY <2>1, StutterUnseen DEF client
<1>13. ASSUME Owner \/ Worker \/ Terminated \/ UNCHANGED vars
       PROVE  UNCHANGED Rpc!vars
  <2>1. UNCHANGED <<client, reader>>
    BY <1>13 DEF Owner, SpawnOk, SpawnFail, DropReceiver, RequestShutdown, DropBegin,
       DropSend, DropReaped, DropKill, Worker, WorkerReady, WorkerEvent, WorkerServe,
       WorkerShutdown, WorkerExit, WorkerCrash, WorkerHang, Terminated, vars
  <2>2. QED
    BY <2>1, StutterUnseen DEF client, reader
<1>14. QED
  BY <1>1, <1>2, <1>3, <1>4, <1>5, <1>6, <1>7, <1>8, <1>9, <1>10, <1>11, <1>12, <1>13
  DEF Next, QueryStep, Reader

\* The client keeps the promise of the abstract call.
THEOREM Refinement == Spec => RefinesRpc
<1>1. Init => Rpc!Init
  BY DEF Init, Rpc!Init
<1>2. TypeOK /\ IInv /\ [Next]_vars => [Rpc!Next]_(Rpc!vars)
  BY StepRefines
<1>3. QED
  BY <1>1, <1>2, TypeInvariant, Invariance, PTL DEF Spec, RefinesRpc, Rpc!Spec
=============================================================================
