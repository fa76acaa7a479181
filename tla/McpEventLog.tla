----------------------------- MODULE McpEventLog -----------------------------
(***************************************************************************)
(* The event log of one ringo-mcp agent (hub.rs EventLog) and the clients  *)
(* that read it by cursor: agent_events pages, wait_event with after_id.   *)
(*                                                                         *)
(* The log lives in the hub's slot and outlives the worker: each worker    *)
(* generation has a bridge thread that appends.  append() takes the id     *)
(* from an atomic counter BEFORE it locks the ring, and wakes the waiters  *)
(* after it unlocked, so three steps of a bridge interleave with readers,  *)
(* and with the bridge of a stopped worker that still drains its stream.   *)
(***************************************************************************)
EXTENDS Naturals, Sequences, FiniteSets

CONSTANTS
  Clients,    \* MCP clients, each reading with a cursor of its own
  Names,      \* event names a wait_event filter tells apart
  Tools,      \* the tools the clients use: a subset of {"page", "wait"}
  Capacity,   \* EVENT_LOG_CAPACITY
  PageLimit,  \* EVENT_PAGE_LIMIT
  MaxWorkers, \* bound: worker generations in a behaviour
  MaxEvents   \* bound: events in a behaviour

ASSUME McpEventLogAssumption ==
  /\ Tools \subseteq {"page", "wait"}
  /\ Capacity \in Nat \ {0}
  /\ PageLimit \in Nat \ {0}
  /\ MaxWorkers \in Nat
  /\ MaxEvents \in Nat

VARIABLES
  entries,   \* the ring: ids, oldest push first
  next_id,
  name,      \* name[id] of every id assigned
  crossed,   \* history: ids on their way into the ring at once with another
  started,   \* worker generations started so far
  bridge,    \* where each generation's bridge is in append()
  bid,       \* the id it appends
  pc,        \* where each client is in wait_event
  filter,    \* the names it waits for
  cursor,    \* its after_id
  woken,     \* its Notified future has been notified
  seen,      \* ids it was given, or chose to step over
  early,     \* history: ids on their way into the ring when it took newest_id
  told       \* ids up to this one it was told are lost (`truncated')

log     == <<entries, next_id, name, crossed>>
bridges == <<started, bridge, bid>>
clients == <<pc, filter, cursor, woken, seen, early, told>>
vars    == <<log, bridges, clients>>

Gens == 1 .. MaxWorkers
Ids  == 1 .. next_id - 1       \* the ids assigned so far
Held == {entries[k] : k \in 1 .. Len(entries)}
Flying == {bid[g] : g \in {h \in Gens : bridge[h] = "push"}}

\* Types, and the bound of the ring.
TypeOK ==
  /\ entries \in Seq(Ids) /\ Len(entries) <= Capacity
  /\ next_id \in Nat \ {0}
  /\ name \in [Ids -> Names]
  /\ crossed \subseteq Ids
  /\ started \in 0 .. MaxWorkers
  /\ bridge \in [Gens -> {"none", "run", "push", "notify", "ended"}]
  /\ bid \in [Gens -> Nat]
  /\ pc \in [Clients -> {"idle", "loop", "armed", "parked"}]
  /\ filter \in [Clients -> SUBSET Names]
  /\ cursor \in [Clients -> Nat]
  /\ woken \in [Clients -> BOOLEAN]
  /\ seen \in [Clients -> SUBSET Nat]
  /\ early \in [Clients -> SUBSET Nat]
  /\ told \in [Clients -> Nat]

Init ==
  /\ entries = <<>>
  /\ next_id = 1
  /\ name = [i \in {} |-> CHOOSE n \in Names : TRUE]
  /\ crossed = {}
  /\ started = 0
  /\ bridge = [g \in Gens |-> "none"]
  /\ bid = [g \in Gens |-> 0]
  /\ pc = [c \in Clients |-> "idle"]
  /\ filter = [c \in Clients |-> {}]
  /\ cursor = [c \in Clients |-> 0]
  /\ woken = [c \in Clients |-> FALSE]
  /\ seen = [c \in Clients |-> {}]
  /\ early = [c \in Clients |-> {}]
  /\ told = [c \in Clients |-> 0]

-----------------------------------------------------------------------------
(* The bridges.                                                            *)

\* The next tool call spawns a worker: the slot is empty, at first use and after
\* agent_stop, whose worker and bridge may still be draining, or its agent is
\* known to be dead.
Start ==
  /\ started < MaxWorkers
  /\ started' = started + 1
  /\ bridge' = [bridge EXCEPT ![started + 1] = "run"]
  /\ UNCHANGED <<log, bid, clients>>

\* append(): the id is taken without the lock.
AppendId(g) ==
  /\ bridge[g] = "run" /\ next_id <= MaxEvents
  /\ \E n \in Names : name' = [i \in 1 .. next_id |-> IF i = next_id THEN n ELSE name[i]]
  /\ next_id' = next_id + 1
  /\ crossed' = IF Flying = {} THEN crossed ELSE crossed \cup Flying \cup {next_id}
  /\ bid' = [bid EXCEPT ![g] = next_id]
  /\ bridge' = [bridge EXCEPT ![g] = "push"]
  /\ UNCHANGED <<entries, started, clients>>

\* Under the lock: push, then trim from the front.
AppendPush(g) ==
  /\ bridge[g] = "push"
  /\ LET pushed == Append(entries, bid[g])
     IN  entries' = IF Len(pushed) > Capacity THEN Tail(pushed) ELSE pushed
  /\ bridge' = [bridge EXCEPT ![g] = "notify"]
  /\ UNCHANGED <<next_id, name, crossed, started, bid, clients>>

\* notify_waiters(): every Notified future created so far.
AppendNotify(g) ==
  /\ bridge[g] = "notify"
  /\ woken' = [c \in Clients |-> TRUE]
  /\ bridge' = [bridge EXCEPT ![g] = "run"]
  /\ UNCHANGED <<log, started, bid, pc, filter, cursor, seen, early, told>>

\* The event stream closed: the worker is gone.
BridgeEnd(g) ==
  /\ bridge[g] = "run"
  /\ bridge' = [bridge EXCEPT ![g] = "ended"]
  /\ UNCHANGED <<log, started, bid, clients>>

-----------------------------------------------------------------------------
(* The clients.                                                            *)

Oldest == IF entries = <<>> THEN 0 ELSE Head(entries)
Newest ==
  LET back == IF entries = <<>> THEN 0 ELSE entries[Len(entries)]
  IN  IF back > next_id - 1 THEN back ELSE next_id - 1

After(c)     == {k \in 1 .. Len(entries) : entries[k] > cursor[c]}
Matches(c,f) == {k \in After(c) : name[entries[k]] \in f}

\* Fault: the page is taken from the newest end.
PageNewest(c) == {k \in After(c) : Cardinality({j \in After(c) : j > k}) < PageLimit}

\* The positions page_after returns: the first PageLimit of the newer ones.
Page(c) == {k \in After(c) : Cardinality({j \in After(c) : j < k}) < PageLimit}

\* Fault: `<=' where the cursor may be one behind the oldest entry.
TruncatedLoose(c) == cursor[c] + 2 < Oldest

Truncated(c) == cursor[c] + 1 < Oldest

\* agent_events.  The client continues from the last id it was given, or takes
\* newest_id for its cursor (docs tools.md 143): what the log then holds it steps
\* over knowingly, what is on its way into the log it cannot know of.
AgentEvents(c) ==
  /\ "page" \in Tools /\ pc[c] = "idle"
  /\ told' = [told EXCEPT ![c] = IF Truncated(c) THEN Oldest - 1 ELSE @]
  /\ \/ /\ seen' = [seen EXCEPT ![c] = @ \cup {entries[k] : k \in Page(c)}]
        /\ \/ Page(c) = {} /\ UNCHANGED cursor
           \/ \E k \in Page(c) :
                /\ \A j \in Page(c) : j <= k
                /\ cursor' = [cursor EXCEPT ![c] = entries[k]]
        /\ UNCHANGED early
     \/ /\ seen' = [seen EXCEPT ![c] = @ \cup Held]
        /\ cursor' = [cursor EXCEPT ![c] = Newest]
        /\ early' = [early EXCEPT ![c] = @ \cup Flying]
  /\ UNCHANGED <<log, bridges, pc, filter, woken>>

\* wait_event returns the oldest match; the events its filter passed over are
\* the client's choice, and its id is the next cursor.
Deliver(c, f) ==
  \E k \in Matches(c, f) :
    /\ \A j \in Matches(c, f) : k <= j
    /\ seen' = [seen EXCEPT ![c] = @ \cup {entries[j] : j \in After(c) \cap (1 .. k)}]
    /\ cursor' = [cursor EXCEPT ![c] = entries[k]]
    /\ pc' = [pc EXCEPT ![c] = "idle"]

\* The fast path: the log already holds a match.
WaitEvent(c, f) ==
  /\ "wait" \in Tools /\ pc[c] = "idle"
  /\ filter' = [filter EXCEPT ![c] = f]
  /\ \/ Deliver(c, f)
     \/ /\ Matches(c, f) = {}
        /\ pc' = [pc EXCEPT ![c] = "loop"]
        /\ UNCHANGED <<cursor, seen>>
  /\ UNCHANGED <<log, bridges, woken, early, told>>

\* Fault: the log is not looked at again once the future is there.
WaitArmUnchecked(c) ==
  /\ pc[c] = "loop"
  /\ pc' = [pc EXCEPT ![c] = "parked"]
  /\ woken' = [woken EXCEPT ![c] = FALSE]
  /\ UNCHANGED <<log, bridges, filter, cursor, seen, early, told>>

\* The Notified future is created, and from here on sees every notify.
WaitArm(c) ==
  /\ pc[c] = "loop"
  /\ pc' = [pc EXCEPT ![c] = "armed"]
  /\ woken' = [woken EXCEPT ![c] = FALSE]
  /\ UNCHANGED <<log, bridges, filter, cursor, seen, early, told>>

WaitCheck(c) ==
  /\ pc[c] = "armed"
  /\ \/ Deliver(c, filter[c])
     \/ /\ Matches(c, filter[c]) = {}
        /\ pc' = [pc EXCEPT ![c] = "parked"]
        /\ UNCHANGED <<cursor, seen>>
  /\ UNCHANGED <<log, bridges, filter, woken, early, told>>

WaitWake(c) ==
  /\ pc[c] = "parked" /\ woken[c]
  /\ pc' = [pc EXCEPT ![c] = "loop"]
  /\ UNCHANGED <<log, bridges, filter, cursor, woken, seen, early, told>>

\* The timeout is looked at only when the inner future has nothing to do.
WaitTimeout(c) ==
  /\ pc[c] = "parked" /\ ~woken[c]
  /\ pc' = [pc EXCEPT ![c] = "idle"]
  /\ UNCHANGED <<log, bridges, filter, cursor, woken, seen, early, told>>
-----------------------------------------------------------------------------
Bridge == \E g \in Gens : AppendId(g) \/ AppendPush(g) \/ AppendNotify(g) \/ BridgeEnd(g)

Wait(c) == WaitArm(c) \/ WaitCheck(c) \/ WaitWake(c)

Client(c) ==
  \/ AgentEvents(c)
  \/ \E f \in SUBSET Names \ {{}} : WaitEvent(c, f)
  \/ Wait(c)
  \/ WaitTimeout(c)

Next == Start \/ Bridge \/ \E c \in Clients : Client(c)

Spec == Init /\ [][Next]_vars
-----------------------------------------------------------------------------
\* No event is skipped: what is in the log, or on its way into it, and behind a
\* client's cursor was given to that client (hub.rs 587-599), bridges of stopped
\* workers still appending or not, whichever cursor the client takes.  Excepted
\* are an event on its way into the ring when the client took newest_id, which is
\* ahead of the ring there (hub.rs 110 says nothing is skipped), and events of two
\* bridges that were between id and push at once, whose order in the ring is open.
NoSkip ==
  \A c \in Clients : \A i \in Held \cup Flying :
    i <= cursor[c] => i \in seen[c] \cup early[c] \cup crossed

\* "The log makes event loss explicit (truncated), not impossible" (hub.rs 41):
\* a page covers with `truncated' every id it passes over, the two kinds of event
\* that NoSkip excepts aside.
PagesTellLoss ==
  [][\A c \in Clients : AgentEvents(c) =>
       \A i \in cursor[c] + 1 .. cursor'[c] :
         i \in seen'[c] \cup early'[c] \cup crossed \/ i <= told'[c]]_vars

\* No wakeup is lost between the check of the log and the await: a parked
\* waiter with a match in the log has been notified, or is about to be.
NoLostWakeup ==
  \A c \in Clients :
    pc[c] = "parked" /\ ~woken[c] /\ Matches(c, filter[c]) # {}
      => \E g \in Gens : bridge[g] = "notify"

=============================================================================
