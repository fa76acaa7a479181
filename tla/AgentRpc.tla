------------------------------ MODULE AgentRpc ------------------------------
(***************************************************************************)
(* What ProcessClient promises the threads that query a worker, with no    *)
(* pipes, locks or reader thread: a query ends with the answer to the      *)
(* question it asked or with nothing, and once the worker is lost a query  *)
(* that starts, or that has been given up, can only end with nothing.      *)
(***************************************************************************)
CONSTANTS Callers, Kinds, None

VARIABLES
  phase,     \* "idle", "asked", or "doomed": it will end with nothing
  asked,     \* what the caller's query asks for
  answer,    \* what its last query returned
  lost       \* the worker is gone for good

vars == <<phase, asked, answer, lost>>

TypeOK ==
  /\ phase \in [Callers -> {"idle", "asked", "doomed"}]
  /\ asked \in [Callers -> Kinds]
  /\ answer \in [Callers -> Kinds \cup {None}]
  /\ lost \in BOOLEAN

Init ==
  /\ phase = [c \in Callers |-> "idle"]
  /\ asked \in [Callers -> Kinds]
  /\ answer = [c \in Callers |-> None]
  /\ lost = FALSE

Ask(c, k) ==
  /\ phase[c] = "idle"
  /\ phase' = [phase EXCEPT ![c] = IF lost THEN "doomed" ELSE "asked"]
  /\ asked' = [asked EXCEPT ![c] = k]
  /\ UNCHANGED <<answer, lost>>

Answer(c) ==
  /\ phase[c] = "asked"
  /\ phase' = [phase EXCEPT ![c] = "idle"]
  /\ answer' = [answer EXCEPT ![c] = asked[c]]
  /\ UNCHANGED <<asked, lost>>

GiveUp(c) ==
  /\ phase[c] # "idle"
  /\ phase' = [phase EXCEPT ![c] = "idle"]
  /\ answer' = [answer EXCEPT ![c] = None]
  /\ UNCHANGED <<asked, lost>>

\* The worker is lost, and with it the queries in S.
Lose(S) ==
  /\ lost' = TRUE
  /\ phase' = [c \in Callers |->
                 IF c \in S /\ phase[c] = "asked" THEN "doomed" ELSE phase[c]]
  /\ UNCHANGED <<asked, answer>>

Next ==
  \/ \E c \in Callers : (\E k \in Kinds : Ask(c, k)) \/ Answer(c) \/ GiveUp(c)
  \/ \E S \in SUBSET Callers : Lose(S)

Spec == Init /\ [][Next]_vars
=============================================================================
