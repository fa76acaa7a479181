-------------------------------- MODULE FlowMock --------------------------------
(***************************************************************************)
(* The mock HTTP server of a scenario (engine/mock_server.rs) and the      *)
(* verbs that stage its answers (script/rhai, script/js/dsl/mock.rs).      *)
(*                                                                         *)
(* A request is recorded, a route is looked up for it, and the route's     *)
(* responder answers: a fixed response, a Rhai closure on the server's own *)
(* thread, or a JavaScript closure that only the scenario's thread may     *)
(* run.  Such a request waits in the responder's queue until the script    *)
(* polls, for ten seconds at most.                                         *)
(***************************************************************************)
EXTENDS Naturals, Sequences, FiniteSets

CONSTANTS
  Requests,   \* the requests that may come: a function to [method, path]
  Methods, Paths,
  Regexes,    \* the patterns a script uses: a function to the paths they match
  MaxRoutes,  \* bound: responders registered, and the queues they may own
  QueueCap    \* bridged requests that a responder's queue holds

RequestIds == DOMAIN Requests
\* A fixed response, a closure for the server's thread, one for the script's.
Kinds == {"static", "dynamic", "bridged"}

VARIABLES
  server,    \* "off", "up", "stopping", "down"
  routes,    \* the route table: [method, path, kind, number]
  staged,    \* how many responders have been registered
  recorded,  \* the requests that count, in order of arrival
  phase,     \* where each request is
  chosen,    \* the responder a request was given to, 0 for none
  queues     \* by responder: the requests handed to the scenario's thread

mock == <<server, routes, staged, recorded, phase, chosen, queues>>

MockInit ==
  /\ server = "off"
  /\ routes = <<>>
  /\ staged = 0
  /\ recorded = <<>>
  /\ phase = [r \in RequestIds |-> "out"]
  /\ chosen = [r \in RequestIds |-> 0]
  /\ queues = [n \in 1..MaxRoutes |-> <<>>]

-----------------------------------------------------------------------------
(* The route table                                                         *)

PathMatches(p, path) == IF p.kind = "exact" THEN p.at = path ELSE path \in Regexes[p.at]
RouteMatches(t, q) == t.method \in {"*", q.method} /\ PathMatches(t.path, q.path)

SetRoute(method, path, kind) ==
  LET t == [method |-> method, path |-> path, kind |-> kind, number |-> staged + 1]
      same == {i \in DOMAIN routes : routes[i].method = method /\ routes[i].path = path}
  IN /\ staged' = staged + 1
     /\ routes' = IF same = {} THEN Append(routes, t)
                  ELSE [i \in DOMAIN routes |-> IF i \in same THEN t ELSE routes[i]]

Score(t) == (IF t.path.kind = "exact" THEN 0 ELSE 2) + (IF t.method = "*" THEN 1 ELSE 0)

\* The places of the routes that beat every other match: none or one.
FindResponder(q) ==
  {i \in DOMAIN routes :
     /\ RouteMatches(routes[i], q)
     /\ \A j \in DOMAIN routes : RouteMatches(routes[j], q) =>
          \/ Score(routes[i]) < Score(routes[j])
          \/ Score(routes[i]) = Score(routes[j]) /\ j <= i}

RequestsOn(path) == SelectSeq(recorded, LAMBDA r : PathMatches(path, Requests[r].path))
RequestCount(path) == Len(RequestsOn(path))

-----------------------------------------------------------------------------
(* The script's verbs                                                      *)

StartServer ==
  /\ server = "off"
  /\ server' = "up"
  /\ UNCHANGED <<routes, staged, recorded, phase, chosen, queues>>

Respond(t) ==
  /\ server # "off"
  /\ staged < MaxRoutes
  /\ SetRoute(t.method, t.path, t.kind)
  /\ UNCHANGED <<server, recorded, phase, chosen, queues>>

ShutdownLater == UNCHANGED mock
\* No request is accepted any more; those that are under way go on.
Shutdown ==
  /\ server' = IF server = "up" THEN "stopping" ELSE server
  /\ UNCHANGED <<routes, staged, recorded, phase, chosen, queues>>

-----------------------------------------------------------------------------
(* One request                                                             *)

InFlight == {r \in RequestIds : phase[r] \notin {"out", "answered", "gone"}}
Goes(r, p) == phase' = [phase EXCEPT ![r] = p]

\* The body is read and the request counts.  Until then it changes nothing, so
\* that its accepting and reading, with awaits between, are one step.
Receive(r) ==
  /\ server = "up"
  /\ phase[r] = "out"
  /\ recorded' = Append(recorded, r)
  /\ Goes(r, "recorded")
  /\ UNCHANGED <<server, routes, staged, chosen, queues>>

LookUp(r) ==
  /\ phase[r] = "recorded"
  /\ LET best == FindResponder(Requests[r])
     IN IF best = {} THEN Goes(r, "answered") /\ UNCHANGED chosen
        ELSE \E i \in best :
               /\ chosen' = [chosen EXCEPT ![r] = routes[i].number]
               /\ Goes(r, CASE routes[i].kind = "static" -> "answered"
                            [] routes[i].kind = "dynamic" -> "running"
                            [] routes[i].kind = "bridged" -> "sending")
  /\ UNCHANGED <<server, routes, staged, recorded, queues>>

\* The Rhai closure returns a response, or fails: 500.
DynamicAnswers(r) ==
  /\ phase[r] = "running"
  /\ Goes(r, "answered")
  /\ UNCHANGED <<server, routes, staged, recorded, chosen, queues>>

HandOver(r) ==
  /\ phase[r] = "sending"
  /\ Len(queues[chosen[r]]) < QueueCap
  /\ queues' = [queues EXCEPT ![chosen[r]] = Append(@, r)]
  /\ Goes(r, "queued")
  /\ UNCHANGED <<server, routes, staged, recorded, chosen>>

BridgeWaitsOn(r) == phase[r] = "queued" /\ UNCHANGED mock
\* 504; the request stays in the queue.
BridgeTimesOut(r) ==
  /\ phase[r] = "queued"
  /\ Goes(r, "answered")
  /\ UNCHANGED <<server, routes, staged, recorded, chosen, queues>>

\* Who asked closes the connection while its request waits for the script.
ClientGone(r) ==
  /\ phase[r] \in {"sending", "queued"}
  /\ Goes(r, "gone")
  /\ UNCHANGED <<server, routes, staged, recorded, chosen, queues>>

\* Empties every queue and answers who still waits; a closure that throws is a 500.
PumpBridged ==
  /\ queues' = [n \in DOMAIN queues |-> <<>>]
  /\ phase' = [r \in RequestIds |-> IF phase[r] = "queued" THEN "answered" ELSE phase[r]]
  /\ UNCHANGED <<server, routes, staged, recorded, chosen>>

ServerEnds ==
  /\ server = "stopping"
  /\ InFlight = {}
  /\ server' = "down"
  /\ UNCHANGED <<routes, staged, recorded, phase, chosen, queues>>

MockStep ==
  \/ \E r \in RequestIds : LookUp(r) \/ DynamicAnswers(r) \/ HandOver(r) \/ BridgeTimesOut(r)
  \/ ServerEnds
=============================================================================
