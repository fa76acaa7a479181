----------------------------- MODULE MCFlowScenario -----------------------------
(***************************************************************************)
(* A small instance of FlowScenario: one agent with two calls, a server    *)
(* with routes that overlap, and two requests.                             *)
(***************************************************************************)
EXTENDS FlowScenario

MCRequests == [q1 |-> [method |-> "GET", path |-> "voice"], q2 |-> [method |-> "POST", path |-> "voice"]]
MCMethods == {"GET", "POST"}
MCPaths == {"voice"}
MCRegexes == [all |-> {"voice"}, some |-> {"voice"}]
exact == [kind |-> "exact", at |-> "voice"]
all == [kind |-> "regex", at |-> "all"]
some == [kind |-> "regex", at |-> "some"]
MCStagings == {[method |-> "GET", path |-> all, kind |-> "dynamic"],
               [method |-> "*", path |-> some, kind |-> "bridged"],
               [method |-> "*", path |-> all, kind |-> "static"],
               [method |-> "GET", path |-> exact, kind |-> "static"]}
MCAwaits == {{"wait"}, {"until"}, {"until", "http"}}
MCTargetsUsed == {"uri"}
MCConditionsUsed == {<<"state", a, "established">> : a \in Agents} \cup {<<"requests", exact>>}
=============================================================================
