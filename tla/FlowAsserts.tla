------------------------------ MODULE FlowAsserts ------------------------------
(***************************************************************************)
(* What a scenario reports of its assertions (engine/ctx.rs,               *)
(* engine/assertion.rs, script/js/dsl/core.rs).                            *)
(*                                                                         *)
(* While an `until` (await_until) polls its condition the assertions of    *)
(* the thread are kept back: a counter says how many are polling, and the  *)
(* last assertion is shown when the counter is down to zero.  In           *)
(* JavaScript several can poll at a time, and one that polls when the      *)
(* script ends stays with the runtime.                                     *)
(***************************************************************************)
EXTENDS Naturals, FiniteSets

VARIABLES
  depth,    \* SILENCE_DEPTH
  stash,    \* an assertion is kept in LAST_ASSERT
  waiters,  \* the `until` calls that are polling: <<file, call>>
  noise     \* a condition that was to be tried again has been shown

asserts == <<depth, stash, waiters, noise>>

AssertsInit == depth = 0 /\ stash = FALSE /\ waiters = {} /\ noise = FALSE

BeginAssertSilent == depth' = depth + 1
EndSilence == depth' = 0
EndAssertSilent == depth' = IF depth = 0 THEN 0 ELSE depth - 1

\* One call to the assertion; retried says that it is a condition's, and failed.
ReportAssertion(retried) ==
  IF depth > 0
  THEN stash' = TRUE /\ UNCHANGED noise
  ELSE noise' = (noise \/ retried) /\ UNCHANGED stash

\* Shows what the last condition left, which may have asserted nothing.
EmitLastAssert == IF depth' > 0 THEN stash' \in {stash, TRUE} ELSE stash' = FALSE

\* An assertion of the script itself.
Check ==
  /\ ReportAssertion(FALSE)
  /\ UNCHANGED <<depth, waiters>>

UntilBegins(w) ==
  /\ w \notin waiters
  /\ BeginAssertSilent
  /\ waiters' = waiters \cup {w}
  /\ UNCHANGED <<stash, noise>>

\* The condition does not hold yet, and there is time.
UntilRetries(w) ==
  /\ w \in waiters
  /\ ReportAssertion(TRUE)
  /\ UNCHANGED <<depth, waiters>>

\* The condition holds, or the time is over, or (JavaScript) it has a bug.
UntilSettles(w) ==
  /\ w \in waiters
  /\ EndAssertSilent
  /\ EmitLastAssert
  /\ waiters' = waiters \ {w}
  /\ UNCHANGED noise

\* The host of a file is dropped with its promises, and ends none of them.
HostDropped(f) == waiters' = {w \in waiters : w[1] # f} /\ UNCHANGED <<depth, stash, noise>>

-----------------------------------------------------------------------------
(* What the scripts throw, and what becomes of it                          *)

\* A skip thrown where the error is made a text (a condition, a task of
\* parallel) is no longer known for one.
Thrown == {"nothing", "skip", "skip in a condition", "error"}

\* An error without the marker of skip() is a failure.
ClassifyError(t) == IF t = "skip" THEN "skipped" ELSE "failed"
ClassifyScenarioError(t) == IF t = "skip" THEN "skipped" ELSE "failed"
Classify(l, t) ==
  CASE t = "nothing" -> "passed"
    [] l = "rhai" /\ t # "nothing" -> ClassifyError(t)
    [] l = "js" /\ t # "nothing" -> ClassifyScenarioError(t)
=============================================================================
