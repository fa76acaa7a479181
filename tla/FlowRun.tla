-------------------------------- MODULE FlowRun --------------------------------
(***************************************************************************)
(* A run of ringo-flow: the files in two phases, the scenarios of a suite  *)
(* between setup and teardown, the agents and mock servers they open, and  *)
(* the end of the run, after a panic too (engine/run.rs, engine/ctx.rs,    *)
(* script/rhai/host.rs, script/js/host.rs).                                *)
(*                                                                         *)
(* Everything but the calls and the workers happens on the script thread.  *)
(* A script does what it likes, in a bounded number of steps, and ends.    *)
(***************************************************************************)
EXTENDS FlowFiles, FlowAsserts, FiniteSetsExt, TLC

CONSTANTS
  Names,      \* names of agents
  Ports,      \* ports of mock servers
  MaxWaiters, \* bound: `until` calls of a file that poll at a time
  MaxSteps    \* bound: steps of all the scripts of a run

VARIABLES
  lang, programs, filters, \* what is run
  pc,        \* where the script thread is
  file, sc,  \* the place in programs, and in the file's scenarios
  known,     \* the scenarios that the top-level code has registered
  deferred,  \* the files that wait for phase 2
  focus,     \* some scenario is marked `only`
  sessions,  \* the connected agents: [name, by]
  talking,   \* the agents whose worker has a call
  mocks,     \* the mock servers: [port, by]
  leaving,   \* the sessions that teardown has taken
  result,    \* how the body of the scenario ended
  reports,   \* the scenarios reported, per file: [sc, outcome]
  verdicts,  \* what became of each file
  agg,       \* Aggregate
  verdict,   \* how the run ended
  steps      \* steps taken

place == <<lang, programs, filters, pc, file, sc, known, deferred, focus>>
opened == <<sessions, talking, mocks, leaving>>
told == <<result, reports, verdicts, agg, verdict>>
vars == <<place, opened, told, steps, asserts>>

Program == programs[file]
Infos == Disk[Program].infos

\* Who opened an agent or a mock server: a scenario, or (0) the top-level code.
Here == <<Program, sc>>
Scripting == pc \in {"top", "setup", "body", "teardown"}

NoAggregate == [files |-> 0, passed_files |-> 0, scenarios |-> 0, passed_scenarios |-> 0, skipped_scenarios |-> 0]

Init ==
  /\ filters \in Filtering
  /\ \E args \in Asked :
       /\ lang = DetectLang(args)
       /\ programs = CollectFiles(lang, args)
  /\ programs # << >>
  /\ pc = "build" /\ file = 1 /\ sc = 0 /\ known = 0 /\ deferred = << >> /\ focus = FALSE
  /\ sessions = {} /\ talking = {} /\ mocks = {} /\ leaving = {}
  /\ result = "passed"
  /\ reports = [f \in Files |-> << >>] /\ verdicts = [f \in Files |-> "none"] /\ agg = NoAggregate /\ verdict = "none"
  /\ steps = 0
  /\ AssertsInit

-----------------------------------------------------------------------------
(* What a script does.                                                     *)

Mine == {w \in waiters : w[1] = Program}

\* Rhai blocks on await_until, JavaScript goes on with what does not wait.
Step ==
  /\ Scripting
  /\ lang = "rhai" => Mine = {}
  /\ steps < MaxSteps
  /\ steps' = steps + 1
  /\ UNCHANGED <<place, told>>

\* A session of the same name is replaced, which drops it.
ConnectAgent(n) ==
  /\ Step
  /\ sessions' = {s \in sessions : s.name # n} \cup {[name |-> n, by |-> Here]}
  /\ talking' = talking \ {n}
  /\ UNCHANGED <<mocks, leaving, asserts>>

\* A port that is taken is an error of the script.
StartMock(p) ==
  /\ Step
  /\ \A m \in mocks : m.port # p
  /\ mocks' = mocks \cup {[port |-> p, by |-> Here]}
  /\ UNCHANGED <<sessions, talking, leaving, asserts>>

Asserts ==
  /\ Step
  /\ Check
  /\ UNCHANGED opened

AwaitUntil(w) ==
  /\ Step
  /\ w[1] = Program
  /\ UntilBegins(w)
  /\ UNCHANGED opened

\* The promises of a host go on while it runs a script.
PollRetries(w) ==
  /\ Scripting /\ w \in Mine
  /\ UntilRetries(w)
  /\ UNCHANGED <<place, opened, told, steps>>

PollSettles(w) ==
  /\ Scripting /\ w \in Mine
  /\ UntilSettles(w)
  /\ UNCHANGED <<place, opened, told, steps>>

Script ==
  \/ \E n \in Names : ConnectAgent(n)
  \/ \E p \in Ports : StartMock(p)
  \/ Asserts
  \/ \E i \in 1 .. MaxWaiters : AwaitUntil(<<Program, i>>)

\* A worker gets a call, or its call ends.
CallComes(n) ==
  /\ \E s \in sessions : s.name = n
  /\ Scripting
  /\ n \notin talking
  /\ talking' = talking \cup {n}
  /\ UNCHANGED <<place, told, steps, asserts, sessions, mocks, leaving>>

CallEnds(n) ==
  /\ n \in talking
  /\ talking' = talking \ {n}
  /\ UNCHANGED <<place, told, steps, asserts, sessions, mocks, leaving>>

\* A script can only end in Rhai when what it waits for has ended.
Ends(t) ==
  /\ lang = "rhai" => Mine = {}
  /\ t \in Thrown

-----------------------------------------------------------------------------
(* Phase 1: every file is built and its top-level code run, in order.      *)

ResetAgentsOnly == sessions' = {} /\ talking' = {} /\ UNCHANGED <<mocks, leaving>>
\* All mock servers stop and all workers end before this returns: one step, as
\* every Drop is bounded (AgentQuery has the worker that does not answer one).
ResetSessions ==
  /\ sessions' = {} /\ talking' = {} /\ mocks' = {}
  /\ UNCHANGED leaving

Verdict(ok) == verdicts' = [verdicts EXCEPT ![Program] = IF ok THEN "passed" ELSE "failed"]

NextFile(queue) ==
  /\ file' = file + 1 /\ pc' = "build" /\ deferred' = queue /\ known' = 0
  /\ UNCHANGED <<lang, programs, filters, sc>>

BuildFails ==
  /\ pc = "build" /\ file <= Len(programs) /\ ~Builds(lang, Program)
  /\ agg' = [agg EXCEPT !.files = @ + 1]
  /\ Verdict(FALSE)
  /\ NextFile(deferred) /\ UNCHANGED focus
  /\ UNCHANGED <<opened, result, reports, verdict, steps, asserts>>

BuildHost ==
  /\ pc = "build" /\ file <= Len(programs) /\ Builds(lang, Program)
  /\ agg' = [agg EXCEPT !.files = @ + 1]
  /\ pc' = "top"
  /\ UNCHANGED <<lang, programs, filters, file, sc, known, deferred, focus, opened, result, reports,
                 verdicts, verdict, steps, asserts>>

\* scenario(name, options, body)
RegisterScenario ==
  /\ pc = "top" /\ Parses(lang, Program) /\ known < Len(Infos)
  /\ known' = known + 1
  /\ UNCHANGED <<lang, programs, filters, pc, file, sc, deferred, focus, opened, told, steps, asserts>>

\* What the top-level pass has registered, up to where it failed.
Registered == SubSeq(Infos, 1, known)

\* A file without scenarios has run by now: it is finished here.
TopLevelSingle(ok) ==
  /\ Registered = << >>
  /\ ResetSessions
  /\ Verdict(ok)
  /\ agg' = [agg EXCEPT !.scenarios = @ + 1, !.passed_scenarios = @ + (IF ok THEN 1 ELSE 0),
                        !.passed_files = @ + (IF ok THEN 1 ELSE 0)]
  /\ HostDropped(Program)
  /\ NextFile(deferred) /\ UNCHANGED focus

TopLevelError ==
  /\ Registered # << >>
  /\ Verdict(FALSE)
  /\ HostDropped(Program)
  /\ NextFile(deferred)
  /\ UNCHANGED <<focus, opened, agg>>

\* A suite waits until it is known whether any file has a focused scenario.
Defer ==
  /\ Registered # << >>
  /\ focus' = (focus \/ \E i \in DOMAIN Infos : Infos[i].only)
  /\ NextFile(Append(deferred, file))
  /\ UNCHANGED <<opened, verdicts, agg, asserts>>

TopLevelEnds ==
  /\ pc = "top"
  /\ \E t \in Thrown :
       /\ Ends(t)
       /\ IF Parses(lang, Program) THEN t = "nothing" => known = Len(Infos) ELSE t = "error"
       /\ \/ TopLevelSingle(t = "nothing")
          \/ t # "nothing" /\ TopLevelError
          \/ t = "nothing" /\ Defer
  /\ UNCHANGED <<result, reports, verdict, steps>>

-----------------------------------------------------------------------------
(* Phase 2: the scenarios of the suites.                                   *)

BetweenSuites == pc = "suite" \/ (pc = "build" /\ file > Len(programs))

SuiteStarts ==
  /\ BetweenSuites
  /\ deferred # << >>
  /\ file' = Head(deferred) /\ deferred' = Tail(deferred)
  /\ sc' = 1 /\ pc' = "scenario"
  /\ UNCHANGED <<lang, programs, filters, known, focus, opened, told, steps, asserts>>

ChosenInFile(info) == Selects(filters, info) /\ ((\E i \in DOMAIN Infos : Infos[i].only) => info.only)
\* The filters and the focus of the whole run say which scenarios count.
Chosen(info) == Selects(filters, info) /\ (focus => info.only)

Report(outcome) == reports' = [reports EXCEPT ![Program] = Append(@, [sc |-> sc, outcome |-> outcome])]

Advance(to) == pc' = to /\ UNCHANGED <<lang, programs, filters, file, known, deferred, focus>>

NotChosen ==
  /\ pc = "scenario" /\ sc <= Len(Infos) /\ ~Chosen(Infos[sc])
  /\ sc' = sc + 1
  /\ Advance("scenario")
  /\ UNCHANGED <<opened, told, steps, asserts>>

StaticSkip ==
  /\ pc = "scenario" /\ sc <= Len(Infos) /\ Chosen(Infos[sc]) /\ Infos[sc].skip
  /\ Report("skipped")
  /\ sc' = sc + 1
  /\ Advance("scenario")
  /\ UNCHANGED <<opened, result, verdicts, agg, verdict, steps, asserts>>

RunScenario ==
  /\ pc = "scenario" /\ sc <= Len(Infos) /\ Chosen(Infos[sc]) /\ ~Infos[sc].skip
  /\ Advance(IF Disk[Program].setup THEN "setup" ELSE "body")
  /\ UNCHANGED <<sc, opened, told, steps, asserts>>

\* A setup that fails, or skips, is the result, and nothing is torn down.
SetupEnds ==
  /\ pc = "setup"
  /\ \E t \in Thrown :
       /\ Ends(t)
       /\ \/ t = "nothing" /\ Advance("body") /\ UNCHANGED result
          \/ t # "nothing" /\ result' = Classify(lang, t) /\ Advance("report")
  /\ UNCHANGED <<sc, opened, reports, verdicts, agg, verdict, steps, asserts>>

BodyEnds ==
  /\ pc = "body"
  /\ \E t \in Thrown : Ends(t) /\ result' = Classify(lang, t)
  /\ Advance(IF Disk[Program].teardown THEN "teardown" ELSE "report")
  /\ UNCHANGED <<sc, opened, reports, verdicts, agg, verdict, steps, asserts>>

\* How teardown itself ends says nothing of the scenario.
TeardownEnds ==
  /\ pc = "teardown"
  /\ \E t \in Thrown : Ends(t)
  /\ Advance("report")
  /\ UNCHANGED <<sc, opened, result, reports, verdicts, agg, verdict, steps, asserts>>

ScenarioEnds ==
  /\ pc = "report"
  /\ ResetSessions
  /\ Report(result)
  /\ result' = "passed"
  /\ sc' = sc + 1
  /\ Advance("scenario")
  /\ UNCHANGED <<verdicts, agg, verdict, steps, asserts>>

Reported(o) == Cardinality({i \in DOMAIN reports[Program] : reports[Program][i].outcome \in o})

\* A file passes when none of its scenarios failed.
Passes == Reported({"passed", "skipped"}) = Len(reports[Program])

SuiteEnds ==
  /\ pc = "scenario" /\ sc > Len(Infos)
  /\ ResetSessions
  /\ Verdict(Passes)
  /\ agg' = [agg EXCEPT !.scenarios = @ + Len(reports[Program]),
                        !.passed_scenarios = @ + Reported({"passed"}),
                        !.skipped_scenarios = @ + Reported({"skipped"}),
                        !.passed_files = @ + (IF Passes THEN 1 ELSE 0)]
  /\ HostDropped(Program)
  /\ Advance("suite") /\ sc' = 0
  /\ UNCHANGED <<result, reports, verdict, steps>>

-----------------------------------------------------------------------------
(* The end of the run.                                                     *)

TakeSessions ==
  /\ leaving' = {s.name : s \in sessions}
  /\ sessions' = {}
  /\ UNCHANGED <<talking, mocks>>

FilesEnd ==
  /\ BetweenSuites
  /\ deferred = << >>
  /\ TakeSessions
  /\ Advance("flush")
  /\ UNCHANGED <<sc, told, steps, asserts>>

\* The script thread unwinds: its hosts are dropped, its counts are lost.
Panics ==
  /\ Scripting
  /\ verdict' = "panicked"
  /\ TakeSessions
  /\ waiters' = {} /\ UNCHANGED <<depth, stash, noise>>
  /\ Advance("flush")
  /\ UNCHANGED <<sc, result, reports, verdicts, agg, steps>>

\* The BYEs of the calls are awaited, for three seconds at most.
FlushDone ==
  /\ pc = "flush" /\ talking \cap leaving = {}
  /\ Advance("reap")
  /\ UNCHANGED <<sc, opened, told, steps, asserts>>

FlushUntilDone == FlushDone
FlushTimeout ==
  /\ pc = "flush"
  /\ Advance("reap")
  /\ UNCHANGED <<sc, opened, told, steps, asserts>>

\* Every worker is told to end, and waited for.
Reap ==
  /\ pc = "reap"
  /\ leaving' = {} /\ talking' = talking \ leaving
  /\ Advance("verdict")
  /\ UNCHANGED <<sc, sessions, mocks, told, steps, asserts>>

\* The runtime ends with the run, and the mock servers with the runtime.
RunEnd ==
  /\ pc = "verdict"
  /\ verdict' = CASE verdict = "panicked" -> "panicked"
                  [] verdict = "none" /\ IsActive(filters) /\ agg.scenarios = 0 -> "no match"
                  [] verdict = "none" /\ ~(IsActive(filters) /\ agg.scenarios = 0) ->
                       IF agg.passed_files = agg.files THEN "ok" ELSE "failed"
  /\ mocks' = {}
  /\ Advance("ended")
  /\ UNCHANGED <<sc, sessions, talking, leaving, result, reports, verdicts, agg, steps, asserts>>

-----------------------------------------------------------------------------
ScriptEnds == TopLevelEnds \/ SetupEnds \/ BodyEnds \/ TeardownEnds

Runner ==
  \/ BuildFails \/ BuildHost \/ RegisterScenario
  \/ SuiteStarts \/ NotChosen \/ StaticSkip \/ RunScenario \/ ScenarioEnds \/ SuiteEnds
  \/ FilesEnd \/ Reap \/ RunEnd

Next ==
  \/ Script
  \/ \E w \in waiters : PollRetries(w) \/ PollSettles(w)
  \/ \E n \in Names : CallComes(n) \/ CallEnds(n)
  \/ ScriptEnds
  \/ Runner
  \/ Panics
  \/ FlushDone \/ FlushTimeout

\* The thread goes on, an `until` has a deadline, and the three seconds pass.
\* That a script ends is asked of it.  Calls may stay up.
Fairness ==
  /\ WF_vars(Runner) /\ WF_vars(ScriptEnds)
  /\ \A f \in Files : \A i \in 1 .. MaxWaiters : WF_vars(PollSettles(<<f, i>>))
  /\ WF_vars(FlushDone) /\ WF_vars(FlushTimeout)

Spec == Init /\ [][Next]_vars /\ Fairness

-----------------------------------------------------------------------------
(* Properties                                                              *)

\* The scenarios of a suite that the filters and the focus leave.
Wanted(f) ==
  {i \in DOMAIN Disk[f].infos : Selects(filters, Disk[f].infos[i]) /\ (focus => Disk[f].infos[i].only)}

\* The reports r are those of the scenarios in W, each once and in order.
InOrder(r, W) ==
  /\ {r[i].sc : i \in DOMAIN r} = W
  /\ \A i, j \in DOMAIN r : i < j => r[i].sc < r[j].sc
Whole(f) == InOrder(reports[f], Wanted(f))

Outcomes(f) == {reports[f][i].outcome : i \in DOMAIN reports[f]}
PassedFiles == {f \in Files : verdicts[f] = "passed"}

\* A run that ends by itself accounts for everything it was given: every file
\* has a verdict; a suite that passes has reported each of its scenarios that
\* the filters and the focus of the whole run leave, once and in order, and
\* none as failed; and the run passes just when all the files do and
\* something has run if there was a filter (engine/run.rs: run, run_files,
\* run_suite).
Accounted ==
  pc = "ended" /\ verdict # "panicked" =>
    /\ ToSet(programs) = {f \in Files : verdicts[f] # "none"}
    /\ \A f \in Files :
         reports[f] # << >> => Whole(f) /\ (verdicts[f] = "passed" <=> "failed" \notin Outcomes(f))
    /\ \A f \in PassedFiles : Disk[f].infos # << >> => Whole(f)
    /\ agg.passed_files = Cardinality(PassedFiles)
    /\ verdict = "ok" => PassedFiles = ToSet(programs)
    /\ verdict # "ok" => PassedFiles # ToSet(programs) \/ (IsActive(filters) /\ \A f \in Files : reports[f] = << >>)

\* A scenario sees no agent and no mock server that another scenario opened:
\* what is there is its own, or of top-level code (Ctx::reset_sessions).
Isolated ==
  pc \in {"setup", "body", "teardown"} =>
    \A x \in sessions \cup mocks : x.by = Here \/ x.by[2] = 0

\* A condition that is going to be tried again is never shown, however the
\* `until` calls overlap and whatever earlier scripts left polling
\* (Ctx::begin_assert_silent, end_assert_silent).
PollsAreQuiet == ~noise

\* The run ends, though calls do not (the deadline of teardown).
RunEnds == <>(pc = "ended")
=============================================================================
