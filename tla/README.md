# Verification of ringo: TLA+ models, model-checking runs and proofs

ringo is a family of SIP programs built on the C library baresip (Rust, `src/crates/`): a terminal
softphone (`ringo-phone`), a runner of scripted call tests (`ringo-flow`, which can also serve as a
monitor), and an MCP server that lets a client place and take calls (`ringo-mcp`).  `ringo-core` wraps
baresip, whose state is global to its process; `ringo-flow` and `ringo-mcp` therefore run each SIP agent in a
worker process of its own (`ringo-agent`), `ringo-phone` runs baresip on a thread of its own process.

This directory holds TLA+ modules translated from that source, TLC configurations that check them on
small instances, and proofs checked by TLAPS.  `PROJECT.json` maps every definition to the lines it
stands for, gives for every property a plausible bug that breaks it (the definitions commented
`Fault:`), and lists the hazards of the code with the properties that cover them.

Paths below are relative to `src/crates/`.

## 1. Inventory

### How the parts interact

```
 ringo-phone                ringo-flow                        ringo-mcp
 render loop, calls,        scripts -> engine -> sessions     tools -> hub slots -> agents, event log
 control socket             serve: queue -> child runs        bridge thread per worker
      |                            \                              /
      |                             ringo-agent  ProcessClient: query(), commands, streams
      |                                    | stdin / stdout pipes, one worker process per agent
      |                             ringo-agent  worker: command loop, writer, event bridge, header poll
      |                                    |
 ringo-core: Phone trait, events, alerts, audio capture -- closures on the RE thread -- baresip
```

Calls go down (the `Phone` trait, `ToWorker` messages), events come up (`AppEvent`), and every arrow
is asynchronous somewhere: a closure queue, a pipe or a channel lies between the state a component
keeps of the calls and the calls themselves.

### Components

For each: its state, its operations, what is hard about it, and what makes it correct.

**ringo-agent, RPC link** (`ringo-agent/src/{client,worker}.rs`).  State: the pending map of query
waiters and the `dead` flag, the id counter, two pipes, the worker's bounded writer queue, the process.
Operations: `spawn`, `query`, fire-and-forget commands, `request_shutdown`, `Drop`.  Hard: callers race the
reader thread and the death of the worker at unlocked points; replies may be late; either pipe may be
full.  Correct: a query ends with its own answer or with none, nobody waits for ever, no process is left.

**ringo-agent, streams.**  State: event, header and audio receivers, the announced sample rate.  Operations:
the event bridge, the 150 ms header poll, the audio forwarder.  Hard: three producers, one writer, an order
between `RxAudioStarted` and the frames, headers that arrive after the event of their call.  Correct: frames are
tagged with the rate they have; what was announced is delivered before the end of the stream.

**ringo-core, RE thread** (`baresip/re_thread.rs`).  State: the thread's handle, its closure queue.  Operations:
start, stop, `on_re_thread`.  Hard: a closure that meets a thread that is not there, a stop that waits with a
bound.  Correct: no closure runs twice or off its thread.

**ringo-core, phone and events** (`baresip/{phone,events}.rs`).  State: baresip's call list and which call is
current, armed INVITE responses, stored headers, DTMF.  Operations: the commands of the `Phone` trait and the
event handler.  Hard: most commands act on the *current* call, which an incoming call changes.  Correct: a
command meant for a call meets that call or none.

**ringo-core, audio capture** (`baresip/ausrc.rs`).  State: two sample buffers per agent, the process-wide flag
`FULL_CAPTURE`, a frozen flag and a rate per buffer.  Operations: allocation and end of a stream, capture of a
frame, arm and disarm.  Hard: one thread per stream, the flag changed outside the buffer locks, a
cap that shrinks.  Correct: a recording is whole, has nothing old in it, and stays until the next.

**ringo-core, alerts** (`baresip/{sounds,events}.rs`).  State: the sound set a configuration resolved to, the one play
slot of the process that ring, call waiting, ringback and closing tones share.  Operations: play, stop, end of an alert.
Hard: several calls and sessions share the slot, files may refuse to play.  Correct: who waits is heard.

**ringo-core, registration** (`baresip/{mod,phone,events}.rs`).  State: the user agents of the process and what a session
was told.  Hard: a session is dropped or the process stops while a REGISTER or de-REGISTER is in flight; both are
acknowledged with the same event.  Correct: what is shown is true, a stopped process leaves no binding.

**ringo-core, generated sources; the rest.**  The registry of sources and its versions; configuration, trace, statistics.

**ringo-mcp, hub** (`ringo-mcp/src/hub.rs`).  State: a slot per configured agent (async mutex, `Arc<Agent>`), the
bridge thread, `worker_dead`.  Operations: `get`, `stop`, `shutdown`.  Hard: the drop of the last reference reaps the
worker, and four parties hold references.  Correct: never two workers for one registration; crashes are
noticed; a worker nobody needs ends.

**ringo-mcp, event log.**  State: a ring of (id, event), an atomic id counter, a `Notify`.  Operations: `append`,
`page_after`, `first_after`, `wait_event`.  Hard: the id is taken before the lock, the wake-up comes after it.
Correct: a cursor skips nothing, loss is told, no wake-up is lost.

**ringo-mcp, recording.**  State: current and reserved generation, the default.  Operations: `record_start`,
`record_stop`, `dial`/`accept` with `record`, the bridge's decision per event.  Hard: flags and worker are a pipe
apart, the bridge's and the tools' steps interleave.  Correct: they agree; a recording belongs to its call.

**ringo-mcp, tool calls and trace.**  Which event confirms a dial, optimistic call phases, waits on the broadcast
channel, paging of a growing file.

**ringo-flow, runner** (`engine/{run,ctx}.rs`).  State: the collected scenarios and hooks, the sessions, the
results.  Operations: the two phases (collect, run), hooks, teardown, filters.  Hard: what still runs after a failure or a
panic, and which sessions a scenario inherits.  Correct: teardown always runs, no scenario is skipped silently.

**ringo-flow, assertions** (`engine/{assertion,ctx}.rs`).  State: how many conditions poll, the last silenced assertion.
Hard: in JavaScript several poll at once.  Correct: what is tried again is not shown.

**ringo-flow, sessions and waits** (`runtime/`).  State: per agent a view folded from its events, in a watch channel; the
headers of INVITEs from a queue of their own.  Operations: connect, the verbs, the getters, `wait`, `until`.  Hard: a condition
that is true for a moment only, calls that overlap.  Correct: the view is the worker's truth, once the events are in; a wait
accuses only calls that dropped.

**ringo-flow, mock server** (`engine/mock_server.rs`).  State: routes, recorded requests, one bounded queue per JavaScript
responder.  Operations: respond, receive, look up, hand over, pump, shut down.  Hard: the thread that answers is blocked in
other verbs; the end of the scenario waits for the server's task.  Correct: every request is answered, the scenario ends.

**ringo-flow, serve** (`serve/`).  State: one bounded queue, one worker, the child process and its output, the
metrics store.  Operations: cron ticks, `POST /run`, the child's lines, exit, timeout, record, reply.  Hard: blocked
senders, callers that hang up, a child that ends before its output is read or never ends.  Correct:
runs never overlap, none is lost or counted twice, everyone is answered.

**ringo-phone, session** (`tui/`).  State: the calls on the screen, the selected index, mute and deafen flags, the
transfer mode.  Operations: keys, command-line and remote commands, and the events of calls.  Hard: the list lags
behind baresip's, a handler's commands are separate closures.  Correct: the lists agree, a command meets its call, the
hook and the history tell the truth.

**ringo-phone, keys and fields** (`tui/{keys,dial,transfer,contacts,call_history,command}.rs`).  State: which overlays and popups
are open, two text fields with cursors and a shared history mode, lists read from files, what a popup is about to delete.
Hard: views are asked for a key in an order of their own, events of calls change fields between two keys.  Correct: the view on
top takes the key, no cursor leaves its text, what is deleted is what was asked for.

**ringo-phone, profiles** (`app.rs`, `picker.rs`, `form/`) and **ringo-profile**.  State: the profiles on disk, the list of recent ones, the
picker's and the form's copies.  Hard: another program changes profiles meanwhile; errors concern rows that are not
shown.  Correct: nothing is overwritten or deleted that was not asked for; an error is under the focus.

**ringo-phone, the rest.**  Control socket, hooks, notifications, drawing, configuration.

## 2. Modules

The order in which the modules were written is the order of their weight: what several parties race for first, what one thread does
afterwards.  All rows are done; what remains is in section 7.

| module | of | composed of |
|---|---|---|
| `AgentQuery`, abstract `AgentRpc` | the RPC link | `AgentQuery` implements `AgentRpc` |
| `McpEventLog` | the event log and its cursors | |
| `McpHub` | a slot of the hub | |
| `McpRecording` | per-call recording | |
| `CoreCapture` | audio capture | |
| `CoreProcess` | RE thread, sessions, registration, alerts | over `CoreSounds` |
| `FlowServe` | the monitor server | |
| `FlowRun` | a run of the test runner | over `FlowFiles` and `FlowAsserts` |
| `FlowScenario` | one scenario next to its agents and its server | over `FlowAgents` and `FlowMock` |
| `PhoneCalls` | the calls of a phone session | over `CoreCalls` |
| `PhoneKeys` | keys, fields, overlays, command bar | over `PhoneLists`, `PhoneInput` |
| `PhoneProfiles` | a process from view to view | over `PhoneMenus`, `PhoneForm` |

`MC...` modules give constants their values; `...Proofs` modules hold the theorems.  `CoreCalls`, `FlowAgents` and `CoreProcess` each see
baresip's calls at the detail their properties need: the list and the current call; the events of an agent a script
watches; the tones a call depends on.  Each module's type correctness is a definition (`TypeOK`, `ProcessTypeOK`, ...), proved where a
theorem needs it; the runs check the properties that could be wrong.

## 3. What is modelled

### `AgentQuery`, `AgentRpc`

One worker.  Callers go through `query()` in steps, one per point where another thread may come in:
`QueryCheck` (the unlocked test of `dead` and the id), `QueryRegister` (under the lock), `QuerySend` (the pipe),
`QueryReply`/`QueryClosed`/`QueryTimeout`, `QueryExpire` (removing the waiter).  The reader thread is `ReadReady`,
`ReadEvent`, `ReadReply`, `ReadEof`, `DrainBegin`, `DrainEnd`; the owner spawns, asks for shutdown and drops
(`SpawnOk`, `SpawnFail`, `RequestShutdown`, `DropBegin` to `DropKill`); the worker boots, serves, pushes
events, tears down, crashes or hangs.  A message is its type, its id and the kind of question.  Commands without an
answer are bytes on the same pipe and are not actions.  Death of the worker cuts both queues, keeping a prefix
of what was in flight to the parent.

`AgentRpc` is what callers may rely on: asked, then answered or given up, and nothing is answered once lost.
`RefinesRpc` maps a query to `doomed` from the moment it can only end with nothing.

### `McpEventLog`

`append()` is three steps (`AppendId`, `AppendPush`, `AppendNotify`), `wait_event` with a cursor is `WaitEvent`,
`WaitArm`, `WaitCheck`, `WaitWake`, `WaitTimeout`, and `agent_events` is one step under the lock, after which the client
goes on from the last id it was given or from the page's `newest_id`.  A worker's bridge may start while the one before it still appends,
as after `agent_stop`.  An event is its id and the name a filter sees.  History is what a client was given (`seen`) and told is lost
(`told`), the ids that were between id and push at once (`crossed`), and those on their way into the ring when a client took `newest_id`
(`early`).

### `McpHub`

One slot: slots share nothing.  A tool call gets the agent (`GetRunning`, or `GetSpawn` which keeps the async mutex
until `SpawnTaken` or `SpawnFailed`), uses it, or stops it.  A worker's process, its bridge and the thread that drops a
stopped agent are separate; `Clients(g)` says who still refers to generation `g`, and `Reap` is the drop of the
last reference.  `ClientGone`, `Shutdown`, `RuntimeShutdown`, `Exit` are `main()`.

### `McpRecording`

Each tool call is split where the code is: each atomic of `RecordingState`, then the command.  The bridge
receives an event, goes through `on_event` atomic by atomic, and sends its command.  Any number of tools run at once, and beside the
bridge at any of its steps; a client dials again when it likes.  The worker has calls and
an armed generation, behind a command pipe and an event stream.  A dial may be rejected at any time.  `clash`, `open` and `wanted` are
history: that an arm and a disarm crossed, and the recorded dials that nothing else has met.

### `CoreCapture`

Per buffer (sent, received) the samples, the frozen flag and the rate.  A stream allocates in two steps (it reads
the flag, then acts on the buffer); the render loop reads the flag before it captures; `arm_capture` swaps the flag
and then goes over the buffers one at a time, and streams capture at any of these steps.  A frame is the number of arms before it, which is what
tells a fresh recording from an old one.  `got` counts the frames captured since the arm, whatever becomes of the buffer; `met` notes what
a recording met: another rate, a command under way in an allocation, a stop under way in a capture.

### `CoreSounds`, `CoreProcess`

`CoreSounds` is `load_sounds`, the preflight of a file from its header (`head_is_playable`) and the slot: `PlayAlert`,
`StopAlert`.  A file that passed the preflight may still be refused when it is played; a tone is taken to work.
`CoreProcess` has the process around it: sessions spawned and dropped one at a time (the phone drops before the next
profile, a worker has one), user agents that stay in libre's list while they de-register, registrar answers of all kinds,
voicemail, calls with the alerts each event plays and stops (`end_alert_for` included), the RE thread's poll and what wakes it,
and the stop: the bounded wait for de-registrations, the cancel, the dummy event, the join.  Every handler and closure is one step,
since libre runs them on one thread.  `hushed` is history: waiting calls that the user silenced, whose tone is configured off, or beside which
a call of another user agent was answered or ended.  It follows from the calls, never from what the handler silenced.

### `FlowServe`

Schedulers and callers send to one queue (senders blocked on a full one are its tail, which is how tokio serves
them), the worker takes a request, spawns, waits for the exit or the timeout, collects the output to its end, kills a
child that timed out, records, replies.  A child writes lines and may exit; its output ends when the workers that inherited it have ended
too (`OutputEnds`), and neither need ever happen.  `collected` is what was folded of the lines.

### `FlowFiles`, `FlowAsserts`, `FlowRun`

`FlowFiles` chooses the frontend and the files, and says what a filter selects.  `FlowRun` runs them: top-level code registers
scenarios (`BuildHost`, `RegisterScenario`), files with scenarios wait for phase 2, so that a focus in a later file counts for an earlier one, then
setup, body and teardown per scenario, with the reset of what it opened.  A script takes any steps up to a bound: it connects
agents, starts servers, asserts, polls; it ends well, with an error, as a skip or with a panic.  Teardown hangs up and waits with a
deadline.  `by` notes on each session and server which scenario opened it.  `FlowAsserts` is `SILENCE_DEPTH` with the last
silenced assertion; `noise` is history: a condition was shown and then tried again.

### `FlowAgents`, `FlowMock`, `FlowScenario`

`FlowAgents` has each agent's worker (calls that come, are answered and end), the events on their way (`emitted`), the view that
`reduce` folds, commands sent and not waited for, armed INVITE responses, and headers that come apart from their event and are
picked up by a tick.  `FlowMock` has the route table and its lookup, a request's way from `Receive` to its answer with one phase
per await, the responders' bounded queues, the ten seconds of a bridged request, and the graceful stop.  `FlowScenario` is the script's
thread: verbs that return at once, and `wait`, `until` and `http`, which hold it; in JavaScript several may be awaited together.  Its end is
`Reset`, `ResetEnds`.

### `CoreCalls`, `PhoneCalls`

`CoreCalls` is one user agent: baresip's call list (the tail is current), the commands on it, the remote
parties and the events.  baresip itself is external and modelled from how `baresip/phone.rs` and `events.rs` use it.
`PhoneCalls` adds the screen.  A key's handler is one step that changes the screen and leaves its commands in
`todo`; `SendCommand` runs them one by one, so the network comes in between; no key or event is taken until
they are done, as the session's thread would be busy.  `deflect` is the exception: it waits for its answer, so it is part
of its handler's step.  Events wait in a channel until the loop takes them.

### `PhoneInput`, `PhoneLists`, `PhoneKeys`

`PhoneInput` is the number to dial and the transfer target, with the history both browse and search; a text is its length, because
what may go wrong is where the cursor is.  `PhoneLists` is contacts and call history: the lists, the files, the overlays with their
search, edit form and delete popups.  `PhoneKeys` is who gets a key: `KeyOrder`, the order of `keys.rs`, next to `DrawOrder`, the order in
which `ui.rs` draws.  Between two keys calls come and end, which closes popups and changes fields, and remote requests arrive.  The list of
calls is reduced to how many there are and whether the selected one rings; `PhoneCalls` has the rest.  Whether a query matches an entry is free.

### `PhoneForm`, `PhoneMenus`, `PhoneProfiles`

`PhoneForm` is the form: tabs, rows, which rows a password source hides, what a profile becomes in it and what profile it makes.
`PhoneMenus` is the two sub-menus, codecs and header pairs.  `PhoneProfiles` is the process: picker, its confirmations, create, edit, save,
rename, delete, recent list, and the session; `Elsewhere` is another program that changes profiles at any time.

## 4. Runs

All runs finish; the figures are distinct states.

| run | states | properties | asks |
|---|---|---|---|
| `agent_query_hang` | 281 k | `NoStrandedQuery` `RepliesMatch` `NoProcessLeftBehind` `RefinesRpc` `QueryReturns` `DropReaps` | do concurrent queries against a worker that crashes or hangs end, each with its own answer, with full pipes on both sides; does the client implement `AgentRpc` |
| `mcp_event_log_ring` | 1.7 M | `NoSkip` `NoLostWakeup` `PagesTellLoss` | can a cursor skip an event or a waiter sleep through one while the ring overflows and the bridges of successive workers overlap |
| `mcp_hub_slot` | 11 k | `OneOwner` `StoppedEnds` `CrashNoticed` | can two workers claim one registration; are crashes noticed; do stopped workers end |
| `mcp_recording_calls` | 4.7 M | `FlagsAgree` `DialedIsRecorded` | do flags and worker agree while tools and the bridge interleave and events and commands lag behind |
| `core_capture_record` | 2.6 M | `RecordingWhole` `RecordingFresh` | is a recording whole and fresh over calls, holds and stops |
| `core_alerts` | 246 k | `Audible` `ToldIsTrue` `Deregistered` `StopEnds` | is a waiting call heard whatever shares the slot; is a sign-off ever shown as a registration; does the process stop, and with nothing left at the registrar |
| `flow_serve_post` | 352 k | `Serialised` `Ledger` `Answered` | is every run accounted for and every caller answered |
| `flow_run_suites` | 130 k | `Accounted` `Isolated` `PollsAreQuiet` `RunEnds` | is each scenario accounted for under filters, focus, errors and a panic; does it see what another opened; does the run end |
| `flow_scenario` | 304 k | `FoldsToTruth` `WaitTells` `AllAnswered` `ScenarioConcludes` | is the folded view the worker's truth; does `wait` accuse the right calls; are requests answered by a thread that is busy |
| `phone_calls_keys` | 2.8 M | `ListsAgree` `SelectedIsHit` `EndsAreTrue` `DeflectSpares` | do the lists agree, do commands meet their call, do reports tell the truth |
| `phone_keys_views` | 729 k | `KeysGoToTheTop` `Inside` `Deletes` | does the view on top take the keys; does a cursor or an index leave what it points into; is what is deleted what was asked for |
| `phone_profiles_views` | 812 k | `ErrorUnderFocus` `Spares` | is an error where the focus is; is a profile lost that nobody asked to lose |

**Bounds.**  A race takes two parties and one thing they race for; each instance has two of whatever can
race and one more of what must be told apart afterwards.  `agent_query_hang`: two callers and two queries let a
late reply meet its own expired query, another caller's query and the same caller's next one; pipes of one message
make each side meet a full one.  `mcp_event_log_ring`: a ring of two with three events of two workers overflows behind a
reader; pages of one need two reads; two bridges are between id and push at once.  `mcp_hub_slot`: two tool calls and one respawn.  `core_capture_record`: a
stream that is sent and two that are received, which overlap, one recording that is stopped in a call or after it, a retention of two frames
and of one, and three frames, so that each buffer is over its cap.  `mcp_recording_calls`: two tools with two calls each, beside the
bridge, and three calls, so that one may end, one be up and one be dialed.  `core_alerts`: two sessions, so that a
user agent on its way out meets the next session's; two calls at a time; two configurations whose files play, do not play, are turned off or
unknown.  With two calls one branch cannot matter, that nothing is restored while yet another call is
established.  `flow_serve_post`: a queue of one
with a scheduler and a caller blocks a sender.  `flow_run_suites`: six files of both kinds (with hooks, a focus,
a skip, tags, a helper without scenarios, one that does not parse, a link), five command lines of one to three of them, four filters, and three
steps of scripts, which is an open session and two overlapping polls.  `flow_scenario`: one agent with two calls, three verbs, two
outside happenings, routes that overlap, and a responder's queue of one, which two requests fill.  `phone_calls_keys`: three calls and
four keys cover an attended transfer from its first key to its last; `MaxLag = 1` bounds what the *network* adds to a
queue nobody drains, while commands may add more.  `phone_keys_views`: texts of two characters (a cursor has a beginning, a
middle and an end), two names with and without a number, so that the rows are not the contacts; the number of keys is not bounded.
`phone_profiles_views`: two names, one form with one key that changes a field, and one change from elsewhere.

**Deadlock** is checked in `agent_query_hang` and `mcp_hub_slot`, where `Terminated` marks the ends that are meant.  The
other behaviours stop at a bound or because nobody calls any more.

### Where the code and its words part

What follows was met while modelling.  The models do what the code does, and no constant, fairness or guard keeps a case away.  The
properties are stated so that they hold of it: what the code lets happen against its words is an exception in the formula itself, told by
what happened and named in the property's comment; without any one of them TLC refutes the property.

- `McpEventLog`: a client that continues from a page's `newest_id` can skip an event whose id was taken but not pushed (`early` in `NoSkip`
  and `PagesTellLoss`; `hub.rs` 76, where 110 says that "a client holding it skips nothing").  After `agent_stop` two bridges can push their ids out
  of order (`crossed`; `hub.rs` 358).  `wait_event` with a cursor that fell off the ring says nothing of it (`hub.rs` 641).
- `CoreCapture`: `record_stop` during a call can trim the recording to the verification window: the flag goes down before the buffers are
  frozen (`"stop"` in `RecordingWhole`; `ausrc.rs` 683, against the test's comment at 1137).  A stream at another rate empties
  the buffer (`"rate"`), and so may an allocation that read the flag before an arm (`"command"`; `ausrc.rs` 756).
- `McpRecording`: an arm and a disarm whose flags and commands cross leave the worker with the other one's (`clash` in `FlagsAgree`); so a tool that
  re-arms between the bridge's compare-exchange and its disarm command does not win, as `hub.rs` 1041 says it does.  There is one reservation:
  a dial still unconfirmed takes the next dial's (`wanted` in `DialedIsRecorded`; `hub.rs` 952, 1026).  A dial without a call leaves its
  reservation, so its recording does not end with the next call (`docs/src/ringo-mcp/tools.md` 202).
- `FlowServe`: a child, or a worker of it, that keeps its output open is never killed and blocks the server's worker for good, as the end of
  the output is awaited before the kill (`Hung` in `Answered`; `runner.rs` 193, where 8 says "kill the child, keep serving").
- `AgentQuery`: `QueryReturns` and `DropReaps` except `PipeStuck`, a message to a hung worker behind a full stdin
  pipe (`client.rs` 549).  `McpHub`: a spawn that lands between `Hub::shutdown` and the end of the runtime leaves a worker nobody
  told (`hub.rs` 382).
- `PhoneCalls`: the end of one call clears the mute shown for another that stays muted (`call.rs` 216); a caller who cancels while being
  rejected makes the rejection hang up the established call (`call.rs` 449); a call listed before the selected one ends and the
  index names the next one (`call.rs` 220).
- `PhoneKeys`, `PhoneLists`: deleting one history entry writes the list back as it was read, so calls ended since are lost from the file; a
  `contacts.toml` that does not parse is an empty list, and the next save overwrites it; `q` is said to close the help and detail views but
  ends the session; an open edit form keeps events and remote requests waiting.  A history file that was edited to
  hold a number twice (`history.rs` 8 does not look) gets shorter when that is dialed, and the place in it that is shown may be gone;
  `PhoneInputAssumption` leaves that out.
- `CoreProcess`: when a call of another user agent is answered or ends, one of a dropped session, the tone of a waiting call stops (`hushed` in
  `Audible`; `events.rs` 170, 180); a second call rings in full during a conversation; ringback is not restored after a waiting call ends; the user agent
  of a dropped session still takes INVITEs and rings with no session to answer; a new session's sounds replace those of the
  process; armed responses and stored headers outlive the session.
- `FlowRun`: `default_timeout` of any file is that of all; an `until` left over from a rejected `Promise.all` keeps assertions silent; two scenarios
  of one name run the first body twice; helper files in a JavaScript directory are empty passes; a `.rhai` file named together with a
  `.js` file goes to the JavaScript frontend; sessions that top-level code opened live until the next reset; `skip()` inside `until` fails.
- `FlowScenario`: a `wait` with no call up returns at once (`wait.rs` 42), a script's own hangup is reported as a drop, a
  request before a full responder's queue waits in `send` without its timeout and holds the end of the scenario (`Stuck`;
  `mock_server.rs` 370), a `deflect_to` declared with an agent is armed after it has connected, and a JavaScript route for `"*"` as a
  literal path never matches.

## 5. Fairness

Safety properties use none.  The liveness properties assume the following.

- `AgentQuery`: every thread that can run does.  The timeouts are assumed to be *relied on* only against a
  hung worker: in all other states a waiting thread must be freed by a message, by the end of a stream or by the reader's
  drain, which is stronger than the code needs.  Nothing is assumed of crashes or of new queries.
- `McpHub`: strong fairness for tool calls, because tokio's mutex queues its waiters and a release is followed by the
  next one in the queue; weak fairness for the other threads.  A spawn ends, because `AgentQuery` shows that it has a
  timeout.
- `CoreProcess`: the stopping thread goes on and the RE thread returns from a poll that has something.  Nothing is assumed of the
  registrar or of calls: the wait for them is bounded in the code.
- `FlowServe`: tokio runs the tasks that can go on and the timer fires.  Nothing is assumed of a child or of its output; that an output
  stays open for ever is an alternative of `Answered` (`<>[]Hung`).
- `FlowRun`: scripts end (an endless loop in a script is not the runner's), polls settle by their timeout, and the runner goes on.
  Nothing is assumed of calls.
- `FlowScenario`: the script's thread, the timers and the server's tasks go on.  Nothing is assumed of the network, the agents' events or the
  system under test.

## 6. Proofs

The theorems hold for every value of the constants that the modules' `ASSUME`s allow (any finite or infinite set of callers, any
capacities, any bounds).

`AgentQueryProofs` — `TypeInvariant`, `NoStranding`, `Matching`, `NoLeak`, `Reaping`.  `NoStrandedQuery` is not
inductive: that a waiter is released by the drain depends on its Sender being in the map.  The inductive
invariant `IInv` adds that an open channel has an entry until its query is over (`OpenIsPending`), that ids are below
`next_id` and shared by no two callers nor by an entry of another (`IdInv`), that messages and sent values carry the
kind of the query with their id (`MessageInv`, `ValueInv`), how far the drain is (`DrainInv`), and that a spawn that
failed or a drop that is done left no process.  `Inductive` has one step per action; lemmas say what writing,
emitting and the worker's death do to the queues.

The same module proves `Refinement`: every step of `AgentQuery` is a step of `AgentRpc` or a stutter under the mapping in
`RefinesRpc`.  It uses `IInv`: a reply may answer a query only because the value sent is of its kind; the drain
and the loss of the worker map to `Lose` of the callers it leaves without an answer.

`McpEventLogProofs` — `TypeInvariant`, `Wakeups`, `NoSkipping`, `LossIsTold`, for any number of clients and of bridges that overlap and for both
cursors.  The argument for `NoSkipping`: of two ids that did not cross, the smaller is pushed first.  So the ring is sorted but for crossed
ids (`Ordered`), an id on its way is newer than what is in the ring (`Ahead`), two on their way at once have crossed (`Meet`),
and what left the ring is older than all that is in it or on its way (`Gone`).  A page, which is a prefix of
the newer entries (`PageIsPrefix`), and the oldest match of a wait then leave no gap.
`PagesTellLoss` follows from the same: what a page passes over is below the oldest entry, and the page says so (`PageTells`).
`NoLostWakeup` is inductive given the types and the place of the bridges: a waiter arms before it checks.

`McpHubProofs` — `SingleOwner`.  `OneOwner` counts the workers that nobody told to go, which alone is not inductive: a new worker may only be
started when there is none.  `IInv` adds that the lock is held by the one tool call that spawns (`Locked`), that what the bridge has noted as
dead is gone (`Noted`), and that, while tool calls run, such a worker is the slot's or the one whose spawn holds the lock, in which case
the slot's is dead (`Owned`).

`CoreProofs` — of the process `NoBindingLeft`, `ToldTrue`, `Heard`, of captured audio `NothingOlder`, `NothingLost`.  Calls, alerts and
voicemail disturb neither of the first two (`CallsAreAside`).  `NoBindingLeft` needs the
order of the application thread: sessions are dropped before the process stops (`EndOfSessions`), a dropped user agent is off or on its
way out (`LifeOfUa`), and the RE thread is gone only after it was asked to go (`LifeOfThread`).  `ToldTrue` needs that the event handler asks
libre's flag when it handles the event.
`Heard` for `Audible` is about the one slot of the player: no loop is in it unless
it was started, and what else is played leaves a loop alone (`Plays`).  The invariant `RingsOn` says more than `Audible`: a waiting call that nobody
silenced has a loop in the slot also when another call of its user agent is up.  It needs to know that a configuration leaves a source for
every alert, which is `CoreSoundsAssumption`: `Resolve` is a fold, so TLC evaluates it and the proof assumes it.
What a call of another user agent stops is excepted by `hushed`; its own user agent's calls may come and go as they like.
`NothingOlder` is about `RecordingFresh`, and `NothingLost` about `RecordingWhole`, with streams that capture at any step of a command.
Both hold between two arms only; the invariants say what holds while
`arm_capture` goes over the buffers.  A buffer it has `Passed` obeys the flag: it holds the present recording's frames if the flag is up (`Current`).
A buffer it has not passed on a stop still holds what the flag it replaced made of it, and is whole, as one that is frozen is (`Kept`).
Streams capture only into buffers with an entry (`Entries`), since an arm leaves a buffer without one alone.

`McpRecordingProofs` — `FlagsAgreeSafe` and `DialedIsRecordedSafe`, for any tool calls at once, calls, commands and events, with nothing assumed
of the client.  While commands and events are on their way flags and worker may well disagree.  For the first, every flag that was
set is followed by its command, so that, unless two that are opposite crossed, what the last command in the pipe leaves the worker with
is what the flags say (`Told`).  For the second, a reservation follows its dial from the tool that drew it through the pipe and the event
stream (`ForDial`, `Pending`, `Unique`): until the bridge has seen the outgoing call, `current = reserved` keeps it from disarming, and from
then on the call is one it knows (`Held`, `Known`).

`PhoneProofs` — `ListsAgreeSafe`, `EndsAreTrueSafe`, `SelectedIsHitSafe`, `DeflectSparesSafe`.  Four things are kept.  Of baresip: its
list has every call that is not gone, once (`CoreInv`).  Of the channel: the first of a call's events opens it and the last closes it
(`Ordered`), so that one taken from the front changes what waits for one call only (`PopTells`).  Of the screen: a call is
shown or about to be until its end was read, and what was noted of it is true (`Followed`, `Noted`).  Of a handler's commands: one for a
selected call follows its selection (`Picked`).  A command or the network does one of five things to baresip's calls (`Minor`, `Begins`,
`Reports`, `Ends`, `Closes`), and what follows for the session is proved once for each.

The same module has the picker and its forms.  `ErrorsUnderFocus` for `ErrorUnderFocus`: a fault is looked up in the rows of the tab that
has it, and the rows a fault may be in do not depend on the password source, the only thing that hides rows (`FormInv`, `ViewInv`).
`ProfilesSpared` for `Spares`: a step leaves profiles as they are, is another program's change, or writes in one of five ways (`Writes`:
edits of the picked or of the open profile in an editor, a delete, a rename, a save), and each names the profile it overwrites.  That needs
to know that what takes keys as a form is an open one, and that a popup has the shape of its kind (`ViewInv`, `DiskInv`).

`PhoneViewProofs` — `TopTakesKeys` for `KeysGoToTheTop`, `CursorsStayInside` for `Inside`, `DeletesAreAsked` for `Deletes`.  Four things
are kept, each by itself.  Of the fields: a number is in the history once, so that noting it again leaves the history as long and the
place in it that is shown stays valid, and the cursor is inside what a search will put back (`Texts`).  Of the contacts and of the call
history: their types and the form's cursor (`ContactsOK`, `HistoryListOK`).  Of the views: at most one is open, and the command bar
is not open over a search (`OneView`), which ties the others together: a field takes a key only with no view open
(`TakerTakes`), so a key cannot open a second one, and the first of the open ones is the same in both orders (`OnTop`).  `Push` and
`RemoveAt` keep what is cited of them by index (`Pushed`, `Removed`, `RemovedOne`).  Rows of a list are a set of pairs in their order
and a view's taker is the first that is open: the same as a filtered sequence, of which the prover knows nothing.  `PhoneInputAssumption` says
that the history in the file has a number once, which is so of every file `push` wrote.

`FlowProofs` — the three parts of `ringo-flow` that state safety.
`OneRun`, and `BooksBalance` for `Ledger`: `IInv` says that what was accepted of a monitor is what is in the store, in the
queue and with the worker (`Balance`) and that a caller's entry in the queue is its own (`OwnEntries`), since a caller that hangs up
takes exactly that one away.  What remains is counting: `OfAppend`, `OfWithout` say how the entries of one monitor change with the queue.
`Quiet`: the depth of the silence is never below the number of conditions that poll (it may be above: a host
that is dropped ends none of its own).  `Isolation`: what is
open was opened by the scenario that runs, by top-level code, or is about to be dropped, phase by phase of the runner; a
panic skips to the end and opens nothing.
`AllAccounted` for `Accounted`: the books (`Books`) hold at every step of a run that has not panicked.  A file that phase 1 has seen is in
one of three places, finished, put off for phase 2 or in hand (`Shares`), each once because the sorted list of files repeats none
(`SortedOnce`; that there is one, `SortExists`, is an induction on the number of files); the reports of the suite in hand are its wanted scenarios up to the one it is at, in order
(`Records`), and a finished file keeps what was said of it.  The focus may still change in phase 1, when nothing is reported yet.  What is
counted as passed is the number of files that passed (`Counts`), so the run passes just when they all did (`Concluded`).
`DropsAreTrue` for `WaitTells`: a guard reads a view that lags behind the worker, so the invariant speaks of what is reported, on its way
or folded (`Truthful`: an established call is up or was, a closed one is over) and of what a wait guards (`Guarded`: its
calls were up, and one that left the view is over).  It rests on calls that never come back (`GoesOn`, one lemma for each party that moves
one) and on what
one event does to a view (`PutKeeps`, `CloseKeeps`, `ReduceKeeps`).
`ViewsAreTrue` for `FoldsToTruth`: `FoldInv` says of every agent that its view with all of `emitted` folded
in shows the worker's calls, each once and in its phase (`Shows`).  `Folded` is a recursive function; that it has a value, and that two
folds over a common beginning agree, is proved from the least number at which they would not (`AllNumbers`, `ViewsExist`, `ViewsAgree`).
From that a report at the end of the queue is one `Reduce` more (`FoldedAppend`), and taking the first event from the queue into the view
changes nothing (`FoldedTail`).

**Only model-checked.**  Liveness (`QueryReturns`, `DropReaps`, `StoppedEnds`, `CrashNoticed`, `StopEnds`, `Answered`, `RunEnds`,
`AllAnswered`, `ScenarioConcludes`), since fairness and `ENABLED` are outside what the proof system handles.  Every invariant and every
action property the runs check is proved.  The library's induction theorems take an operator as a parameter, which no prover here can
instantiate; where an induction is needed, it is one over the set of numbers a fact holds of (`AllNumbers`).  What the folds of the community
modules compute (`Resolve` of `CoreSounds`) is assumed of the constants, and TLC evaluates it.

**Assumptions.**  The named `ASSUME` of each module; the library's theorems on sequences, functions and finite sets; nothing else.

## 7. What is not modelled, and why

`PROJECT.json` lists every component with its status.  Not modelled, though it has state that moves between threads: the streams
`ringo-agent` pushes (the order of `RxAudioStarted` and frames, the merge of headers), the registry of generated sources with its
versions, which event confirms a dial in `ringo-mcp` and `wait_event` without a cursor, and the paging of a trace that is
being written.  They are the next modules to write, in this order: `AgentStream`, `McpDial` over `CoreCalls`, `CoreSource`, `McpTrace`.

Formatting, parsing and drawing (wire format, configuration, reports, `/metrics`, user
interface, generated bindings) have no interleaving of their own.  Signal processing (tones, tone
verification, resampling) is arithmetic on one buffer.  baresip, libre, axum and tokio are external and modelled only by
what the code observes of them.

Inside the modelled components these are left out: commands of `ringo-agent` that only queue bytes; the `play` tool of
`ringo-mcp`, which shares the recording's pipe; DTMF, statistics, speaker mute; the audio verbs of a scenario, bodies and headers of the
mock server's requests, clients that never finish sending one; tab completion, scrolling and wrapping in the phone; the editor of
settings, shell completion and header templates.
