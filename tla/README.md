# Verboo Code Desktop: formal models

TLA+ models of Verboo Code Desktop, the TLC configurations that model-check them
on small instances, and proofs checked by TLAPS. The reader is expected to have
the repository at hand. Abbreviations of paths below:
`services/` is `src-tauri/src/services/`, `renderer/` is `src/renderer/` and
`chrome/` is `extensions/verboo-chrome/src/`.

Contents: [the system](#the-system), [plan](#plan), [modules](#modules-and-the-code),
[runs](#runs), [bounds](#bounds), [fairness](#fairness), [proofs](#proofs),
[disagreements found](#where-code-and-text-disagree),
[what is not modelled](#not-modelled).

## The system

Verboo Code Desktop is a Tauri application. Its *renderer* (React) shows chats;
its *backend* (Rust) runs one process of the Verboo CLI per message and streams
its output back as events. The CLI is not bundled: the backend downloads signed
versions into a store and keeps a working one selected through failed updates. A
Chrome extension drives the browser and runs recorded routines.

### Inventory

| Part | Source | State it keeps | Operations | Interacts with | Hard behaviour | What makes it correct |
|---|---|---|---|---|---|---|
| CLI store and updater | `services/cli_update/`, `lib.rs` 1300–1850 | `current.json`, `last-known-good.json`, `rejected.json`, version directories, leases, staging; snapshot, candidate, prepared | validate at startup, check, prepare, activate, commit, roll back, collect, lease | update commands, turn gate, every spawn of the CLI | crash or I/O error between two writes; collection beside a lease; restart with the pid of a dead process | pointers name installed versions; the gate opens only on a smoke check; an install can be undone |
| Turn service | `services/turn_service.rs`, `child_signal.rs`, `update_coordinator.rs` | child handles, turn of each conversation, media job of each conversation, install gate | `send_turn`, `interrupt`, reader and escalation threads, `begin_update_install` | renderer (commands, events), CLI processes, video jobs, updater | five locks taken one after another; processes that ignore SIGINT or leave descendants | turns and installs exclude each other; Stop finds the live turn and no other; handles and mappings go with their turn |
| Chat turns | `renderer/App.tsx`, `renderer/state/turnLifecycle.ts`, `features/goal/turnCompletion.ts` | queue of messages, turn of each conversation, turn ids, send lock, interjection | send, queue, flush, interject, recover, handle events | turn service | state read before an await and used after it; events of older turns; replacements | one turn per conversation; never busy for a turn that is over; the queue drains |
| Goal scheduler | `renderer/features/goal/`, `services/goal_evaluator.rs` | goal, tasks, fingerprints, error counts | continue, evaluate, pause, skip, compact | chat turns | decisions on a goal read before an await | a running goal has a loop behind it; tasks are settled in order, by work of their own |
| Application updater | `services/update_service.rs`, `renderer/features/updates/` | snapshot, download ticket, deferred restart | check, download, stage, install | turn gate | channel changed under a download; busy answers | only the current download is staged; a requested restart happens |
| Video jobs and OCR | `services/video/`, `renderer/features/video/` | job of each conversation, processes, OCR waiters | start, cancel, finish, request, complete | turn service, renderer | cancel beside completion, late answers | a waiter is answered once; nothing survives its job |
| Chrome routines, runs | `chrome/routines/runStore.js`, `runQueue.js`, `runner.js`, `replay.js`, `chrome/background.js` | persisted runs with a checkpoint; queue and active run in memory | run, approve, pause, resume, cancel, recover | Chrome, agent loop | service worker stopped anywhere; recovery beside a running run; store read before an await | what is shown as running is; a resume goes on from the checkpoint; every run gets its turn |
| Chrome routines, schedule | `chrome/routines/scheduler.js`, `store.js`, `recurrence.js` | schedule and next occurrence of a routine, alarm, revision | alarm, edit, delete, synchronise, sign out | Chrome alarms, run store | alarm, edit and synchronisation read and write across awaits; the worker is started by the alarm it has missed | an occurrence runs once; no schedule without an alarm; a due occurrence is taken |
| Native messaging host | `src-tauri/verboo-in-chrome/src/` | waiting relays, ids of completions, one transaction | relay a tool, relay a completion, end | CLIs, extension | several CLIs with the same ids; completions overtake tools; death anywhere | an answer reaches the request it answers; every relay ends |
| Chrome native bridge, approvals | `chrome/native/`, `chrome/controller/`, `chrome/policy/`, `chrome/background.js` | port, turn, approvals, grants, lease of the tab | connect, handle, approve, time out, clean up, lease | native host, side panel | answers beside time-outs, stops and disconnects; handlers of a dead connection | nothing is answered twice, to the wrong host, or never |
| Chrome agent loop | `chrome/agent/`, `chrome/background.js` 896–1247 | messages of the turn, counters of failures, flags of verification | ask the router, execute calls, recover, verify, run again with tools | router, approvals, side panel | any completion and any result at every await, beside a stop or the time budget | calls are answered in order; success is claimed only after a look; a stop is heeded; the turn ends |
| Managed Node runtime | `services/node_runtime/` | receipt, runtime directory | bootstrap, validate | updater | as the store | — |
| Device panels | `services/android_emulator/`, `ios_simulator*`, `browser_*`, `terminal_service.rs` | sessions, streams, tabs, terminals | open, stream, input, close | external programs | leases and streams beside closing | — |
| Accounts and models | `credentials_store.rs`, `provider_*`, `model_service.rs`, `manifest_cache.rs` | tokens, accounts, cached lists | sign in, refresh, list | keychain, network | login timeouts | — |

`PROJECT.json` lists these parts, and the smaller ones, with their status.

### How the modelled parts interact

A click becomes `sendMessage` in the renderer. It reserves the conversation, then
asks the backend (`send_turn`), whose gate refuses it while an update is being
installed. The accepted turn prepares its media, spawns the CLI selected by the
store (leasing that version), and ends with a `Done` or `Error` event, on which the
renderer frees the conversation, flushes its queue or begins a replacement.
`interrupt` is what Stop and an interjected message use. `install_update` closes
the gate, which it can only while no turn is at work, activates the prepared
version, commits it or rolls it back, and restarts the program.

A goal is a loop in the renderer that sends turns of its own through the same
`send_turn` and waits for their end. A tool that a CLI calls in the browser goes
through the MCP server of that CLI to the one native host, and from there to the
extension, which asks for an approval in the side panel. In the extension, an alarm
finds the occurrence that is due and creates a run; the queue executes one run at a
time, with approvals of the same kind. A message in the side panel is a turn of the
agent loop, which asks the router and executes the calls of the model through the
same approvals.

## Plan

Done: 1–7. The order of the rest is by how much of the program's own logic, and
how many of the hazards in `PROJECT.json`, a module covers.

| | Modules | Abstract specification | Properties and theorems |
|---|---|---|---|
| 1 | `CliStore`, `CliUpdate` | `CliSelection` | done; invariants and refinement proved |
| 2 | `TurnService` | `TurnGate` | done; invariants and refinement proved |
| 3 | `ChatTurns` | — | done; invariants proved |
| 4 | `Routines`, `Schedule` | — | done; invariants proved |
| 5 | `GoalCycle` | — | done; invariants and action properties proved |
| 6 | `BrowserBridge` | — | done; invariants proved |
| 7 | `AgentLoop` | — | done, proved |
| 8 | `UpdateDownloads` and `DeferredRestart`, the latter composed with `TurnGate` | `TurnGate` | only the current ticket stages; a requested restart happens once the turns are over |
| 9 | `OcrWaiters`, `AttachmentQueue` | one answer per request; order of reservation | proved for any number of requests |
| 10 | two application instances over one `CliStore` | `CliSelection` | which guarantees survive |
| 11 | `GoalCycle` beside `ChatTurns` | — | a goal's turn and a message of the user in one conversation |

Still to state are abstract specifications of the routine queue (one item at a time,
none lost) and of the host's relay (a request is handed over once and answered
before the next one), with the detailed modules shown to implement them.

All modules follow the same conventions: parameters as CONSTANTS with named
assumptions, one action per step between two points where another actor can be
seen, invariants as conjunctions of named parts and no RECURSIVE operator.

## Modules and the code

The table `map` of `PROJECT.json` gives the lines each definition stands for.

### CliStore, CliUpdate, CliSelection

`CliStore` has the disk: one variable per pointer file, what each version
directory holds (`absent`, `noEntry`, `entryOnly`, `complete`: a half-removed
directory is none of the two ends), the leases and the staging directories. Each
operator is one atomic change of the file system. A staging directory is known by the
pid in its name, like a lease: one of a dead process whose pid lives again is kept.
Nothing reads one that is left over.

`CliUpdate` has the process that makes them. `pc` is where the update thread is,
`caller` the command it runs, `act` the activation in progress, `after` what the
collection returns to. One action is one step between two disk writes, so
`ProcessEnds` may fall between any two of them; `IoError` returns from a step with
an error and `SyncError` is the same after the write took effect. `status`,
`bootstrapRequired`, `candidate` and `prepared` are fields of the snapshot, `held`
the leases of `RuntimeAuthority`, `acquiring` the version between the read and the
lease in `acquire_runtime`. `vetted` is a history variable: the versions that
passed a smoke check in this process.

Abstractions: a pointer is represented by its version (a signed manifest binds a
version to one digest); the outcome of a smoke check, of a download and of the
compatibility check with the application is nondeterministic; a commit that is
refused, or fails, ends with the rollback or, behind an activated app payload, with
the end of the program (`CommitFails`); the installation of
Node may fail; progress is left out. Update commands come from one thread because
the renderer offers them only after `get_update_status` has answered, which waits
for the startup validation (`App.tsx` 1392–1404). One instance of the program runs
at a time; the code does not enforce that, and plan item 10 is about it.

`CliSelection` is what the rest of the program relies on: a selected version and a
fallback; a new version is selected only when the selected one has become the
fallback, and the only other change goes back to it.

### TurnService, TurnGate

`phase[t]` is where the thread of turn `t` is, from `send_turn` to the event that
ends it; `cli[t]` is its process. `active`, `byConversation` and `job` are the maps
of the service and of `VideoJobRegistry`, each changed under its own lock, so each
change is an action of its own. An interrupt is four to five steps (`intrAt`): take
the job from the registry, raise its flag, look up the turn, look up the child,
signal it; `killer` has the turns with a 750 ms escalation thread. The installer
(`install`) counts the children, then the conversations, under two locks.

Abstractions: a media job is named by its turn; the checks for cancellation at 739
and 907 are one; media processes are part of the flag; SIGINT may or may not end a
CLI; the timers of a turn are one; a line that is not UTF-8 makes the reader stop
and wait for the process while it holds the child's lock (`"garbled"`), and a
descendant may keep the pipes open (`"survivor"`): `Rogue` says which of the two a
CLI may do, and `BeyondSignals` is a turn held open by either. A child that `try_wait` has collected counts as exited until the
reader waits for it. Both commands are synchronous today, so that Tauri runs them
on one thread; the service does its own locking and does not rely on that, and
neither does the model. The form of `interrupt` without a conversation is not
modelled, and the vision fallback is part of `Launch`.

The service accepts a turn into a conversation that has one at work; an interjection
(`App.tsx` 3907) and the continuation of a goal (4869) send such turns. The new turn
takes the mapping over; `overtaken` is the history of that. What is promised of the
mapping and of the installer holds for the newest turn of every conversation. An
overtaken turn that has no child handle (at its media, or about to spawn its CLI) is
in neither registry once the newer one has ended, and the gate opens on it.

`TurnGate` is the promise to the installer: turns begin once and end for good, and
the newest turn of every conversation and an installation exclude each other.

### ChatTurns

A message is named by the turn that works on it. `at[t]` is where the function
that sends it is suspended; a step is what JavaScript runs between two awaits.
`running`, `known`, `queue`, `lock` and `deferred` are the refs of `App`;
`known` keeps the insertion order because `interjectMessage` takes the first key.
`summarising` has the turns whose clean-up waits for the summary of changed files.
`work` and `mapped` are what the renderer can tell of the backend, and `inbox` what
is on its way from it.

Abstractions: replies and events arrive in the order they were sent. For the
reply of `send_turn` and the terminal event of the same turn Tauri does not promise
that; a reply that came after the end would leave the conversation busy, and the
list of hazards says so. The queue changes at once, whereas React may run an
updater later. Whether an error is recovered from is nondeterministic, and the
number of replacements is bounded by the supply of turns. Stop is not an action: a
turn may end at any time. The quota refresh inside the error handler is left out.

### GoalCycle

`runGoalCycle` is a loop with awaits; an action is what a loop does from one await
to the next, and `at[c]` the await loop `c` is in: it evaluates, sleeps after an
error, sends a turn, waits for its end, or compacts the conversation between two
tasks. Several loops exist because a resume or a new goal starts one without
waiting for the end of the old, which notices the abort only after its await.
`goal` is the stored goal, `snap` the one a loop read before it asked for an
evaluation, `abortRef`, `turnWaiter` and `compactWaiter` are the refs of `App`,
`work` is what the CLI does for a loop. `goal.acted` is who acted in the evidence
window of the task, `goal.read` says that the task was evaluated (for a property).

Abstractions: writing the goal takes no time; of the ring of fingerprints the code
reads the last entry and whether the last ones are equal, so these are kept;
`noProgressCount` is a function of them. What an evaluation says is one of the
four decisions and one of a set of texts. The replacement of a failed turn by a
recovery is a turn that goes on. Switching the conversation while its goal runs,
and the parts of the delegate nothing calls (`pendingCompaction`, skip), are left
out. `disturbed` is set when a loop is started before the last one and its turn
are over, or a compaction is cut short: then two loops write one goal, and the
properties that this breaks except it by name.

### Routines

`status`, `checkpoint`, `mode` and `session` are stored and survive a stop of the
worker; `active` is the item the queue executes, with the stage its execution is
suspended in; `pending` are the items behind it. `creating` are runs inside
`runner.run`, `cancelling` what a cancellation still writes, and a `Caller` is a
recovery (`boot`, `login`) or a resume by hand, with the awaits in between. Five
history variables serve the properties; `disturbed` has the runs that a recovery or
a cancellation met in execution, or that were begun from an old checkpoint,
`forsaken` those that were in the middle when a sign-in failed before its recovery:
loading the models or synchronising the alarms has thrown (`background.js` 698–709),
the session stays, and the next sign-in or start recovers them. `Mode` are the modes
a run may be asked for.

Abstractions: what a step does in the page and what the agent decides; after a
recovered run of an agent took over, the recorded steps that were left are not
executed by the code either (`handed`). Storage errors, several accounts, the
bound of 50 kept runs and the interactive turns that share the queue are left out.

### Schedule

`routine` is the stored one (0 as revision: deleted), `alarm` what Chrome keeps.
`at[a]` is where each delivery of the alarm, each request of the settings page and
the synchronisation is; `seen[a]` the routine it has read. Writes carry the
expected revision, so that the later of two is refused. `dropped` says that an
operation has failed since the alarm was last set: the code then leaves the
occurrence, or the schedule, without one, and the properties except it.

Abstractions: one routine of one account; time is a number, and a recurrence is a
period with a phase, in place of the calendar arithmetic of `recurrence.js`; an
alarm one second ahead is due at once; the settings page always sends the schedule
without `nextRunAt` (`options.js` 517–534); a synchronisation sees the list and the
alarm at one time. `ROUTINE_SCHEDULE_UPSERT` and `ROUTINE_SCHEDULE_REMOVE` are sent
by nobody and left out. Adding an asset and accepting a recovery's suggestion
raise the revision and nothing else (`Touch`).

### BrowserBridge

The host: `relay[c]` is where `relay_one` is for a request, `waiter` and
`completionIds` are its two registries, `toChrome` and `toHost` the pipes of native
messaging. The extension: `port` is the current connection, `step[c]` where the
handler of a request is, `origin[c]` the port and the turn it was received with,
`approvals` the map of pending approvals by JSON-RPC id, `cleanups` the running
`cleanupTurn` calls. A handler outlives its connection. `HostDies` covers every
end of the host; the extension learns of it by `OnDisconnect`, later, and opens the
next connection when the timer fires.

Abstractions: a turn is named by the request that opened it; all tools act on one
site, so that a grant is one value per turn and one stored; what a tool does, hard
blocks, presence, the selection of another tab within a lease, and the discovery of
the host are left out; the click on an approval and its resolution are one step; a
handler's local variables are reset when it ends.

### AgentLoop

One turn of `runLlmAgentTurn` and of its caller `runAgentTurn`; `pc` is the await it
is in: the session and the tab before the loop, the request, a tool of the model, the
search for selectors, the look at the tab after a click, the pause after a navigation,
the harness's own reading of the page, the queue before it runs again with tools, or
the metadata of the tab between the text the loop has returned and the terminal event
(`reporting`). `outcome` is set when the loop returns or throws. The caller knows
three kinds of end: a text (`Returns`), an error of the loop, which its inner catch
reports as cancelled when the user has stopped the turn (`Thrown`), and an error
before the loop, which the outer catch reports as it is (`Prepared`). `calls` are those of the last
assistant message, `tail` what is behind it: `i` stands for a tool message that
answers `calls[i]`, 0 for any other message. `streak`, `fails`, `missing` and `shots`
are the four counters of failures, `nudges` has what may happen once in a turn and
has happened, `signal` what has aborted the turn. `Proceed` is the loop over the rest
of the batch: it answers what is blocked and goes on to the next call to execute, or
to the end of the batch. `unseen` is a history variable: a click or an input has
succeeded and nobody has read the page since.

Abstractions: a completion is a set of calls without repetitions, or a text of which
three kinds are told apart (words, empty, markup); a result is of one of six kinds;
whether a turn begins with tools, and whether a text admits that there is none, is
nondeterministic. The text of messages, the removal of old images, the notice of
unknown tool names (a message behind the batch) and the allowlist of a routine's
recovery are left out. A turn that runs again has nothing to remember: a
conversation executes nothing. `tabs` and `tab_group` are mutations like `navigate`,
`find` and `structured_extract` reads like `screenshot`.

## Runs

TLC's deadlock check is off for all modules but `CliUpdate`: they come to rest when
the finite supply of turns, loops, runs, stops or requests is used up. `CliUpdate` never does: the program may always be
closed and started again.

| Run | What it asks | Result |
|---|---|---|
| `cli_update_safety` | three releases, crashes and errors at every step: do the pointers name installed versions, is what is offered installed, can every install be undone, does the store implement `CliSelection`? | holds; nearly two million states |
| `cli_update_restarts` | restarts with the same pid or another, a payload lost to something else: is the gate honest, is a rejected version not offered again, are leases kept, does every operation end? | holds; three quarters of a million states |
| `turn_gate` | two turns of one conversation, one after the other or at once, interrupts, any CLI: is the newest turn found, and every turn at its media, does a signalled turn end? Is `TurnGate` implemented, so that installs exclude the newest turns? | holds |
| `chat_queue` | three messages sent, queued, interjected, refused, recovered: one turn at a time, never stuck, the queue drains | holds |
| `goal_cycle` | a goal without tasks or with three, two loops, pauses, resumes, restarts, errors, compactions: has a running goal a loop, is an aborted one never left waiting, are tasks settled in order, by work and repetitions of their own? | holds |
| `routine_run` | one run of two steps, two overlapping recoveries or resumes, failing sign-ins, stops, approvals, pauses, cancellations: is what is shown what happens, is at most one step repeated? | holds |
| `routine_queue` | two runs: does each get its turn whatever becomes of the other? | holds |
| `routine_schedule` | two deliveries of an alarm, an edit, a synchronisation, sign-outs, stops: does an occurrence run once, is there an alarm, is a due occurrence taken? | holds |
| `browser_bridge` | two CLIs with the same request id, two connections or one and an act of the user: do answers reach their requests, is one tool at a time in the extension, does every request leave the host? | holds; about a million states |
| `agent_loop` | a turn of four requests, any completion and result, a stop and a time-out anywhere: are calls answered, claims checked, stops inside the loop heeded, and does it end unless it waits for what nothing times out? | holds; nearly a million states |
| `routine_simulation`, `browser_native_lease` | one sentence of the repository each | violated, [see below](#where-code-and-text-disagree) |

The inductive invariants, and the properties that follow from another one here
(`InstallExcludesTurns`, `HandleWhileRead`, `JobBelongsToPreparation`,
`InterruptStaysInConversation`, `MappingRemovedByItsTurn`, `BusyWhileLive`, the type invariants of the proved
modules), were checked by TLC before they were proved, and are left to the proofs.
Every property of a passing run has a mutant in `PROJECT.json`: a bug somebody
could plausibly make in that code, and under which TLC finds the property violated.

## Bounds

| Constant | Values | Why they are enough |
|---|---|---|
| `Version` | 3, or 2 | a collection needs a version that is neither current nor last-known-good; two suffice where one update is enough |
| `Pid` | 1, or 2 | one: every restart reuses the pid of the dead process; two: it may or may not |
| `MaxDamage` | 0, or 1 | damage from outside; one loss shows that the gate does not depend on it |
| `MaxLeases` | 1 | lease files, also of dead processes, at a time; a collection beside one lease is the conflict |
| `Turn` of `TurnService` | 2 | every conflict over the registries is between a turn and the next one of its conversation, which begins behind it or beside it; that an interrupt stays in its conversation is proved for any number of them |
| `Turn` of `ChatTurns` | 3 | a turn, a queued message and one interjected or begun in replacement |
| `Conversation` | 1 | what conversations share (the gate, the child handles) two turns of one reach as well |
| `Rogue` | both | a CLI may leave a descendant and print undecodable output |
| `Cycle` | 2 | every conflict of loops is between one and the one that replaces it |
| `Batches`, `Toolless` | no tasks or 3; the second toolless | a first task, one behind a compaction, one behind two |
| `MaxErrors`, `LoopThreshold`, `Stagnation` | 2 (3, 3 and 2 in the code) | reached by a repetition, and by one only |
| `Run`, `Caller`, `Steps` | 1, 2, 2; or 2, 0, 1 | two calls overlap on one run; two runs wait for each other |
| `Mode` | both, or live | `routine_run` has a state space of its own for each, and its properties say nothing more of a simulation; `routine_simulation` is about it |
| `Handler`, `Editor` | 2, 1 | an alarm that is delivered again while the first is handled, and an edit. With two pages, disabling in one may clear the alarm the other has just set: `OneEditor` |
| `Period`, `MaxNow`, `MaxRev`, `MaxStops` | 2, 2, 3, 1 | an occurrence, the next one and one edited in between; a stop anywhere |
| `Client`, `Call` | 2, 1 each, same id | every conflict is between two requests, or a request and another CLI's completion |
| `MaxPorts` | 2 | connections and acts of the user together: two connections (a stale handler and a new host), or one beside a change of grant, mode, panel or lease |
| `MaxSteps` | 4 (500) | a click, the evidence, the nudge and the claim; a third failure of a mutation, and a blocked screenshot |
| `Batches` of `AgentLoop` | every tool, four pairs | a pair is needed for what a batch goes on with after a blocked, failing or long call, a click or a suspicious page |
| `HintAfter`, `StopAfter` | 2, 1 (3, 2) | the hint and the end behind it |

The theorems below hold for every value of these constants but `MaxDamage` and the
number of editors, where the table says so.

## Fairness

* `CliUpdate`: weak fairness of `UpdateStep`. A thread that has begun an operation
  runs on; nothing makes a user, a download server or a crash act.
* `TurnService`: weak fairness of every thread step of a turn, of its escalation
  thread and of an interrupt that was begun. These are operating-system threads.
  There is none on users, on the installer, nor on a CLI, which may run for ever
  unless it is killed.
* `ChatTurns`: weak fairness of tasks whose await has been answered, of the flush
  effect, of delivery, of commands, and of the end of turns. The last is an
  assumption about the CLI; without it a queued message rightly waits for ever.
* `TurnService` has none on an undecodable line (`Garble`).
* `GoalCycle`: none; its properties are safety.
* `Routines`: weak fairness of what the worker is doing, and strong fairness of the
  end of an agent, whose turns are counted; approvals are bounded by their time-out.
  That the page answers a step, or a tool of the agent, is an assumption: the code
  awaits `executeScript` with no time-out, and a page that never answers holds the
  queue for ever.
* `Schedule`: an alarm that is due is delivered, the worker goes on with what it
  began, and it is started again after a stop, by an alarm or the browser.
* `BrowserBridge`: weak fairness of the host's tasks and of the worker's. An approval
  times out; that a tool ends is the same assumption. Nothing makes the user, a CLI or
  a new connection come.
* `AgentLoop`: weak fairness of the steps behind an await that ends: a request has its
  60 s (its one refresh of the token is taken to be answered), and Chrome answers about
  its tabs. There is none behind the awaits in `Untimed`, which nothing times out and a
  stop does not cut short: the session and the tab before the loop, `executeTool`
  (`loop.js` 771, also for the search and the harness's own reading), and the queue
  behind another turn. `TurnEnds` says that a turn ends or stays in one of these, so
  that it asks the router a bounded number of times.

## Proofs

TLAPS checks eight modules; the theorems hold for any set of versions, pids, turns,
conversations, loops, batches, runs, deliveries, edits, clients, requests and tool
calls, and any period, thresholds and limits. Every safety and action property of
the passing runs is a theorem; where the run of a property allows what the theorem
excludes (damage from outside), the table says so.

| Module | Theorems | Assumes |
|---|---|---|
| `CliUpdateProofs` | `Invariance` (of `IndInv`), `TypeCorrect`, `PointersSafe`, `GateSafe`, `InstallSafe`, `ReadySafe`, `OfferSafe`, `LeasesSafe`, `Refinement` (`Spec => Selection!Spec`) | `MaxDamage = 0` |
| `TurnProofs` | `TurnInvariance` (of `IndInv`), `TurnTypes`, `HandleSafe`, `JobSafe`, `InterruptSafe`, `MappingSafe`, `PreparationSafe`, `InstallSafe`, `TurnReachable`, `GateRefinement` (`Spec => GateSpec`) | nothing; `InstallSafe` and `TurnReachable` leave out the turns in `overtaken`, and so does the gate |
| `ChatProofs` | `ChatInvariance` (of `IndInv`), `OneAtATime`, `ShownBusy`, `NeverStuckBusy`, `ChatTypes` | nothing; the first two of the properties speak of conversations without an interjection |
| `ScheduleProofs` | `TypeCorrect`, `OccurrencesRunOnce`, `DueOccurrencesGoToHandlers` | nothing |
| `ScheduleProofs` | `SchedulesAreArmed` | one editor |
| `AgentProofs` | `ClaimsAreChecked`, `StopsAreHeeded`, `EveryCallIsAnswered` | nothing; `StopsAreHeeded` speaks of stops before the loop has returned |
| `BridgeProofs` | `BridgeInvariance` (of `BridgeInv`), `BridgeTypeCorrect`, `ReaderKnowsAll`, `Serialised`, `ApprovalsMinded`, `RequestsMinded` | nothing |
| `RoutineProofs` | `RoutineInvariance` (of `RoutineInv`), `RoutineTypes`, `NoRunForgotten`, `RunsAreShown`, `AtMostOneRepeated`, `CompletionsAreEarned` | nothing; `RunsAreShown` and `AtMostOneRepeated` leave out the runs in `disturbed`, `NoRunForgotten` those in `forsaken` |
| `GoalProofs` | `GoalInvariance` (of `GoalInv`), `GoalTypes`, `RunningDriven`, `WaitsAreWoken` | nothing |
| `GoalProofs` | `LoopsFit`, `PointerHolds`, `DoneHasEvidence`, `KillsAreOwn` | nothing; they speak of goals nobody disturbed, and the last of goals without a failed compaction |

**The store.** That both pointers name installed versions is not inductive: it
depends on what an operation in progress still knows. `IndInv` adds it per control
point. While activating, `current` is still `act.previous` and the new version is
installed and vetted (`ActivationInv`); while validating, the version about to be
selected has passed its check (`ValidationInv`); while collecting, both pointers
are retained (`GcInv`); what is offered for installation is installed (`ReadyInv`), and not the version
that was rejected last (`OfferInv`).
A crash keeps the disk and resets the rest, so each clause is either about the disk
or guarded by a control point. Damage from outside falsifies the clauses about
pointers at once, hence `MaxDamage = 0`. The refinement maps installed versions,
`current` and `lkg` to `CliSelection`; the step that needs the invariant is
`ActivateCurrent`, an `Upgrade` only because last-known-good already equals the
previous version.

**The turn service.** The installer holds no lock over both counts. What it has not
counted as a child it still counts as a conversation, because a live turn that was
not overtaken is the one its conversation is mapped to until after its child handle
is gone (`LiveTurnIsMapped`). `PhaseInv`, `MediaInv` and `MappingInv` tie the phase to
the process, the media job and the mapping. The refinement maps a live turn to
`live` or `overtaken`; `Begin` overtakes exactly the turn the mapping names, for no
other turn of that conversation is live and not overtaken. A turn at its media is
found through its job, which only its own end and an interrupt remove
(`PreparationIsStoppable`).

**The chat.** `LifeInv` ties, turn by turn, where the renderer is, what the backend
does and what is still on its way (`Stage`), and says that messages of a turn arrive
in the order of its life (`Ordered`). From it follows that a busy conversation has
somebody who will free it. `ClaimInv` says that a turn at work, or with a message on
its way, is noted, and owns its conversation until someone interjects there; from it follows that
a queued message, a flush or a recovery finds the conversation taken. It needs
`PauseInv`: a turn is forgotten after its summary only when nothing of it is left.

**The schedule.** That a due occurrence is not passed over rests on what the
expected revision buys (`NoLostUpdate`): as long as the revision an actor has read
is the stored one, so are the schedule and the occurrence it has read. That a
schedule has its alarm rests on who is still at it: each actor between its write and
its alarm will set it, and none that would clear it is behind a later writer; the
second half needs a single editor.

**The agent's turn.** `Goes` says what the end of a request, of a batch or of a call
makes of the turn: it goes on without a word, or ends with something that is no claim,
and once aborted calls nothing more. `ClaimInv` adds that a turn has no outcome before
the loop has returned or thrown, and that a click or input nobody has
looked at is flagged (`unverified`) unless the task was found done; so the flag, and
not the look, can guard the claim. `AnswerInv` says at each await how far the tail
behind the assistant message has answered its calls (`Answers`); that skipped, long and
failing calls keep it so, for batches of any length, is `AnswersConcat` and
`ProceedAnswers`.

**The bridge.** No message is twice in a pipe (`PipeInv`), so that for its members a
pipe is a set (`HeadTail`, `AppendNew`). `Placed` says for every request which of
relay, pipes and extension may hold it: not yet sent, sent, in the extension's hands
on this connection, on its way back; a handler of an older connection holds nothing
of this one. Since the transaction belongs to one relay (`HostInv`), there is one
such request, and its relay is the waiter under its id even when ids repeat: that is
what the reader of the host needs (`ReaderServed`). `AckInv` is the same for
completions, which overtake the transaction: one is noted before it is sent, and
stays noted until its acknowledgement is read. `ConnInv` carries all of it through
the death of the host, which takes both pipes along but leaves the handlers.

**The routines.** An item of the queue relies on what was true when it was queued
(`Backed`): the steps before its own are done, an agent has taken the run over. Each
stage of the execution adds what the replay may assume there (`InPlace`); in
particular its position is the stored checkpoint from the call of a step until
its confirmation, unless a recovery met the run in execution. `OneUnconfirmed` follows
because a step is confirmed before the next one begins. For `RunIsMinded` the
invariant must say more: a run stored as waiting for an approval is at one
(`MindedInv`), or it would end in a status nothing leads out of; nothing
is asked of a run from a stop or a sign-in until the recovery has looked for
interrupted ones (`Recovering`); and when a sign-in fails before that, what is left
in the middle is what was so at that moment (`forsaken`).

**The goal.** The invariant has two halves, proved one after the other. `BaseInv`
holds whatever loops run beside each other: types, and who is registered for the end
of a turn or a compaction is at that await and not aborted (`WaitInv`). That a
running goal has a live loop is then a fact about exits: what a loop step yields is
over only with a goal that is not running (`Good`). `OrderInv` is about goals nobody
disturbed. There the one live loop is the one a pause aborts (`Lone`), and what it
read before an evaluation is still the task the verdict is applied to (`SameTask`),
although the goal may have been written meanwhile; while it compacts, the next task
is already active (`Between`), and the evidence and the ring are clean only once it
has gone on (`Quiescent`). Each operator on goals is shown to keep this (`Tidy`), not
to lose a running goal (`Onward`), and to settle only the task at the pointer, on
evidence of its own or after it was read (`Honest`). The two action properties follow
from `Honest`; that a new goal is told from the old one rests on `OwnerInv`: the loop
a goal is named after has been started, and a new goal is named after one that has
not.

**Only model-checked**: the liveness properties `OperationsEnd`, `InterruptCloses`,
`QueuedLeaves`, `PendingLeaves`, `DueIsTaken`, `RelayEnds` and `TurnEnds` (liveness
under fairness is out of the prover's reach), what holds under damage from outside (`GateMeansVetted`, `LeasesSurviveScan` and
`RejectedNotOffered` in `cli_update_restarts`), and the violations.

## Where code and text disagree

1. `routine_simulation` — a routine run in simulation that is resumed, or that
   recovery takes up after a stop of the worker, goes on without the simulation mode
   (`chrome/routines/runner.js` 55) and clicks for real; the test of the runner
   (`runner.test.js` 185) says that a simulation never acts.
2. `browser_native_lease` — `restore` returns the current lease whoever has set it
   (`chrome/controller/backgroundWorkspace.js` 39): after a turn of the panel has
   leased the user's tab, a tool of a CLI acts in that tab. The comment at line 190
   says that the CLI path still uses an invisible workspace of its own.

The models show more, none of it a run of its own: no text of the repository
says otherwise, or the run it had is not worth its place. In what follows each
sentence is a behaviour of the code.

*Store.* With one instance at work, the refusal of a commit (`service.rs` 355) is a
branch that is never taken. Staging left behind by a crash stays as
long as some process has its pid (`store.rs` 293). A bootstrap that finds the selected payload incomplete returns, and does
not download it again. The rejection is written before last-known-good is restored:
after a crash between the two, the next startup takes the rollback for done.
`acquire_runtime` reads the pointer and leases later: a collection in between
removes what it hands out. The one-slot rejection memory is cleared by the next
clean start, after which a version that was rolled back is offered again. A failed
`create_staging_dir` (`service.rs` 573) leaves the status at downloading. Two
instances of the program may collect what the other has prepared.

*Turns.* A turn that was overtaken while it had no child is seen by neither count of
`active_count` once the newer turn has ended, so that an update is installed and the
program restarted beside it; and Stop does not find it. A turn that cannot spawn its CLI leaves its conversation mapped, so that an
install is refused as busy until another turn of that conversation ends normally. An
extraction that fails because it was cancelled counts as a failed attachment, and
the CLI is started. Stop between the registration of a turn and its child handle is
answered with false. `interrupt` may answer true for a child that has just been
reaped. The escalation kills the group only while the CLI itself runs, so that a
descendant that keeps the pipes open keeps the turn open.

*Chat.* An interjection during the preparation of a turn, when there is nothing to
signal, starts a second turn beside it. The turn an interjection waits for may
already be over: nothing resolves the wait, and later interjections return at once.
A flush that `send_turn` refuses loses its message (`App.tsx` 3868).
`queuedFollowUpsRef` is assigned in a state updater that React may run later (4109).

*Goal.* When a goal is replaced while the loop of the old one awaits, an error of
that loop pauses the new goal. The reason a user's pause gives is overwritten by the
loop. A pause does not stop the turn at work. A cancellation while a loop sleeps after
an error is not noticed when the loop goes on. A failed task at the pointer comes back after
a resume. After a compaction that failed, a task may be settled without an evaluation
of its own. There is one slot for the waiter of a turn: two loops that wait leave one
waiting for ever. A completed goal can be paused; a blocked one is lost on a restart.
A continuation does not reserve the conversation (`App.tsx` 4869), and switching the
conversation (4726) leaves the loop with the wrong one.

*Routines.* A sign-in that fails to load the models or to synchronise the alarms
leaves interrupted runs as running, with a session and nobody behind them, until the
next sign-in or start. A resume from an old checkpoint repeats steps that were confirmed. The
resume button is offered for every queued run. Queued runs are not taken up by the
recovery (`runStore.js` 172), and a paused run cannot be cancelled (`runner.js` 386).

*Schedule.* A handler that finds a later occurrence stored runs that one early. The
key of an occurrence without a time is `id:NaN`. A handler whose update was refused
has consumed the alarm. A stop between the advance to the next occurrence and the
creation of the run loses the occurrence. When the models cannot be loaded at
sign-in, no synchronisation follows. With two settings pages, disabling in one may
clear the alarm the other has set.

*Bridge.* Ids collide across clients, and the current turn is shared by them. A
request queued behind a client that has ended opens a turn nobody ends. An approval
registered after the clean-up of its turn has only its time-out. A context stored
after the end of a turn leaves its grants behind. The panel's stop cancels approvals
of every source, and a grant for the turn overrides a stored denial. Two `upsertGrant`
at once lose one. The timer of the reconnect is lost when Chrome suspends the worker.

*Agent.* A page text too long for one message is answered by several tool messages
with one id, although the comment on the recovery (`loop.js` 827) says that strict
routers reject duplicate ids (`AnsweredOnce` does not hold); when the task is found
done in the middle of a batch, the later calls have no answer. A `read_page` that
fails counts as an inspection, so that the note about an unverified failure is left
out. Once the harness has read the page and the model was asked to look, the words of
the model are accepted although nobody did. A turn that ends as stuck does so
although it was stopped meanwhile. After the loop has returned, the caller asks for the
tab and then sends the text (`background.js` 1136): a stop in between is not heeded. An
error before the loop (999, 1039) is reported as that error although the user has stopped
the turn. A tool has no time-out, and a stop does not end it: a page that never answers
keeps the turn, and every browser turn queued behind it. A turn that ran again with tools and failed is
reported as one that could not be completed, as if nothing had been executed
(`background.js` 1176). A re-run is queued under an id of its own, which stopping the
turn does not remove from the queue (1127, 1617).

## Not modelled

`PROJECT.json` gives the reason per part. In short: the application updater with its
deferred restart, OCR waiters and the attachment queue are planned (8 and 9). What
the model decides in a turn of the extension's agent, how its text is classified and
its markup parsed, is external to `AgentLoop`, or abstracted to its outcome. Of the
native host the discovery file and the framing are left out. Device panels, sign-in
and the Node runtime are later extensions; everything that only shows, formats or fetches is left out, as are
vendored code and build tooling, and these are by far most of the lines: the models
cover the parts that coordinate several actors, or survive a crash.
The hazards of `PROJECT.json` without a property say why; those of planned parts are
the "hard behaviour" column of the inventory.
