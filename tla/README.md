# A TLA+ model of the kanbanai server

kanbanai moves cards over a board. A card (task) is in one of five lanes, or
done; in each lane the server starts a *harness*, a command that works on the
task and calls back to complete the phase or to reopen an earlier one. This
directory models the server's own logic, the part in which goroutines,
processes, a database row and a few in-memory maps meet. TLC checks the models
on small instances; TLAPS proves every safety property of these runs for all of
them.

    tlc -config MCKanbanFlow.cfg MCKanban.tla      # a run
    tlapm Kanban_proofs.tla                        # a proof

## 1. Inventory

| component | code | state | operations |
|---|---|---|---|
| phases and statuses | `domain/entity` | - | `Next`, `Before`, `Index`, `IsTerminal` |
| task store | `task_repository_sqlite.go`, `retryUpdate`, `markTaskCompleted`, `UpdateTask` | the row of a task with a version | Find, Update under a version check, Delete |
| harness adapter | `harness/adapter.go` | process registry, kill marks, commands, monitors; all of it gone with the server, but for the commands | Dispatch, RegisterProcess, KillProcess, monitorProcess, UnregisterProcess |
| phase orchestrator | `phase_orchestrator.go`, subscriptions in `bootstrap.go` | retry counters, goroutines in flight | StartFlow, AdvancePhase, dispatchPhase, HandleRetry, RestartPhase, PauseTask, ResumeTask, ReopenPhase |
| use cases and HTTP handlers | `usecase/`, `task_handler.go` | - | create, update, complete, reopen, pause, resume, retry, delete |
| MCP tools | `mcp/authorize.go`, `tool_*.go` | - | complete_phase, reopen_phase, and tools that save outputs, subtasks, progress |
| live tail | `livetail/store.go`, `live_handler.go` | a stream per task: buffer, viewers, end flag | Open, append, End, Delete, Subscribe, Unsubscribe |
| phase configuration | `config/loader.go`, `phase_config_provider.go`, `update_phase_configs.go`, its repository, `PhaseConfigDialog.tsx` | defaults, table of overrides, copy in memory, the form of a dialog | BuildPhaseConfigs, Get, Snapshot, Replace, Reload; load, edit, save |
| prompts and their context | `dispatchPhase`, `prompt_builder.go`, `get_task` | prompts being put together | populatePriorContext, loadSubtasksText, loadReviewFeedback, Build |
| migrations | `sqlite/migration.go` | schema, `schema_migrations` | RunMigrations |
| phase outputs, subtasks | `save_phase_output.go`, `savePhaseSummary`, `create_subtasks.go`, `update_subtask_status.go`, their repositories | a row per phase, a checklist per task | save, complete, replace the list, mark an item |
| event dispatcher, SSE broker | `dispatcher_memory.go`, `sse/broker.go`, `sse_handler.go` | subscribers, a lock, a channel per client | Publish, onEvent, Subscribe, Unsubscribe, Stream |
| the board in the browser | `useSSE.ts`, `useTasks.ts`, `Dashboard.tsx` | the list shown, requests under way | connect, reload on events, show |
| the other queries, command builder, router, container, rest of the frontend, scripts | | none of their own in the server | |

How they interact. Publication is synchronous: `Publish` calls the subscribers
in the publisher's goroutine. So an HTTP or MCP request that completes a phase
runs the use case, the orchestrator's `AdvancePhase`, `dispatchPhase` and the
adapter's `Dispatch` in one goroutine; the monitor of a failed command runs
`HandleRetry` with its sleep; a deletion publishes `TaskDeleted`, whose
subscriber kills the command and drops the live stream. What these goroutines
share is the row, the retry counter, the registry and the kill marks, and
nothing spans two of them: every step below is one SQL statement or one
critical section.

What is hard, and what makes each part correct:

* *Store.* Concurrent read-modify-write of whole rows must lose nothing; the
  loops must return and must not refuse without cause; a user's edit must be
  refused if it is based on an old version.
* *Adapter.* Maps keyed by the task, used by monitors of several commands: a
  running command can be killed, an intentional kill is not a failure, every
  command is reaped.
* *Orchestrator.* Decisions carried from one read to a later write, sleeping
  retries, commands that end long after their work was accepted, user operations
  between any two steps: no card is forgotten, one agent works at a time and
  one more for each late end, until then the card moves lane by lane and fails
  only when its retries are exhausted, the flow ends, a deleted task is left
  alone.
* *Live tail.* A mutex that is released before the loop over the viewers:
  nobody loses a chunk but for a full channel, and the end arrives.
* *Configuration.* Rows, then a read, then a swap of the copy: what dispatches
  use must be what was saved. A dialog that sends its whole form: a save must
  change what the user edited and nothing else, even if loads and saves of the
  same dialog overlap.
* *Prompts.* Collected query by query while others save, reopen and retry: a
  reviewer must be told what was handed over, a reworker why, and a completion
  that says little must not take a report away.
* *Outputs and checklists.* Several statements without a transaction: an
  output is not undone by a completion, a checklist is one list and whole.
* *Events.* Handlers that publish inside a publication, a lock, channels that
  drop, requests that overtake each other: no send on a closed channel, no
  client holds a publisher up, and the board becomes current.
* *Migrations.* Stops anywhere, two processes: the schema is whole and the
  server can start.

`PROJECT.json` lists every hazard at its line, with the properties that cover it.

## 2. Modules

| module | what it is | composed of |
|---|---|---|
| `PhaseOrder` | lanes and their order | |
| `TaskRow` | life-cycle columns and the closures applied to them | `PhaseOrder` |
| `AtomicTask` | abstract: the row under atomic updates | `TaskRow` |
| `TaskStore` | the versioned row and the retry loops; implements `AtomicTask` | `TaskRow`, `AtomicTask` |
| `HarnessAdapter` | registry, kill marks, commands, monitors | |
| `Card` | abstract: the moves of a card that is left to its harnesses | `TaskRow` |
| `Kanban` | the life of one task, all goroutines, over the adapter; implements `Card` | `TaskRow`, `HarnessAdapter`, `Card` |
| `LiveTail` | the live streams of one task | |
| `Handover` | what a prompt tells a harness of the work of earlier ones | `TaskRow` |
| `PhaseConfig` | environment, overrides, their copy, and the dialog | |
| `TaskRecords` | the output of a phase and the checklist of a task, statement by statement | |
| `EventFeed` | publishers, the broker, its clients, and the board they show | |
| `Migrations` | RunMigrations with stops, in several processes | |
| `*_proofs` | theorems and proofs | the module of that name; `Harness_proofs` is about `HarnessAdapter` and `LiveTail` |
| `MC*` | constants for TLC | |

### TaskStore and AtomicTask

A goroutine of `TaskStore` is at `find` or `update`, or idle; `Find` copies the
row, `Update` writes the changed copy if the version is the one found,
`Conflict` counts an attempt and goes back, `GiveUp` returns the conflict. The
calls are closures of the orchestrator and edits of a user, which carry the
version the form was filled from. `AtomicTask` has one step per call: the
closure applied to the current row, or a refusal. The refinement mapping is
the identity on the row; `AtomicUpdates` is its specification. This is what
justifies that `Kanban` takes an update for one step on the row as it is *at
that moment*, and an update that gives up for a fault. `StatementFails` is the return
of a caller whose Find or Update fails for another reason than a conflict: the
call then takes no effect, `Fail` in `AtomicTask`.

### HarnessAdapter

`Start` is `cmd.Start`, `Register` puts the command into the registry and lets
its monitor run, `MarkKilled` and `Signal` are the two halves of
`KillProcess` (under the mutex, then the signal), `Exit` is the command's end,
and the monitor is `Excused` or `Reaped` (the look at the kill mark), `Report`
(the published error) and `Unregister` (the deferred removal *by task*). A name
of a command may be used again after its monitor is done. `ServerStops` is the
end of the process that holds the maps: a new one starts with empty ones, and
commands that survive it are `Lost`, since nobody waits for them any more and
their deadline is gone too.

The adapter's maps are keyed by the task, and its implicit contract is that a
task has one command at a time. The orchestrator does not keep it: a harness
completes its phase, and so has its successor started, before it exits.
`shared` remembers the commands to which that has happened, and the two
properties on kills exempt these and no others.

### Kanban

Each goroutine is a record: the step it takes next (`pc`), the phase it carries
from an earlier step (`ph`), the command on whose behalf it runs (`who`), the
command it handles (`proc`). The steps are the reads and writes of the code in
its order; between any two of them every other goroutine may run.
`RowGone` is the early return of every handler that does not find the row;
`StatementFails` is a failed statement, a cancelled context or an exhausted
retry loop; `LaunchFails` is a failed `cmd.Start`; `Stop` is the end of the
server at any moment and the start of a new one, which looks for no task to go
on with. A harness is external: it may make the calls in `HarnessOps`.
`Disciplined` says that harnesses keep to the order of calls (the first one
after `Dispatch` has returned, one at a time, none once a finalizing call was
accepted). It says nothing of how they end: `Exit` is clean or not, by itself or
by the timeout, at any moment. An end is *late* (`EndsLate`) if a goroutine still
works on a call of the command, or if the command fails after its phase was
finalized, as the shipped scripts may and the timeout of `Dispatch` may in any
command; the server then retries a phase that is over, beside the successor.
`late` counts these ends and `MaxLate` bounds them. A command that ends well
with its phase unfinished (`EndsUndone`) is a fault of the environment.
A harness may also complete without naming a phase
(`Namings`), for which the authorization has nothing to compare and the bus no
subscriber. `setback` and `stranded` are history variables: whether something
has happened since the last start of a command that leaves the task to nobody,
and whether the last write of `completed` was one that nobody follows up.
`Attentive` says that users restart a task when, and only when,
nobody works on it any more. Tasks do not interact in the server, every map and
row is keyed by the task identifier, so one task is modelled.

The first read of a handler belongs to the step that starts the goroutine: until
it has read something the goroutine has no effect and could as well begin later.

### Card

What a user may rely on who leaves a card to harnesses that keep to their order
of calls, without goroutines, commands or reads. The state is the life-cycle
columns of the row (`life`), whether the card is there, the failures counted
against its present phase (`attempts`), and how often the server was restarted
(`outages`) or a command ended late (`late`). A move is a closure applied to the
row, and `Move(condition, after)` says what it takes into account: a phase is
completed, fails or sends the card back only while it is worked on; a completed
one is left once, to the next lane; a lane begins with all its retries, and its
count only grows until the next move to a lane or a restart; a done or failed
card makes no move at all. The conditions hold as long as no command has ended
late. After that the moves are the same and their conditions are void, because a
late failure has a phase that is over dispatched again, whatever the row says:
a card that is done goes back to work. The mapping from `Kanban` is the
identity but for `there`, which is `Live`, and `outages`, which is `stops`: every
step of a goroutine that writes the row or the counter is one move, `LateEnd` is
the exit of a command, all others stutter. The specification is a safety
property: a fault or a restart may keep a move from coming, but puts no other
one in its place. `CardSteps` states it.

### LiveTail

Chunks are numbered by their position in the buffer. A fan-out under way is a
set of viewers still to be visited; a viewer that registers meanwhile may or
may not be visited, as Go's map iteration allows. `MapFault` is the Go runtime
noticing that a map is written while it is walked, and stops the process.
`on` and `since` remember what a viewer was replayed and then what it
subscribed to. The buffer's 64 KB limit is left out: it takes chunks out of the
replay and touches nothing else.

### Handover

A row of `phase_outputs` is known by the number of the INSERT that made it
(`id`), so that later is greater, by what there is to quote of it (`says`: the
raw output, else the summary, else nothing, since each text may be blank), and,
as history, by who made it (`by`). `Save` is `update_task_output`, a new row with
an output, with a summary only, or with neither; `FindOutput` and `Upsert` are
the two statements of a completion. `Upsert` either rewrites the row that was
found, by its id and with its raw output as it was (`Rewrite`), or inserts one
with the summary alone (`Insert`). If a save fell between the two statements of
a completion that had found no row, its row is replaced: the *crossing*, the one
way in which a report is lost, and `OutputIsPreserved` in section 3.
`Carries(row, saved)` says that a row still holds what was saved in another one
or something saved later, or that it fell to such a crossing.

A dispatch is one step for the row and one for each query that follows
(`LoadPrior`, `LoadSubtasks`, `LoadFeedback`); `Build` keeps the blocks that the
lane's template has. `ReadTask` and `ReadOutputs` are the two SELECTs of
`get_task`. `handed` remembers the row that the run had saved which completed a
lane last, `owed` what the last reopen said; a dispatch copies them (`least`,
`due`), so that the prompt of a goroutine about to launch is judged by what was
true when the row was updated. The reason of a reopen may be blank (0). The
registry, kills and the retry counter are left to `Kanban`: here a command fails,
is retried or a task restarted at any time, as a mishap.

### PhaseConfig

A request that saves is `upsert`, `load`, `swap`: the transaction, the query and
the critical section of `Reload`. A missing row and a row of empty fields both
mean "inherit" and are one value. `Merged` is what a dispatch sees, the
defaults come from `BuildPhaseConfigs` of any environment. A configuration is
read (`Snapshot`) lane by lane, as the provider takes its lock for each.

The dialog shows a field as empty if what is in force is the default (`FormOf`),
and saves *all* lanes of its form without the blanks around them (`Cleaned`). It
can be closed and opened again with loads and a save still under way: each
opening starts another load, each answer, in whatever order it comes, takes the
place of the form, also in a closed dialog, and the answer to a save closes it.
`Loads` are names for the loads under way, `"reply"` is the answer to a save.
`loading` keeps a dialog from saving until some load is over, not necessarily
its last; the form survives a lost answer and a closing.
Programs that use the REST interface send any overrides they like.

`excused` are the fields in which a form may differ from the rows: those its
user has changed, and all of them once a commit, the dialog's own included, was
made after the form was read, a stale copy was read, or the server restarted in
another environment. `outdated` says the same of the answers on their way, and
`granted` keeps what was excused when a save was sent. `crossed` and `unseen`
are history variables too. Validation (lanes that do not exist, negative
numbers) is left out.

### TaskRecords

Every step is one SQL statement; a request is the statement it is at and what
it carries from an earlier one. `Save` is `update_task_output` (INSERT OR
REPLACE: a new id), `Find` and `Upsert` are the two statements of
`savePhaseSummary`, which either updates the row found, by its id, or inserts
one without output. `Clear` and `Create` are the DELETE and the INSERTs of
`create_subtasks`, `FindSubtask` and `Mark` the two statements of
`update_subtask_status`. `GiveUp` is any failure between statements, an item
without a title too; `DeleteTask` is the cascade of the foreign keys. All
statements name one task, and those on outputs one phase of it, so one of each
is modelled. `crossed`, `latest` and `mixed` are history variables.

### EventFeed

A publisher is a stack: the call, and on top of it each event it is publishing
with what its handler has still to do. `Publish` (and `Begin`) is a write and
the `Publish` that follows it; the handler's own events push further frames,
and only when a handler is done does the frame's event go to the broker, which
is the order of `DispatcherMemory.Publish`. `RLock`, `Send`, `RUnlock` are
`onEvent`; a handler that waits to subscribe or unsubscribe keeps new readers
out, as Go's RWMutex does. Events are classed by their handlers and by what the
page does with them; each member of `Calls` is what one call writes and says, in
its order.
A page connects, is subscribed, receives, leaves, at any time; for an event it
knows it asks for the list. What the list contains is abstracted to whether it
is *current*: nothing it shows was written to since the server read it. How
many requests are under way is left open (`Without`).

### Migrations

Effects are pairs of a file and a statement. `Exec` needs the write lock,
`Commit` publishes the transaction's effects, `Record` is the later
INSERT. `Stop` ends a process anywhere (a crash, an I/O error, a wait for
the lock that took too long) and rolls its transaction back. A statement of a
file outside `Repeatable` fails if its effect is there. Re-applied
CREATE ... IF NOT EXISTS statements also take the lock in the model, where
SQLite only reads.

## 3. Runs

Passing:

| run | bounds | what it shows |
|---|---|---|
| `task_store` | 2 goroutines, version <= 4, 1 retry, closures dispatch and advance, edits of 2 contents, failing statements | no update is lost, conflicts are real, the loops implement atomic updates and return |
| `kanban_flow` | 2 goroutines, 2 commands, 1 retry, complete and reopen, 1 late end, 1 fault, 1 stop that leaves up to 1 command behind | one agent, and one more after a late end; until then lane by lane and `failed` only after the retries; a card stands still only for a listed cause and makes only the moves of `Card` |
| `kanban_user` | 2 goroutines, 2 commands, 1 retry, all 6 user operations, 2 of them, completions that name no phase | no pending task is forgotten and no completed one left in its lane, a card stands still only for a listed cause, the registry names live commands, a command that had the task for itself can be killed and its kill is no failure |
| `kanban_live` | 2 goroutines, 2 commands, 1 retry, a fault, a stop, no late end, 2 operations: deletion, and restarts by attentive users | the flow ends, across faults and restarts of the server; after a deletion the server becomes quiet |
| `handover` | 2 goroutines, 2 commands, 2 saves or reopens, outputs, reasons and summaries that are blank, 1 mishap | a reviewer and a page are told what was handed over or what was saved later, but for the crossing of a completion; a reworker the reason and the review |
| `live_tail` | 2 viewers, 2 sources, channel of 2, 2 chunks, a deletion | only a full channel costs a viewer a chunk or the end; a source stays in order |
| `phase_config` | 1 dialog with 2 loads and a save under way together, 1 program, 1 lane, 1 field, 2 values of which one has blanks around it, any environment, failures, lost answers, restarts | the copy is stale for two causes only; a dialog changes what its user edited or drops blanks, unless its form was outdated |
| `migrations` | 2 processes, the 8 files of `migration_files`, 2 stops | the schema is whole and in order, the server comes up but for one kind of stop |
| `task_records` | 2 requests, 2 texts, 2 statuses, lists of up to 3 items, 3 inserting calls | an output is lost to a completion only in the window between its two statements; a checklist is the latest one, unless replacements overlapped, and has no holes |
| `event_feed` | 2 publishers, 1 page, channel of 1, 2 calls | no send on a closed channel; a stale board has one of the listed causes; publishers return whatever pages do |

Violations. Each of these runs checks one sentence of the code's own comments or
documents, and TLC shows how the code departs from it; `PROJECT.json` quotes the
sentences.

| run | property | in short |
|---|---|---|
| `kanban_killable` | `WorkerIsKillable` | the finished command's monitor unregisters its successor (by task), so a pause or a deletion kills nothing |
| `migrations_once` | `AtMostOnce` | a stop between commit and record applies the file again; if it is one with ALTER TABLE, no later start succeeds |

Further departures. The same modules state more sentences that TLC refutes. They
are kept with their configurations, to be repeated by hand, next to the runs
above that are part of the regular set. Each one is a counterexample of a few
steps.

| property | configuration | sentence | what the code does |
|---|---|---|---|
| `KilledIsNotReported` | `MCKanbanKilled.cfg` | `adapter.go:63-65` | an older command's monitor takes the kill mark; the killed command is reported and retried |
| `FailureIsReported` | `MCKanbanSwallowed.cfg` | `adapter.go:142-143` | a kill that finds no command leaves a mark that swallows a later failure |
| `ReopenGoesBack` | `MCKanbanReopen.cfg` | `phase_orchestrator.go:524-525` | a reopen decided on an older read writes a phase that is not earlier |
| `EndIsSent` | `MCLiveTailFull.cfg` | `store.go:103-104` | a full channel drops the end of the stream, which is not closed either |
| `AfterSubscriptionOnly` | `MCLiveTailAfter.cfg` | `store.go:102-103` | a chunk written before the subscription arrives through the channel |
| `ReplayMeetsTail` | `MCLiveTailGap.cfg` | `live_handler.go:13-14` | what is written between replay and subscription is not shown |
| `NeverRanIsEnded` | `MCLiveTailNever.cfg` | `live_handler.go:27-28` | the stream of a command that did not start is never ended |
| `ClientsDoNotStop` | `MCLiveTailCrash.cfg` | `store.go:19-20` | the viewers' map is iterated over and written at the same time |
| `EditsTakeEffect` | `MCPhaseConfigStale.cfg` | `phase_config_provider.go:17-18` | of two crossing saves the older rows stay in the copy |
| `PausedStays` | `MCKanbanPaused.cfg` | `docs/rules.md:39` | a sleeping retry dispatches a task that was paused meanwhile |
| `CompletesItsOwnPhase` | `MCKanbanOwnPhase.cfg` | `authorize.go:29-30` | two completions pass the check; the second completes the next phase |
| `OutputIsPreserved` | `MCTaskRecordsOutput.cfg` | `advance_phase.go:37-38` | a completion that found no output inserts a row over the one saved meanwhile |
| `FreshListWins` | `MCTaskRecordsList.cfg` | `create_subtasks.go:18-20` | two replacements overlap: the list answered last is mixed with the other one, or partly deleted |
| `BoardsUpdate` | `MCEventFeedBoards.cfg` | `README.md:166-168` | a failed request, or what was published before a page reconnects, is not asked for again |
| `CauseFirst` | `MCEventFeedOrder.cfg` | `SPEC.md:257-260` | handlers run before the broker and publish: clients get the consequence before its cause |
| `OverridesAreKept` | `MCPhaseConfigKept.cfg` | `README.md:299-303` | an override that equals the current default is shown as none, and dropped by the next save |
| `FindingsReachEveryLane` | `MCHandoverFindings.cfg` | `prompt_builder.go:260` | the templates of `validating` and `testing` have no feedback block: a reopen to `validating` tells its harness nothing |
| `FeedbackIsFresh` | `MCHandoverFresh.cfg` | `README.md:196-197` | the outputs of later lanes are quoted whether or not the card was reopened: a restart meets reviews of an earlier cycle |
| `ReplacesAll` | `MCPhaseConfigAll.cfg` | `phase_config_repository_sqlite.go:42-43` | a save leaves the lanes it does not name |

`ChecklistIsShown` of `Handover` (`README.md:178` of the repository) is refuted
in the same way if it takes the place of the invariant in
`MCHandoverFresh.cfg`: only the template of `doing` has the checklist.

Read while modelling, and not expressed as properties: the broker is not drained,
the contexts of the harnesses are not cancelled and the database is not closed
when the server ends, which `SPEC.md` section 29 and `docs/operations.md`
promise; an open page keeps the API's `Shutdown` busy until the common deadline
has passed, so that calls of harnesses on the MCP port are then cut short. The
contract that `prompt_builder.go:11-12` says every prompt carries is not in
those of `planning` and `todo`; its comment on `previousPhaseForReopen` (line
278) names another lane than the code returns. The template of `testing`
drops part of what is collected for it. A reviewer who saved both is quoted with
the raw output even if the summary is newer.

Bounds, and why they are enough. Two goroutines are every pair of handlers in
every order; a third call waits for an idle one, and the properties that speak
of one handover need no third. Two commands are a phase's command that ends late
and its successor, or one that outlived a server and its successor; a name is
used again once its monitor is done. One retry gives both outcomes of
`HandleRetry`. One late end is the first, which separates the two halves of the
properties of `kanban_flow`. In `kanban_user` there is none: the instance with
users would be too large, and the theorems about its properties hold however
commands end. In `kanban_live` there is none either: with a third command at
work the two names would be used up, and a retry would wait for one in vain,
which no server does. `MaxVersion` stops new calls, not running ones.
`MaxUserOps` and `MaxFaults` count what the environment does, with zero, one or
two the shortest scenario of each hazard fits, and the theorems hold without
them. `MaxStops` is one restart, since a second one finds no more than the first
has left; `MaxLost` is how many commands outlive it: one in `kanban_flow`, where
it meets its successor; none in the liveness run, where a lost command, which
nobody waits for, would use up the names of commands for ever. In `Handover` two
saves or reopens are a report and the one that overtakes it, or a review and the
reopen that tells of it, and with one mishap any query fails, or a retry,
restart or deletion falls anywhere. Summaries are blank in the run, which is the
worst they can be: none of the three properties asks what a completion has
written, only what it has left of what was saved. In `PhaseConfig` two loads and
a save are an answer that overtakes another one and the commit between them.
Fields do not meet at all, and lanes only in the order in which one answer reads
them; with two lanes the instance has more than twenty million states, so
answers torn over several lanes are left to the proof, which holds for any
number of them.
In the live tail one run (`MaxRuns` 1) with two sources is the sharing the code
has, since a stream is never used by two runs. Its channel of two is full after
two chunks, so that the third message, or the end, meets a full channel.
In `TaskRecords` no step looks at a status, so that two of the code's three do;
three inserting calls are two replacements and the list they
replace, or a save between the statements of two completions; three items are
the fewest that can have a hole. In `EventFeed` a call publishes up to three
events, its handlers three more, which overrun a channel of one many times; the
page comes and goes as often as it likes. Pages meet only in the lock: with two
of them, a channel of two and one call the safety properties have been checked
as well, by hand.
Deadlock is not checked (`CHECK_DEADLOCK FALSE`) where the system may really
stop: tasks end, goroutines become idle, bounds are reached.
Symmetry is used in safety runs only, over names that the specification does
not tell apart.

Fairness. Weak fairness of a goroutine's and a monitor's steps: the Go scheduler
runs what is runnable, and statements end. Strong fairness of a harness's exit:
`Dispatch` gives each command a deadline (`context.WithTimeout`), after which
it is killed, however often it calls before; that the wait then returns
assumes that no child of the command keeps its output open. This holds for the
commands of the present server only. In `kanban_live` users are attentive, and
weakly fair in it: the repository's troubleshooting tells them to click Retry on
a card that is stuck. Nobody else has to create, call, ask, connect or save.
In `EventFeed` publishers are strongly fair: one that
waits for the broker's lock gets it although clients come and go for ever,
because the RWMutex lets waiting readers in when a writer leaves; a client that
waits to subscribe or unsubscribe is weakly fair, since it keeps new readers
out. Pages are not fair at all. In the live tail a connected client keeps reading
and a started command ends; in the migrations a process that waits for the lock
gets it in the end and a stopped one is started again.

## 4. Proofs

Every safety property of the passing runs is proved, for every number of
goroutines, commands, viewers, lanes, files and so on, and for every bound. The
ones about the undisturbed flow of a task have the hypothesis that their run
chooses as well (`LeftAlone`, below).

* `TaskStore_proofs`: the invariant says that a copy whose version is the row's
  *is* the row and that no copy is newer. From it: `CopyIsCurrent` (no lost
  update), `ConflictsAreCommits` (a conflict is another's commit since the call
  began), and `ImplementsAtomic`, the refinement: an accepted Update is one
  atomic update, a refusal has one of the three causes, a failed statement ends
  a call without effect, the rest stutters.
* `Harness_proofs`, the adapter: `HarnessInv` relates registry, owners, monitors,
  signals and what was shared: an unshared command is the only current one of its
  task. Hence `RegistryCorrect`, `Killable` and `KillsAreExcused`. The
  theorems assume `NamesAreFree` of the names (the two constants for "none" are
  no task and no command), which each user of the module knows of its own.
* `Harness_proofs`, the live tail: only viewers that hold a channel are in a map
  or in a walk over it (`AttachedInv`, `MemberInv`), a channel holds chunks of the
  stream its viewer follows (`QueueInv`), and a walk hands out the latest chunk
  of its source to viewers that do not have it (`FanInv`). So what is added
  to a channel is later than what the source has sent there (`TailInOrder`),
  and a viewer that lacks a chunk is still to be visited, or its channel was full
  (`NothingIsMissed`).
* `Kanban_proofs`, whatever users and harnesses do: `KanbanInv` adds to the types
  what goroutines carry in which step (`CarriedInv`) and that commands belong to
  the task (`OwnedInv`).
  `NoCardWaits` goes through the actions that write `pending` or leave the
  three steps before a dispatch, `CompletedMovesOn` through those that write
  `completed` or take the card away from it. `KillsTheRightCommand` reuses the
  adapter's step lemma: every step of `Kanban`, the stop of the server included,
  is a step of `HarnessAdapter` or leaves it alone, so the adapter's invariants
  hold in `Kanban` (`WorkersCanBeKilled`, `KilledIsExcused`).
  `CardsStandStillForACause` needs `DrivenInv`: at every moment, not only once
  nothing is under way, the task rests, a cause has struck, or a goroutine or
  a command has the duty to go on with it. Whoever gives up the duty hands it over.
* `Kanban_proofs`, the undisturbed flow: `AgentsAreCounted`, `LaneByLane` and
  `FailsOnlyWhenExhausted` assume `LeftAlone`: harnesses keep to their order of
  calls (`Disciplined`) and users ask for nothing. Calls
  and users that cross each other break them, as rows of section 3 show (a
  second completion completes the next lane). How and when a command ends is not
  assumed; failed statements, failed starts, stops of the server and commands that
  outlive it are all admitted. `AgentsAreCounted` holds throughout: by
  `ProtocolInv` whoever drives the task on, or may yet come to do so, is one at
  first, each step hands the part over or lays it down, and only a late end adds
  one. The other two are about the time until a command ends late, as an agent
  more makes the reads of the first one stale. Then `FlowInv` says that
  there is at most one agent, that a call under way is the only one of a command
  that runs and has not finalized its phase, and that what a goroutine has read
  of the row is still so when it writes (`UpToDateInv`): whoever writes the row
  or the retry counter is the only agent.
* `Kanban_proofs`, the card: under the same hypothesis `ImplementsCard` takes each
  step of `Kanban` to a move of `Card` or a stutter, late ends included. For the
  conditions of the moves, which hold until the first of these, it needs `WorkInv`
  besides: who acts on the card knows its lane and status. A
  goroutine that counts a failure or sleeps holds a card in progress, one that
  advances holds a completed one, and a command that runs works on the lane the
  card is in. `SettledCardsStay` follows from the refinement: until a command has
  ended late, no retry and no command of an earlier server takes a done or failed
  card up again.
* `PhaseConfig_proofs`: as long as no commit crosses a reload, what a request has
  loaded is what the table holds; hence the copy is current or about to be
  replaced (`StaleForTwoCauses`). `FormInv` says that where nothing excuses it a
  form shows what the rows say, that the lanes an answer holds so far do unless
  it is marked outdated, and that the request made of a form says the same but
  for the blanks that were dropped; it survives any overlap of loads, saves and
  closings, since a commit marks the forms and answers of all dialogs, its own
  included. Hence `DialogsSaveTheirEdits`.
* `Migrations_proofs`: the transaction holds exactly the statements executed so
  far, and a process at file n has seen files 1 to n-1 applied. Hence
  `AllOrNothing`, `RecordedIsApplied`, `InOrder`, `UpIsMigrated`, for any
  number of processes and stops.
* `TaskRecords_proofs`: ids are fresh, so a row with the id that a completion
  found *is* that row with at most its summary changed (`OutputInvariance`);
  hence `NoOutputIsUndone`, `OutputsSurvive`, `SummariesAreKept`. For the
  checklist, what is there of a list under way is a run of items that ends right
  before the request's next one, however often it was cleared (`GrowingInv`,
  hence `ListsHaveNoHoles`), and if no replacements overlapped the only list is
  the latest (`LatestListStands`).
* `EventFeed_proofs`: readers of the lock loop over clients that cannot leave
  (`LockInv`, hence `ChannelsAreOpen`), and a publisher that reads has nothing
  left to do before its event (`ReadersInv`). `StaleBoardsHaveACause` follows
  each page through every step: a write is owed by the frame above it, the
  frame's loop puts it into the channel or notes the loss, the page turns it
  into a request, and the answer into a board.
* `Handover_proofs`: `RowStep`: each step leaves a lane's row, makes a later one,
  rewrites it without taking a raw output from it, or replaces it in a crossing,
  so what it carries it goes on to carry. A completion that rewrites must know
  whether its row holds a raw output (`Found`): the row it found has not changed
  in that, as ids are not used twice. Hence `KeptInv`: as long as the task
  exists, what was handed over, what a command has saved and what a
  reopen owes is carried by the row of its lane, for every goroutine that
  remembers an older value of these. `ServedInv`: a goroutine works for a lane,
  a call for the phase of its command, which does not end before its call has
  returned. `PromptInv`: each query adds its block for good, so a prompt knows
  what its block has to tell once the query is done. Hence `ReviewersKnow` and
  `ReworkKnowsWhy`, of the goroutine about to launch, and `PagesAreCurrent`, which
  needs `KeptInv` only.

What a failed attempt taught. An earlier version of `Kanban` had a completion that
finds the task done mark it completed without further effect. The proof of
`CardsStandStillForACause` could not get past that step: between the read and
the write, a restart and a reopen can take the task back to a lane, and then
`phase_orchestrator.go:121-130` marks a lane completed with nobody to move it
on. The bounds of the runs were too small to reach it. It is now one of the
listed causes.

The assumptions are the named ASSUMEs of the modules; TLC evaluates them on
every run. Type correctness is part of each invariant because arithmetic and
function updates need it.

Only model-checked: liveness (`CallsReturn`, `PublishersReturn`, `FlowEnds`,
`DeletedIsQuiet`, `EndArrives`, `UpOrTorn`), because fairness and ENABLED are out
of the prover's reach, and of course what is refuted. The position of a phase in
the order is a CHOOSE over a constant sequence, which the proofs unfold; no
recursive operator is used.

## 5. Not modelled

Wording, logging, SQL text and JSON; the timeline and the log of events behind
it; the router, the command line, the container; the harness scripts, which are
outside the server; the frontend but for how its board is kept current, where
the task that the page inserts itself after a creation is left out, and for the
dialog of the configuration. The list of tasks is read at one moment, although
the server reads the subtasks task by task. The graceful shutdown is not
modelled step by step: to the tasks it is the `Stop` of `Kanban`, which may
come at any moment. `Kanban` does not contain outputs and checklists, since no
step of it depends on them; they are in `TaskRecords` and `Handover`. The
retry delay is a step without a duration. In the live tail, the bytes.Buffer
that both copying goroutines write is left out: its contents only end up in an
error message; its panic is the `Stop` of `Kanban`.

## 6. Plan

Done in this order: the row and the store, the adapter, the orchestrator, the
live tail, the configuration, the migrations, the records of a task, the event
feed; then restarts of the server and calls that name no phase in the adapter
and the orchestrator, the hand-over between harnesses, the dialog of the
configuration; then the proofs of the undisturbed flow, of the live tail's other
runs and of the hand-over, and the card. Next:

1. The graceful shutdown of the two listeners with pages and calls under way.
2. The task board of `EventFeed` with the page's own insertion of a created
   task, and with the subtasks of the list read one by one.
