# Vibe Remote in TLA+

Vibe Remote is a Go daemon for macOS. It keeps several Claude Code workers running,
one behind each *session slot* of a phone-friendly dashboard, captures what is said in
them as checkpoints, and hands work from one account or agent to another. This
directory holds TLA+ specifications of its core, the TLC configurations that check
them on small instances, and proofs for TLAPS that the main invariants hold for
instances of any size. `PROJECT.json` maps every definition to the lines it models.

Paths below are relative to the repository; `manager.go` is
`internal/claude/manager.go`, `store.go` is `internal/store/store.go`, `ops.go` and
`server.go` are in `internal/server`.

## The system

| part | state | operations | talks to |
|---|---|---|---|
| worker manager (`claude/manager.go`, `runner.go`) | `workers` map, a worker object per start, its process, activity run and PID file | `Activate`, `Deactivate`, `stopLocked`, `start`, `supervise`, `settle`, `reap` | store (runs), files (PID), the Claude processes |
| ownership and recovery (`claude/ownership.go`) | installation lock, PID files | `AcquireOwnership`, `RecoverWorkers`, `checkRecoveryRecords` | manager, processes of an earlier daemon |
| slots (`server/ops.go`, `server.go`) | `remote_sessions` rows, `opMu` | create, move or edit, start, restart, stop, delete, `Restore` | manager, store |
| checkpoint hooks (`checkpoint/`, `main.go` `runHook`) | none of their own: a process per event | report activity, capture turns, deliver tickets | store only |
| worker activity (`store/activity.go`) | `worker_activity_runs`, `worker_activity_items` | begin, end, record | manager, hooks, dashboard |
| checkpoints and turns (`store/store.go`) | `sessions`, `turns` | `RecordHookEvent`, `InterruptSession`, retention | hooks, slots |
| handoff tickets (`store/store.go`) | `handoffs` | create, find, claim, complete, release | dashboard, hooks |
| automatic continuation (`server/continuation.go`, `checkpoint/continuation.go`) | a private file per slot, a row | continue, deliver | slots, tickets, hooks |
| account setup (`server/setup.go`, `store/setup.go`, `cmd/.../setup.go`) | `setup_jobs` | start, heartbeat, finish, cancel, interrupt | a login helper process |
| selection (`store/selection.go`, `model/selection.go`) | requested and observed model and effort | resolve, observe | slots, hooks |
| keep-awake (`system/awake.go`) | one power assertion | apply, close | manager's running count |
| runtime maintenance (`claude/runtime*.go`) | version history, snapshots | remember, clean up | manager |
| profile baseline, project memory (`claude/profile*.go`, `memory.go`) | managed files and manifests | reconcile, import | start of a worker |
| terminal, computer use (`claude/terminal.go`, `computer_use.go`) | ring buffer, pending calls | write, read, poll | runner, dashboard |
| configuration of a launch, installation, battery, rendering | files and output | pure transformation | |

What is hard here:

- The daemon, every hook and every worker are processes of their own. Hooks share only
  the database with the daemon, have a few seconds each, arrive in any order, late or
  never, and outlive the worker that ran them.
- Inside the daemon, `Server.opMu` and `Manager.opMu` serialise what the user asks, but
  the supervisors, the settle goroutines and the processes run beside the holder, and a
  stop waits for up to three timeouts without the manager's inner lock.
- Every operation on a slot is a sequence of steps any of which can fail, and the daemon
  can die between any two. Workers outlive it.
- Leases, heartbeats and retention run on clocks nobody else waits for.

`PROJECT.json` lists 40 such hazards at their lines, with the properties that guard them
or the reason why none does.

## What makes each part correct

- **Worker manager.** No process escapes the manager; one slot never has two; what runs
  is recorded; the run of a served process is open and a stopped slot's is closed; an
  operation comes back; a slot does not come up for ever.
- **Activity.** What is shown is of the present run and conversation; what ended does not
  come back; when every call of the run and conversation shown has ended and every hook has arrived nothing stays pending.
- **Tickets.** Consumed at most once, only after delivery, only by the holder of the
  claim; only the newest of a destination is open; a claim never strands a ticket.
- **Slots.** A stopped or removed slot stays down; a slot resumes a conversation of its
  own place, the one its worker talks in; operations on one leave the others alone.
- **Turns.** What the user asked stays, an answer stands beside its question, and what was
  interrupted does not come back by an older event.
- **Selection.** What was requested of a conversation is what its slot is started with.
- **Setup.** A job nobody works on is given up, and a helper nobody waits for ends.
- **Recovery.** Only recorded workers are signalled, and none is started beside a recorded one.
- **Continuation.** The checkpoint reaches the continued conversation or stays for the next try; only a hook that
  ends without refusing its prompt lets that go ahead without it.
- **Profile.** What the user had in a profile is never lost. **Memory.** Equal notes have one copy.
  **Runtime.** A sweep spares what a live worker runs from, if it could read what is installed.
- **Console.** A key meets the process whose output the user saw. **Approval.** A dialog whose list fits the screen is answered, and never with what the approver saw in an earlier one.

## The modules

`X.tla` is the specification, `MCX.tla` adds what TLC needs (symmetry, a view, and in `MCParts`
the choice of a part), `X*.cfg` are the instances, `XProofs.tla` holds the theorems (those of the parts are in `ConversationProofs`, `FilesProofs`, `RecoveryProofs` and
`PartsProofs`, the last of which also has those of `MCParts`). Operators that start with a comment
"Mutant:" are plausible wrong versions of the definition that follows them; the specification
does not use them. `PROJECT.json` ("mutants") pairs each with the property it breaks.

### Worker and SlotLife

One step is one critical section of `Manager.mu`, one store or file write outside it, or
one channel receive.

| variable | code |
|---|---|
| `op` | the goroutine that holds `Manager.opMu`: which line of `Activate`/`stopLocked` it is at, and the process `stopLocked` took out of the lock |
| `workers` | `Manager.workers` |
| `wk` | worker objects: `ctx` cancelled, `process`, `activityRunID`, `state` |
| `sup`, `settle` | the goroutines `supervise` (with `attempts`) and `settle` of each worker |
| `proc` | the Claude processes: alive or dead, registered with Remote Control, refused, sent SIGKILL |
| `activity`, `pidRecord` | the slot's row of `worker_activity_runs`, the slot's PID file |

A *launch* stands for the run ID a call of `start` draws and for the process it may start.
`Activate`, `Deactivate` begin an operation; `Stop*` is `stopLocked`; `Activate*` the rest of
`Activate`; `Sup*` is `supervise`; `Settle*` is `settle`; `Register`, `Diagnose`, `Exit` are
the process. Everything `start` can fail at before the process is `StartEarlyFailure` (before
the run begins) or `StartRunless` (after). The stop's timeouts may fire at any time.
Left out: writes of the activity run that fail (the code ignores their errors), restart delays as
durations, the terminal, `Remove`, `Refresh`, `Close`.

`SlotLife` is what the manager promises of one slot, without a goroutine in it: the slot is taken, left and given back;
a process begins only while the slot is wanted and alone; the record names what runs and goes only when nothing does; a run
opens once, when it begins. `Worker` implements it under the mapping at its end: a slot is *free* when the map has no
worker for it, *leaving* from the moment its worker's context is cancelled, else *wanted*; the accepted run is that of
an activity row that is not closed; the runs there have been are the launches no longer unused.

### Activity

The slot's run row, its items and its resume link, and Claude on the other side: it starts and ends
turns, calls tools, asks for confirmation with or without a request ID, and sends one
hook per event (`sent`). `RecordWorkerActivity` is the transaction of a hook, applied to `sent` in any
order, `HookFails` a hook that failed or was killed. The tools are calls of one MCP server:
every query names the server, so servers do not meet. `started_at` orders items in two
queries; a hook takes its time before its transaction, so the model leaves the order open.
Claude waits for its prompt and stop hooks before it goes on (`Heard`), external to the code.
`orderly` is a history variable.

### Handoff and Ticket

`Handoff` has the `handoffs` table, the checkpoints its rows depend on (`ON DELETE CASCADE`), the
retention sweep and the hooks: find, build the context, claim, write to the pipe, complete or release,
each store call a step. The clock counts days for expiry and retention; the 30 seconds of a lease
can lapse at any time within one. `Ticket` is what a ticket promises: none, open, then consumed or void
for good, and one open ticket per destination. `Handoff` implements it
under `status` (a row is open, consumed, or void when expired, superseded or deleted).

### Slots

The rows of `remote_sessions`, the workers behind them, the checkpoints, and the holder of `Server.opMu`
(`op`). `StopReads` to `Mark` are `stopRemote`, `Write*` the write that follows, `Launch` and `LaunchFails`
`startRemote`. `Crash`, `Serve`, `List`, `RestoreOne` are the daemon's end and start. Hooks run between any
two steps: `Report` is the transaction that adopts a conversation, `Capture` the later one that records the
prompt, `TurnEnds` the stop hook. What `Activate` and `Deactivate` do inside is module `Worker`; `Slots`
has their outcomes, and `open` is `activity` of `Worker` seen from outside. A *place* is an account and a
workspace. Left out: names, model selection (module `Selection`), and records that recovery cannot verify
(module `Recovery`; here `Serve` ends every recorded worker).

### Turns

One conversation as its hooks record it (`store.go` `RecordHookEvent` with `nativeTurnID`,
`mergeTurnEvent`, `refreshSessionFromTurns`) and as a stop interrupts it (`InterruptSession`). The agent asks
and answers; every event leaves a hook that takes its time, captures Git and records, so records come in
another order than events, or never (`EventLost`). Codex names the turn of an event, for Claude the store
looks for the one that fits (`Fitting`): both providers are initial states. A prompt and its
message are numbers, so a message beside another's prompt shows. The clock gives each record a time of its own.

### Selection

The rows of slots and conversations with requested and observed model, the merge of them at a start
(`ResolveClaudeSelection`), the dashboard's update in its two halves around the stop of the worker, the hooks
that observe and switch, adoption, use of the conversation elsewhere, the cleanup of
orphans. Effort is resolved like the model and left out.

### Setup

Jobs, the helper processes in their Terminal windows step by step (add, insert, log in, verify, repair, prepare,
finish), accounts, and the daemon with its monitor. Time is one bit per job: touched in the last thirty seconds
or not. Both sides die, the Mac sleeps, the user cancels, retries and removes.

### Recovery

Several daemon processes, one lock, records, and processes known by their birth: a number may be
somebody else's at any step. `Examine`, `TermTimeout`, `KillTimeout`, `SeenGone` and `Leave` are
`recoverWorkerRecord`; `RecordsClear` is `checkRecoveryRecords`, asked before `LaunchWorker`; `WriteWorkerPID` is a
step after it, and the daemon can die between them. `legacy` is the record of an earlier version.
What a launch and a stop do beyond the record is module `Worker`.

### Continuation

One source and one destination: the operation under `opMu` step by step, each of which can fail and be tried again; the file; the
destination's row and worker; its prompt hooks; restarts and crashes. A hook loads the file, records, writes the
text and removes the file (`HookLoads` to `RemoveContinuation`). It refuses the prompt by exit code 2 only
(`HookFails`, and a file that cannot be read, which leaves everything as it was). In every other end the prompt goes ahead
(`PromptGoesAhead`): the store does not open (`HookUnopened`), the report is not accepted (`HookIgnored`), or the hook is killed, runs
out of its three seconds at any step, or fails after its write (`HookKilled`). A hook that outlives its worker goes on but is of no prompt any more
(`Orphans`). `given` remembers the conversations whose worker the text was written to.

### Profile, Memory, Runtime

`Profile` is one entry of the shared baseline in one profile: conflict, backup, write, manifest and
revocation, each a step of a reconciler, of which several may run. `Memory` is the import of notes of
the profiles of one project, with its lock and its index. `Runtime` is the private copies of the executable, the
history of two versions and a sweep in four steps, between which updates are installed and workers start, register,
fail and end. A worker that does not register in time is failed while its process still runs, and no longer live
(`RegistrationFails`, `Live`). `sure` is false once a sweep could not read what is installed, or it changed meanwhile.
`Doomed` is what the sweep has left to remove; which copy is the newest, spared when there is no previous version, is a choice. In each, files are
edited, workers start and steps fail in between.

### Console and Approval

`Console` is the bounded output of a worker, counted in blocks, and the page that polls it and sends keys, with chunk and
key under way across restarts. `typed` remembers which process got which key and what was on the screen.
`Approval` is the approver: it asks the store for the pending call, looks at a copy of the
screen that follows the terminal late, and presses each key once per call when all stood still. A list of apps is short, long (cut off
until the terminal has 60 rows) or endless (cut off at 60 rows, too); an endless one is left to the user, and
`DialogIsAnswered` is about the others. That the copy is not later than the
350 ms it waits for is assumed (`Settle`); both properties rest on it.

The last ten share no state in the code beyond what each models as its environment, so they are composed by a
choice: `MCParts` explores one of them per behaviour, the others stay as they began. That is the same
as a run for each.

## The runs

| run | instance | states | shows |
|---|---|---|---|
| Worker | 1 slot, 2 worker objects, 3 launches, 1 restart | 1,046,511 | four invariants, and that the manager implements `SlotLife` |
| WorkerLive | 1 slot, 1 worker, 2 launches, 1 restart | 126,234 | the three liveness properties |
| Handoff | 2 hooks, 2 destinations, 1 checkpoint, 2 tickets, 3 days | 230,160 | the tickets, and that they implement `Ticket` |
| Activity | 2 calls, 2 conversations, 2 runs, 2 hooks at work | 1,231,723 | what the card shows |
| Slots | 2 slots, 2 places, 1 conversation | 628,035 | rows, workers and conversations agree |
| SlotsRestore | 2 slots, 1 place | 22,481 | the sweep ends |
| Parts | see below | 364,884 | the ten smaller parts, each on its own |
| WorkerRecord, HandoffSweep, SlotsKeep, SlotsInterrupt, SelectionFallback | as small | | a document the code does not keep; see below |

Why the bounds are enough. `Worker`: slots share nothing but `opMu`, so one is enough for the invariants; two
worker objects give a replacement while the first's goroutines still run, three launches a start, a supervised
restart and the replacement's start, and a restart limit of 1 both the retry and giving up. The theorems
remove these bounds. `Handoff`: two hooks
race, two tickets supersede; three days against a ticket life of two and a retention of one give expiry before
and after deletion. `Activity`: two calls are the first case in which a request is ambiguous; two runs and two
conversations give late hooks of each; with three calls of one run and one conversation (6.9 million states) the properties hold too.
`Slots`: with two conversations (6.9 million states) the properties hold too, and the theorems cover every size.

Of `Parts`: *turns* has two turns, one stop and one hook still at work when the agent goes on, the first case in which an event
finds the turn of another. *Selection*: two slots that share a conversation, two models. *Setup*: two jobs, a retry beside
the job it replaces. *Recovery*: two daemons, one slot and the legacy record, two numbers and four births, so that a number is reused before and
during the grace; the theorems cover more slots. *Continuation*: two hooks at once, three conversations, one for the
first try, one for a restart, one for a retry. *Profile*: two reconcilers, one shared content and two of the user's own.
*Memory*: two imports, three profiles with one and the same note. *Runtime*: three versions, current, previous and one more, one worker; with two versions
and two workers (47,296 states of this part) the property holds too.
*Console*: two runs, three blocks of output of which two are kept, so that the page falls behind; with three runs
(79,040 states of this part) the property holds too. *Approval*: two calls, the second of which may meet what was done for the first.

Deadlock is not checked: every bounded supply (worker objects, launches, tickets, days, runs) may run out,
and a daemon without requests rests. Symmetry and the view of `MCWorker` (which forgets fields nothing reads any
more) are used in safety runs only.

### Fairness

- `Worker`: weak fairness of the operation's steps, of each supervisor and of each settle goroutine: Go runs
  runnable goroutines and timers fire. A process is not fair: it may ignore SIGINT and SIGTERM and never
  register; only after SIGKILL does it exit.
- `Handoff`: a lease lapses; nothing is assumed of hooks.
- `Slots`: weak fairness of the holder of `opMu`, whose every step has a timeout, and strong fairness of
  `RestoreOne`, because a Go mutex does not starve a waiter (starvation mode).
- `Setup`: weak fairness of the daemon, which launchd starts again and whose monitor is a ticker; of the launch it has begun; of what a helper
  does on its own: its heartbeat, and its start, the end of one whose context is done and its return, which are one goroutine; and of the clock. None of the sign-in, which waits for a human.
- `Approval`: weak fairness of the ticker's two steps, of the terminal's copy, which a goroutine feeds, and of the 350 ms. None of Claude or of the user.

### What the documents say and the code does not do

1. **WorkerRecord** (`manager.go:691`). `start` gives the worker its new run before it prepares the new
   process. When a supervised restart fails in between, the PID file of the exited process no longer matches
   the worker and stays; once the slot has been stopped, `Activate` refuses it until the daemon restarts.
   `README.md:165` has only unverifiable or live legacy records block a launch.
2. **HandoffSweep** (`store.go:752`). Retention deletes a checkpoint with its open ticket, which
   `README.md:12` and `99` give 48 hours.
3. **SlotsKeep** (`ops.go:205`). An edit that leaves the conversation alone writes back the one it read
   before the stop (`README.md:71`).
4. **SlotsInterrupt** (`server.go:623`). A stop marks the open checkpoints of the account and workspace, not of
   the worker (`README.md:61`, `63`).

5. **SelectionFallback** (`selection.go:35`). What was observed in a conversation comes before what was
   requested of its slot, so that a fallback in a conversation without a request of its own changes what the
   slot is started with next (`README.md:171`).

### Observed while modelling

In the models, or left out of them as said, and without a property:

- *Worker.* A worker whose stop timed out is cancelled and still counts as live (`manager.go:108-116`): a start leaves it
  unsupervised until it is stopped again. `markRestarting` can overwrite the reason of a failed slot (comment at `manager.go:1083`),
  `markRunning` can mark a process running that has just died.
- *Slots.* A slot whose first start failed stays, wanting to run, when the request's context is gone (`ops.go:174`). A turn
  that ends while its worker is being stopped is marked interrupted (`server.go:631`).
- *Activity.* With three concurrent calls of one server the late start hook of an ended call takes another's anonymous
  request (`activity.go:189`; `README.md:69` concedes it). SessionStart adopts a conversation before anything was said in it.
- *Turns.* A Stop hook without a turn ID that is recorded after an interruption makes a turn without a prompt, and
  the next prompt takes that turn over.
- *Continuation.* `UpsertRemoteSession` writes and reads back with the request's context. If the request goes away in between,
  `RemoveContinuation` (`continuation.go:104`) deletes the file although the row exists; a retry then starts an empty conversation
  and reports success. A retry from the list of conversations does not stop a source the user restarted. The file of a deleted destination stays.
  The prompt of a continuation can go ahead without the checkpoint, which `README.md:12` and `server/continuation.go:122`
  call attached: when the store does not open within half a second (`main.go:245`, which is no `continuationHookError`), when the
  report is not accepted (`service.go:144`), and when the hook is killed or out of its three seconds (`install.go:221`) before its
  write. The file then stays, and the next start tries again. What a hook wrote before it was killed counts as attached in
  `given`; whether Claude Code still reads it is not known here.
- *Setup.* Emails are not unique among accounts: two overlapping additions make two. A helper's write brings back an
  account that was removed meanwhile, and a slower helper's failure overwrites another's success.
- *Profile.* An entry that was written when the reconciliation failed before the manifest is nobody's: it is not revoked (`profile.go:328`), and when the
  source changes it is backed up as if it were the user's. Two reconciliations may run at once, and one may write under a worker that was
  started after it looked.
- *Recovery.* A daemon that dies between the start of a process and its record (`manager.go:735`) leaves a worker nobody finds;
  a second one is started beside it.
- *Runtime.* A sweep looks at live workers only (`runtime_cleanup.go:58`): the copy of a worker that `settle` has marked failed
  (`manager.go:461`) can be removed while its process still obeys the interrupt or waits for the kill. It goes on when it cannot find or read
  what is installed (`runtime_cleanup.go:69-78`), and then, as after an update or a downgrade in its moments, the copy a worker has just started from
  may go. `README.md:187` makes none of these exceptions; `NeededCopiesStay` names them.
- *Console.* After a start that failed past the new run (`manager.go:691`), the old process's output is served under the new ID.
  `UpdateTerminal` writes to the terminal while it holds the manager's lock.
- *Approval.* A computer-use call whose end was never recorded is the oldest pending one (`activity.go:215`) and stands for every later
  dialog of its turn, which then waits for the user; while the copy of the screen still shows that call's dialog, a key for it can
  also confirm what is selected in the next. A list of apps that is still cut off at 60 rows is never answered: the terminal is not
  made taller (`computer_use.go:114`) and a screen with the notice gives no key (`computer_use.go:151`), though `README.md:93` has a truncated list expanded before approval.

## The proofs

TLAPS checks them for all values of the constants. Assumptions: `None` is in none of the sets, the restart
limit is a natural number, and the bounds of `Handoff` are natural numbers, the life of a ticket and the
retention positive. Of the parts: process numbers are positive, what the user writes into a profile differs from what is shared, the
names of files, daemons and slots are distinct, a console keeps at least one block, the IDs the store makes up for anonymous requests
are no call's, the default model is a valid name.

- **WorkerProofs.** `Inductive` is `Spec => []IInv`. The properties are about processes, but a process is kept by
  what the goroutines know, so `IInv` adds: who owns what (`MapInv`, `OwnInv`); that whatever runs is
  the present process and run of a worker in the map and is recorded (`ProcInv`); that a supervisor away from its
  process has none running and keeps its worker in the map until it returns (`SupInv`); what
  the holder of `opMu` has established at each line (`OpInv`), above all that a stop's worker is cancelled,
  so the supervisor cannot launch behind it; and that an open row is of the last run of the worker in the map (`RowInv`).
  The invariants of the run follow, that a slot never has two processes (`OneProcessPerSlot`) and that what runs is recorded
  (`RunningIsRecorded`), both of which the run checks as parts of `SlotLife`, and that a stop waits for the process its
  worker has (`StopSignalsPresentProcess`). One lemma per action.
  `Implements` is the refinement of `SlotLife`: under `IInv` every action is one of its steps or leaves its variables alone. What an action does
  to the five abstract functions is a lemma for each way the code has of doing it (a start that succeeds, fails or has no process, a
  kill, a removal of the record, a cancelled context). It needs one thing beyond `IInv`: a worker no `Activate` has taken is not cancelled (`FreshInv`), so that a
  new one is wanted. Two action properties follow from the abstract specification alone: nothing starts for a slot that was
  left, nor beside what runs (`StartsOnlyWanted`), and a run that ended is never open again, so its late callbacks are refused for good (`ClosedForGood`).
- **HandoffProofs.** `IInv` adds that tickets are created in order and that a hook past its write has written
  and, past its completion, owns a consumed row. `Implements` shows every step to be a step of `Ticket` or
  to leave its variables alone: a completion is a `Consume` as it demands an unexpired row, creation a `Create`,
  expiry and deletion a `Void`. `ExclusiveClaim` needs only that a row that is not there has no claim (`UnusedInv`): whoever takes a claim over finds its lease lapsed.
- **SlotsProofs.** `IInv` adds that a worker is in its row's place, that runs and conversations belong to
  rows that are there, and what the holder of `opMu` still knows after hooks, exits and supervised restarts: from
  the end of the wait to the write the worker is gone and cannot come back, since `RestoreOne` needs
  `opMu` and a supervised restart needs a worker.
- **ActivityProofs.** The four statements of the hook's transaction are treated once each: every one maps the rows to rows of
  the same keys, ends some of them and starts none again (`UpsertKeeps`, `AdoptKeeps`, `FinishRequestsKeeps`, `StopKeeps`). What a
  tool's or a request's event writes is made of these (`RecordToolKeeps`, `RecordRequestKeeps`). `IInv` adds that each hook at work
  names the run and conversation its call was made in (`SentInv`, `CallInv`), so that an accepted one writes only rows of
  the run and conversation shown. Counting enters once: a request is tied to the only pending tool.
  `NothingLeftWaiting` needs an account of whatever waits (`LInv`): as long as the hooks of each call are recorded in order and none fails, a
  tool's row that is not finished is of a call whose end is still to come (`Open`), a request that is linked waits beside the unfinished row of its tool (`Parented`), and
  a request linked to none waits only while some call is still to end (`Owed`); the last tool to end takes it along.
  When every call has ended and nothing is under way, nobody is left to owe an end.
- **RecoveryProofs.** A record may be of a process that is gone and name a number that is another's. `IInv` says what it is worth: it was
  written of the birth it names (`RecordInv`); whatever was recorded and lives is in its file now
  (`KnownInv`); only the holder of the lock touches files (`LockInv`); what a daemon has still to look
  at, and what it is about to launch, is not yet touched (`TodoInv`, `LaunchInv`); a legacy worker is in the legacy file (`LegacyInv`).
  `OnlyWorkersSignalled` and `NothingRunsBeside` follow for any number of daemons, slots, numbers and births.
- **ConversationProofs.** *Turns:* an event finds at most one row and puts one in its place (`RowOfEvent`, `Merged`), so each property is about
  that row. `TurnsIInv` adds that everything recorded has a time of its own (`TimesInv`), that the session is
  what its latest turn is (`ChatInv`), and, while no hook failed or outlived its agent, that Claude's turns are those of the agent in
  order, the last one open (`OrderInv`). That a last row exists in any choice of rows (`HasLatest`) is carried along, as induction over
  a finite set is out of reach. *Selection:* what was requested of a conversation comes first (`RequestedComesFirst`), and only the user's steps change it
  (`RequestStays`).
- **FilesProofs**, of the four parts that keep files. *Runtime:* `SweepInv` is what a sweep that is sure knows at each step although workers start
  meanwhile: live ones run what they ran when it asked, or what is installed, and history takes up only what a live one runs. `NeededStay` is
  about the step that removes a copy: what is needed then was spared, or the sweep is not sure. *Memory:* the holder of the lock is the only importer and has seen
  every copy there is, those of imports that failed as well. *Profile:* the types make it inductive: the manifest's hash is never that
  of the user's own content. *Continuation:* without a destination there is neither worker nor hook, so a new checkpoint meets nobody who read
  an earlier one (`NobodyInv`); whoever found no file, or has written, knows that the text was written to a prompt, unless it ended in silence (`GivenInv`);
  while a prompt waits for its hook, the file is there or the text was written, which is what `Arrival` needs of a prompt that goes ahead in silence.

- **PartsProofs.** *Console:* while a worker is of run r, r stands for one process: `ConsoleIInv` says so of page, chunk and key
  (`ScreenInv`), and that what carries a run was given it by a worker (`RunInv`). *Setup:* the types are inductive, one lemma per
  group of steps of a helper; every write of a verdict asks for a pending job, so a verdict stands (`VerdictsStand`). *Approval:*
  the approver asks for the oldest pending call, which the types need to exist; that any choice of pending calls has an oldest one is carried
  along (`HasOldest`). `OnlyAllows` rests on when the screen was seen: a candidate of the last call that has settled was on a screen no older than
  the call, so what that screen shows of the dialog since is what was selected in it, but for the approver's own move
  (`ScreenSeenInv`). Its premise is sharp: a request the store still has from an earlier call can confirm Deny in a later dialog. *Together:* a step of `MCParts` is a step of the part it names and leaves the others alone
  (`PartsStep`), so a behaviour of the composition is one of each part (`PartsAreParts`). `PartsTypeCorrect` and `PartsCorrect` then state
  of `PartsSpec`, which the run checks, what is proved of the parts by themselves.

Only model-checked: liveness (`OperationReturns`, `ComingUpResolves`, `GivenUpComesDown`, `ClaimsReturn`, `RestoreEnds`, `SetupEnds`,
`DialogIsAnswered`), because fairness and `ENABLED` are out of the prover's reach; induction over data and recursive operators would be
as well, and no module uses them. Every safety property of a passing run, of states or of steps, is a theorem.

## What is left

1. To compose: `Recovery` with `Worker` across a crash (the two meet in the record, which both have); `Slots` over
   `SlotLife`, with a step of its own for the daemon that dies; `Continuation` with the rows of `Slots`.
2. To extend: `Continuation` with a request that goes away between a write and its read-back; the merge
   of preferences in `Profile`.

## Not modelled

- Keep-awake (`system/awake.go`): one goroutine sets what is held to what is wanted; a property would restate it.
- Files and variables of a launch's configuration (`permissions.go`, `supabase_tools.go`, `shared_mcp.go`, `workspace_tools.go`, `environment.go`,
  `direnv.go`, plugins of a profile): data computed from data, without state of its own; their failure is a failed start of `Worker`.
- Dashboard rendering (`ui.go`, `view.go`, `render.go`, `state.go`): read-only views, HTML and wording.
- Installation and signing, battery and health, parsing of tool output, Git capture: they pass on what an operating-system tool
  says, or write configuration once.
- Types and validation of identifiers (`internal/model`): sets of values in the other modules.
