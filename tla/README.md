# Star-Control: a TLA+ verification project

Star-Control runs tools for Codex on a Windows machine. A long-lived *controller*
process owns all durable state and all external processes. Everything else is a
client that talks to it over a named pipe: the MCP gateway that Codex starts, the
hook commands Codex runs, the command line client and the updater. This directory
holds TLA+ models of the controller's core, the TLC configurations that check them,
and TLAPS proofs of the results that matter most.

`PROJECT.json` lists components, runs, mutants, the map from definitions to source
lines, findings, hazards and theorems. Paths below are relative to `src/`.

## 1. Inventory

`app` stands for `apps/star-controller/src`.

| Component | State | Operations | What makes it correct |
|---|---|---|---|
| Concurrency gate (`app/concurrency_gate.rs`) | count of workers per tool, set of lock keys, under one mutex | `acquire` with a deadline, drop of the lease | no shared lock, books equal leases, every acquire is answered |
| Operation store (`app/operation_store.rs`) | Operation records, idempotency table, one file rewritten on every change | create, transition, complete, cancel, forced shutdown, progress, process start and end, prune, load | verdicts are final, a start is never denied, a key resolves to its Operation |
| Tool dispatch (`app/main.rs`, `app/process_runtime/win32_launcher.rs`) | one task per dispatched Operation, table of cancellation tokens, Windows Jobs | `tool.invoke`, `operation.cancel`, `request.cancel`, `controller.shutdown`, restart | work runs once and excludes, cancels arrive, exit leaves no record open |
| Approvals (`app/approval_store.rs`, `app/main.rs`) | requests with decision and expiry, a second file | create, `approval.resolve` | one worker per approved Operation, decisions are final, only on a live scope |
| Codex lifecycle (`app/lifecycle.rs`, `app/main.rs`, hooks in `apps/star-cli`, `apps/star-mcp`) | instances, tasks, activity counters, two idle clocks | `lifecycle.observe`, one-second tick, start on demand | stays while a turn runs, keeps the lease, stops when Codex is gone |
| Process runtime (`app/process_runtime.rs` and `process_runtime/`) | launching thread, stdin and drain threads, Job Object, cancel plan, clocks | launch, record start and end, read, wait, terminate | nothing outlives the call or leaves the Job, success is undisturbed, the call returns |
| Trust store and registry (`app/trust_store.rs`, `app/main.rs`, `registry_runtime.rs`, `registry_watcher.rs`) | trust records and revocations in memory and file, package snapshots | trust, untrust, automatic grants, reload, start lease | nothing starts from a package whose trust is gone |
| Goals, coordination (`app/goal_store.rs`, `coordination_store.rs`, `star-development`) | durable Goals, push plans | commands of the management service | revisions never go back |
| Validation (`app/validation_*.rs`, `star-validation`) | permit, run, cached verdicts | run, cancel, reuse | a cached verdict fits the tree it is used for |
| Management stores (`crates/infrastructure/star-state`, `star-application`, `app/main.rs`) | a global store, a store per project, `active-set.json`, backups, recovery plans and receipts | create, open, register a project, back up, restore, rebuild | the active set names whole stores, a plan replaces what it was made for, once |
| Evidence store (`star-evidence`) | files named by their hash | write once, read | what is read has its hash |
| Patch execution (`star-execution`, `star-application`) | user files, PatchSet, PatchApplications with permits and receipts, worktree decision | apply (two generations), roll back, recover, discard | effects are announced, no half is called whole, edits of the user survive |
| Updater (`star-updater-core`, `apps/star-updater`, installation in `star-adapter-windows`, plugin in `star-adapter-codex`) | installed files and records, plugin, backups, restart receipts, update lease | restart with a candidate or a repair, recover, reconcile, activate a generation, offline installer | the committed release is installed or restorable, receipts are true, Codex comes back |
| IPC, MCP gateway, command line | sessions, handshake | request, event stream | each request gets one answer |
| Application service, planning, project, release, contracts, adapters | mostly documents and pure functions, calls to other programs | | |

How they interact. The controller answers requests one at a time in its IPC loop.
A tool that is not answered at once becomes a *task* that runs beside the loop:
tasks share the store, the token table and the gate, each behind its own mutex,
and a step that needs several takes them one after the other. The launcher reports back through
observers that write the store. Approvals and Operations are two files, written one
after the other. Hooks are processes of their own, so their reports arrive late, out
of order or not at all. Patches and updates write files that others write too: the
user edits the files of a patch, and starts and quits Codex under the updater. The
worker of an Operation loads the trust file again just before it starts a process;
the loop admits by the copy in memory.

What is hard here: a check under one lock that is used under the next; two files
that must agree; memory that is ahead of a file after a failed write; a second task
for an Operation that has one; a cancel, timeout, shutdown or crash between any two
steps of a launch; events about a process that is gone; a change that spans several
files, stores or programs and stops half-way. `hazards` in `PROJECT.json`
lists these at their lines, each with the properties that would catch it.

## 2. Modules

| Module | Models | Used by |
|---|---|---|
| `LeaseTable` | abstract specification of the gate: a table of leases | `ConcurrencyGate` (refines it), `ToolDispatch` (uses it) |
| `ConcurrencyGate` | `acquire` and `Drop for GateLease` | `ConcurrencyGateProofs`, `MCConcurrencyGate` |
| `OperationRecord` | what each method of the store makes of one record | the three modules below |
| `OperationStore` | the store under any caller, with its file, retention, crashes | `OperationStoreProofs`, `MCOperationStore` |
| `ToolDispatch` | dispatch, worker task, launcher, cancel, shutdown, restart | `ToolDispatchProofs`, `MCToolDispatch` |
| `ApprovalFlow` | request, resolution, expiry, both files | `ApprovalFlowProofs`, `MCApprovalFlow` |
| `CodexLifecycle` | projection of Codex, idle decision, both clocks | `MCCodexLifecycle` |
| `PatchApply` | both patch commands, recovery and discard, file by file | `PatchApplyProofs`, run directly |
| `ManagementRoot` | stores, active set, registration, backup, restore, rebuild, start | run directly, `ManagementRootProofs` |
| `ProcessRuntime` | one call of the launcher with its threads and process tree | `ProcessRuntimeProofs`, run directly |
| `TrustStore` | trust in memory and file, admission, start lease, revoke | run directly |
| `IntegrationUpdate` | restart transaction of the updater, roll-back and recovery | `IntegrationUpdateProofs`, run directly |

Composition. `ToolDispatch` composes record, gate, tokens, tasks and shutdown; for
the gate it uses an instance of `LeaseTable`, the same specification that the real
gate is proved to implement (`Table == INSTANCE LeaseTable` in `ConcurrencyGate`). Waiting
in the queue is there two phases: a task at `queue` has not tried yet, a task at
`waiting` was refused at least once and may time out. `ApprovalFlow` composes record
and approval file and abstracts the worker to start, record of the process and end.

Operators named "Faulty variant of X" are not part of any specification. Each is a
plausible mistake in the code X models; a property that would not notice it says
nothing. `mutants` in `PROJECT.json` pairs them with properties.

### Correspondence with the code

- **ConcurrencyGate.** One `Attempt` of the polling loop under the mutex is `Enter`
  or `Refuse`; the deadline is read afterwards (`CheckDeadline`), as in the code, so
  a worker may time out although the gate has just become free. `lease` is defined
  from phase and request; it is the refinement mapping to `LeaseTable`.
- **OperationRecord.** A record keeps status, the flags `cancel_requested`,
  `cancel_effective`, `cancellable`, start and end evidence, result, error class,
  late evidence and expiry (`none`, `ahead`, `past`). Event lists, timestamps and
  messages are left out. `ValidTransitions` is `fn valid_transition`; `Complete`,
  `CancelIntent` and `ForcedShutdown` bypass it, as the code does.
- **OperationStore.** Every write has three outcomes: `written`; `lost` (an error
  before the rename: the old file stays); `dacl` (an error after it: the new file is
  there but the caller sees a failure). Memory is changed before the write and is not
  rolled back. `load` seals what is open and writes the file if it changed anything.
- **ToolDispatch.** Phases of a task follow the launcher: `launch`, `suspended`
  (process exists, not resumed), `recorded` (start is in the file), `process`,
  `ended`, `unwind` (lease still held), `report` (lease dropped, `complete` still to
  come). `effects` counts how often work was really set running. A crash takes tasks
  and processes with it: the Job is created with kill-on-close. A graceful exit does
  not: the loop is left (`main.rs:5491`, `5629`, `6201`), `main` returns, and the tokio
  runtime waits without a limit for its blocking threads. `Exit` therefore drops memory,
  leases and tokens but leaves in `former` the launchers whose process is recorded and
  some of the commands under way; each goes on (`LeftStep`) with the store of its own
  controller beside the next one, and the end of its process is written over the file.
  A launch that is not recorded yet leaves nothing: its Operation is sealed, so the
  start observer refuses it.
- **ApprovalFlow.** `told` says whether a client ever learnt the id of a request;
  only such requests can be resolved. `answered` collects decisions acknowledged with
  Ok. Trust, directory and registry revision are what the handler validates again.
  `Decide` writes the decision and `Resolve`, `ResolveExisting` or `ResolveStale` acts on
  the Operation; a crash, a worker or an expiry may come between, no other request can.
  `AskFor` stands for two writes of the Operation after the durable `create`; one that
  fails is ignored by the code and leaves the record half-way in the file.
- **CodexLifecycle.** `running`, `turn`, `working`, `open` are what Codex really
  does; `instance` and `task` are what the controller believes. Time is the age of
  each `idle_since` in ticks, capped at `Grace`.
- **PatchApply.** One command at a time (`command_guard`) walks over N files; every
  comparison and every replacement is a step, so an edit of the user falls between
  them. `late` collects the files edited since the command turned to the current one:
  the window between comparison and replacement, which the file system leaves open. A
  `?` without another durable write is `Stop`, as is a crash.
- **ManagementRoot.** Every durable write of registration, restore and rebuild is a
  step. A store is its header and the rows the protocol reads; a copy is `partial`
  until its header is rewritten. `Opens` is the inspection at start, which chooses
  between normal service and recovery only. Opening a project store writes the active
  set only when the global store knows the project and the repository is not cached;
  `verify_all` always writes it, so planning a backup does too (`PlanBackup`).
- **ProcessRuntime.** `pc` follows the launching thread through `execute_blocking`;
  drain and stdin threads, child and descendant move on their own. Time is the set of
  moments that have passed. The controller may die while the child is suspended. A read
  that fails ends its drain thread like the end of the stream (`DrainFails`), because the
  code does not tell them apart.
- **TrustStore.** A package is a version, which is what `record_matches_package` tells
  apart. `mem` and `disk` are two copies; `allowed` is the history of what somebody
  asked to trust since the last revoke, with its expiry. A revoke asks `request_cancel`
  for each operation; where that cannot be written the error is dropped and the token
  stays unset (`Cancelling`). `met` holds the operations a confirmed revoke found alive,
  `doomed` those the answer lists. A shutdown leaves running processes (`Stop`), a crash
  none.
- **IntegrationUpdate.** `pc` follows `restart_codex_integration`. A replacement is
  N + 4 writes in the code's order: files, release manifest, controller manifest
  without the bridge, installation record, controller manifest with it; the roll-back
  takes the same order. A receipt written with `?` ends the updater when it fails
  (`PersistOrEnd`), one whose result is ignored does not (`PersistAnyway`). A plugin
  is `Torn` while its tree is being rewritten. `lost` records why Codex was not
  brought back; a crash, a failed start and a failed receipt are told apart.

## 3. Runs

| Run | Shows | Bounds and why they are enough |
|---|---|---|
| `gate` | books exact, locks exclusive, table implemented, answers, no deadlock | 3 workers, 2 tools, 2 locks, limits 0, 1 and 2: contention on count and on locks, a limit that changed under running workers, overlapping lock sets |
| `store` | verdict final in memory and file, keys resolve, start never denied | 2 ids, 1 live at a time, 1 key, 2 invocations, 2 failed writes: pruning and reuse of a key, one failure after another, unlimited crashes |
| `dispatch` | exclusion within a controller, cancel reaches the process, a start is never denied, exit seals | 2 tasks, 2 Operations, 3 kinds of invocation, 1 failed write, 2 stops: the work of two former controllers beside a third (800,000 states) |
| `dispatch_replay` | a process runs once under replay; Operations are sealed, shutdown ends | 2 tasks on 1 Operation and key, 2 kinds of invocation, no failed write, 1 stop: replay while queued, running, sealed, after a restart, beside left-over work (320,000 states); `ProcessRunsAtMostOnce` was also checked with 1 failed write (985,000 states) and is proved for any number |
| `approval` | workers fit verdicts, decisions final, no approved Operation without worker | 1 Operation, 2 requests for it, 1 registry change, 1 failed write, 1 crash: opposite decisions, a crash between decision and Operation (1.1 million states) |
| `lifecycle` | no shutdown under a known turn, full grace | 2 instances (one with known owner), 2 sessions, 2 turns, 2 events under way |
| `lifecycle_live` | stops when Codex is gone, under lost and reordered events | 1 session; counters saturate at 2 |
| `patch` | effects announced, verdicts whole, edits survive | 3 files (one before, at and behind the current one), 2 edits, 2 applications, stops anywhere |
| `management_root` | active set whole, registrations visible, plans replace what they were made for, once | 1 project, 2 plans made for the same set, 3 stops, 1 damaged store or document; 2.8 million states; the same properties were also checked with 2 projects, 1 plan and 2 stops (1.1 million states) |
| `process` | contained tree, success is whole, the call returns | every mode of a call, 1 descendant without the pipe ends (71,000 states) |
| `trust` | only allowed versions start, a revoke ends what runs | 1 package of the user with 2 versions, 1 Operation (operations do not touch each other), 2 failed writes, 2 stops (353,000 states); also checked with 2 Operations, 1 version, 1 failed write and 1 stop (226,000 states) |
| `update` | committed release recoverable, receipts true, Codex comes back | 2 files, 2 releases, 2 transactions, 2 faults (the operation and its roll-back), 2 crashes (the update and its recovery); also checked with 3 transactions (3.3 million states) |

Named bounds: `MaxFailures` (failed writes), `MaxLive` (records in memory),
`MaxStops`, `MaxCrashes`, `MaxFaults`, `MaxRevision`, `MaxVersion`, `MaxTurns`,
`MaxOpen`, `MaxInFlight`, `MaxEdits`, `MaxApps`, `MaxPlans`, `MaxTxns`.
`CounterMax` stands for `u32::MAX`: at 2 the saturation is reached. `MaxGeneration`
stands for `u64::MAX`, above which a plan is refused; 3 is what two plans can reach. `Grace` stands
for 30 seconds; 2 ticks tell apart a lease that has started, has run partly and is
over. Symmetry is used for ids of Operations, tasks and requests in runs without
temporal properties. Deadlock is checked except where the system really may stop: in
`dispatch_replay`, `trust` and `update` all ids and stops may be used up, in `process`
the call is over, in `patch` and `management_root` nothing is left to apply or plan.
`PROJECT.json` keeps the type invariant of a module out of its run; each holds in it.

### Fairness

- Gate: tokio polls a task again after its sleep, the clock advances, a holder drops
  its lease. Nothing makes a request arrive.
- Dispatch: only the shutdown sequence is fair (it runs on timers of 10 s and 2 s).
  `DispatchedIsSealed` adds that workers do not hang: the launcher enforces a timeout
  on every process. `ProcessRuntime` shows what that rests on: `Returns` holds for
  descendants without the pipe ends; a descendant that keeps stdout open holds the
  call, because the drain threads are joined without a deadline
  (`win32_launcher.rs:457-459`, section 5). Its first part, that mutex and pipe become
  free, `ShutdownEnds` shows without that assumption; that the process of the old
  controller ends, only if the work on its blocking threads does (`LeftWorkEnds`).
- Approval: the clock passes every `expires_at`, workers end; nobody has to decide.
- Lifecycle: the tick, the clock, delivery of waiting events and the end of busy work
  are fair; Codex may do anything or nothing. A hook that finds no controller starts one.
- Process: the launching thread, the drain threads, the notice of a broken pipe, the
  stdin watch and the clocks are fair: threads of one process and timers of the system.
  Nothing makes a process read its input, end or close its pipes.
- Trust: a queued worker is let through or times out, and the launcher takes its steps:
  the loop that polls the token terminates the Job (`Kill`). That ends the process; a
  descendant that holds the pipe may still keep the worker, not the process
  (`DescendantHoldsCall.cfg`). Nothing makes a process exit by itself.
- Update: the updater goes on until it ends; all its waits have deadlines (5 s and 12 s).
  Nothing makes a user start an update, or start or quit Codex.

## 4. Proofs

The proofs hold for every value of the constants, so for any number of Operations,
tasks, requests, files, transactions, failed writes, stops and crashes; the bounds of
section 3 are TLC's only. Every theorem is reached in the same way: the property is
not inductive, `Inv` strengthens it, one lemma per action shows that `Inv` is kept
(steps that do the same kind of thing share a lemma about that kind), and `PTL` puts
the steps together. What `Inv` adds is what the code relies on without saying so.

**`ConcurrencyGateProofs`.** The inductive invariant is `TypeOK /\ BooksMatchLeases /\
LockExclusion /\ ParallelBound`: exclusion alone is not inductive, because the code
tests `held_locks`, not the leases; it needs that `held_locks` is exactly what the
leases hold. The same invariant gives the refinement: `Enter` is `Grant`, `Release`
is `GiveBack`, all else stutters. Assumptions: requests are well formed, `NoLease` is
none of them, `Workers` is finite (for cardinalities).

**`OperationStoreProofs`.** `Inv` adds (a) `RecordOK`: an open record has no
error, and a record in a status before start has no start evidence, which is what
makes a "before start" error true when it is set; (b) `Unissued`: an id not yet given
out has no record in memory or file, which keeps keys from resolving to a wrong
record; (c) `MemoryAgreesWithFile`: memory and file may differ after a failed write,
but only in what is open; without it the next write could overwrite a durable verdict.
Each method is one lemma `...Evolves` about a single record (verdict, retention and
identity survive); one lemma lifts any such method to the store. The action
properties follow from the invariant and these lemmas.

**`ToolDispatchProofs`.** `Tasks` says what a task may rely on at each phase: its
Operation is in memory, its lease is the request of the Operation from the gate until
`report`, only a process is ever suspended or resumed. With `Apart` (any two leases
admit each other, which the guard of `LeaseTable` keeps) this gives `WorkIsExclusive`
for the controller that serves. `LeftOver` says the same of what a controller left
behind: it was let in under leases that admitted each other, and its Operations are
sealed in the memory its controller still writes from, because of `GivenUp`: a task whose
token is gone, or that the shutdown has given up, has a sealed record. The facts about
records are kept for all `Copies` of one, in memory, in the file and in the memory of
every former controller, since each may become the file again. The theorem is about each
controller by itself; `ExclusiveAcrossControllers` does not hold (section 5).
`Started` says that before a process is resumed its start is in memory *and* in the
file; with `RecordOK` no record can deny it later, whatever is replayed, lost or sealed
by recovery. `OnlyOne` is per Operation: unless a cancel is on record, at most one start
was recorded, and none is waiting to be resumed once one was. `Sealed` says that without
a failed write every open Operation has a token filed, so the shutdown's list misses
none. `CancelReachesProcess` is proved from a second invariant, `OneTask`, for the
behaviours in which no key is replayed (`[][NoReplay]_vars`): `tool.invoke` files the
token of a replay's new task over the token of the task that runs (the same step as in
`ReplayRunsCommandTwice.cfg`), so a cancel then reaches the newer task only.
Run `dispatch` checks the property where no request carries a key.

**`ApprovalFlowProofs`.** Two files that must agree. `Unspawned`: a record that may
still be approved or denied has had no worker, and a denial in the file is the one in
memory; so neither a second request for the same Operation nor a crash between the two
writes leads to a second worker or to one for a denied Operation. `Known`: whatever
refers to an Operation finds it. `Handling`: between the two steps of `approval.resolve`
the decision is on record and its request is there. `Synced` and `Remembered`: as long as no write failed,
files and memory agree, and a decision that was answered Ok is in the file.

**`PatchApplyProofs`.** `Progress` says, for every step of both commands, of roll-back
and of recovery, on which of the files that the user left alone the patch is;
`Observations`, what a comparison still means when its verdict is used later; `Checked`,
that the file about to be replaced is as it was compared or was edited since;
`RecoversAnnounced`, that a recovery that may put the patch on again works for an
application that has announced it. `EditsSurvive` and `VerdictIsWhole` are action
properties and follow action by action.

**`ProcessRuntimeProofs`.** `Stages` says which processes exist, where they are and what
is on record at each location of the launching thread; `Reasons`, that a trigger or
a kind of termination names something that happened, and that an ordinary exit is one
nobody asked for; `Answers`, that the verdict is given after the drain threads are over.

**`IntegrationUpdateProofs`.** `CommittedIsRecoverable` says nothing of what the updater
is about to do. `Inv` adds that every pending backup holds the committed release, that
at most one is pending while files are replaced and none when the next transaction
starts, and how many of the N + 4 writes a replacement or a roll-back has done
(`Written`). `ReceiptTellsInstallation` follows action by action.

**`ManagementRootProofs`.** The properties speak of the document and of the history;
what keeps them is in the files beside it. `Files`: the first generation was copied by no
plan and its receipts are in place, because a start without a document opens it again.
`Document`: the active set rests on a global store whose completed registrations have
their receipts where the set (or, for a project it does not name, the first generation)
says. `Sources`: backups and plans are whole sets in the same sense, and a plan's
destinations are its own. `Registering` and `Copying` say how far the command under way
has come; `Copying` also says that the document is still the one the plan was made for,
and that what is being copied is not active. `Landed`: the stores of an activated plan
are still there, so the plan cannot begin again, also after the document was lost; this
gives `ActivatedOnce`. A receipt written by a retry is true because the name of a
restore's directory, or the plan id in a rebuilt store's header, is found in the active
set only after that plan was activated. That generation numbers have a maximum is taken
from well-foundedness of the naturals.

Assumptions are in the modules that declare the constants: sentinels differ from what
they stand beside (`None` is no record, `NoKey` no key, `NoLease` no request), tables
such as `Cancellable` and `Backend` are functions of the right type, counts are natural
numbers, a patch or a release has at least one file, `"global"` is no project, projects
are finitely many and there is at least one generation number.

The proofs also corrected the model. `IsProcess` of `ToolDispatch` used to say "every
record of the Operation is one of a process", which is also true of an Operation that is
in neither memory nor file; it now says that some record is.

Only model-checked:

- Liveness, which is out of the prover's reach: `AcquireAnswers`, `SomeoneIsServed`,
  `DispatchedIsSealed`, `ShutdownEnds`, `CodexGoneStopsController`, `Returns`,
  `RevokeEndsRunning`, `ClosedCodexComesBack`.
- `StartsOnlyWhatWasAllowed` (`TrustStore`), `TurnKeepsControllerAlive` and
  `LeaseIsFull` (`CodexLifecycle`): action properties, for which no proof has been
  written yet.

## 5. Where the code and its documents disagree

Each has a configuration that ends in a violation of the property that states what the
document or comment says. `findings` in `PROJECT.json` quotes both sides of the first
seventeen.

- `ReplayRunsCommandTwice.cfg` (`MCToolDispatch`). After `create` returned the existing
  Operation, `tool.invoke` files a new token and spawns a second task. A controller
  command then runs again.
- `OverlapsAcrossControllers.cfg` (`MCToolDispatch`). A graceful exit frees mutex, pipe
  and leases while a process with `cancel_mode` none goes on; the next controller starts work that shares its lock. When the left-over
  process ends, its controller writes its old memory over the Operation file.
  `docs/architecture/windows-tool-runtime.md:461` says the Job is terminated.
- `RevokeForgetsFailedCancel.cfg` (`TrustStore`). A revoke whose cancel cannot be written
  drops the error, sets no token and answers Ok.
- `ApprovalDecisionFlips.cfg` (`MCApprovalFlow`). A decision that could not be written
  stays in memory; the repeated call is answered Ok without a write; a crash forgets it.
- `ApprovalNeverExpires.cfg` (`MCApprovalFlow`). Nothing moves an Operation out of
  `approval_wait` when its request expires.
- `LateEventHoldsController.cfg` (`MCCodexLifecycle`). An event that arrives after its
  instance was found gone makes its task active again, and nothing ends it.
- `UndamagedRootOpens.cfg` (`ManagementRoot`). A stop between the project row and the
  active set of a registration leaves a root that the next start opens for recovery
  only, so the retry of the registration is never reached.
- `SupersededStaysClosed.cfg` (`ManagementRoot`). Without `active-set.json` the start
  opens the first generation, although a plan has replaced it.
- `PartialIsNotHidden.cfg` (`PatchApply`). When the roll-back after a failed
  validation is incomplete, the older command returns before it saves
  `partially_applied`.
- `RecoveryKeepsEdits.cfg` (`PatchApply`). Explicit recovery compares all files first
  and then replaces them without another look.
- `DescendantHoldsCall.cfg` (`ProcessRuntime`, `Inherits` true). A descendant that
  holds stdout keeps the call although the Operation was cancelled.
- `RevokedReleaseStarts.cfg` (`TrustStore`). The start lease does not look at the
  store for packages of the release source.
- `GrantIsDurable.cfg` (`TrustStore`). A grant that could not be written is confirmed
  when it is repeated, and forgotten at the next start.
- `RevokeMissesRenamedTool.cfg` (`TrustStore`, `Renames` true). A revoke with
  `cancel_running` looks for the tool ids of the current version only.
- `AbortedIsUnchanged.cfg` (`IntegrationUpdate`). `applying` is never written to a
  receipt: a crash in the middle of the replacement leaves `codex_stopped`, which
  `reconcile` calls `aborted`. A failed commit is called the same.
- `RecoveryGoesOn.cfg` (`IntegrationUpdate`). A backup directory without its
  `backup.v1.json` makes every later transaction fail.
- `AbortBringsCodexBack.cfg` (`IntegrationUpdate`). A receipt that cannot be written
  after Codex was closed ends the updater, and Codex stays closed.
- `ReplayRunsProcessTwice.cfg` (`MCToolDispatch`): with a cancel on record,
  `record_process_started` accepts a second start from the task of a replay. This is
  why `ProcessRunsAtMostOnce` speaks of Operations nobody asked to cancel.
- `ReplaySealsRunning.cfg` (`MCToolDispatch`): the queue timeout of a replay's task
  seals the Operation whose process runs. `docs/testing/mcp-verification-matrix.md:250`
  says of a queue timeout that the process was not started.
- `CommandStartDenied.cfg` (`MCToolDispatch`): a controller command records no start,
  so recovery says it never started, against the comment at
  `app/operation_store.rs:3-6`. This is why `ProcessStartNeverDenied` speaks of
  processes only.
- `LateStopEndsNextTurn.cfg` (`MCCodexLifecycle`): events carry no turn id, and a
  Stop that arrives after the next prompt ends that turn, against
  `docs/contracts/codex-lifecycle-and-updater.md:35-36`. This is why `lifecycle`
  keeps the order of events.

Four more have no configuration. `complete`, `request_cancel` and
`record_forced_shutdown` take steps that the state machine in
`docs/contracts/mcp-implementation-contract.md:443-449` does not have. When the last
instance exits, the management clock still waits 30 seconds (ADR-0014, lines 43-44, says
at once). And one shows in a property: `QueuedHasWorker` needs `failures = 0`, because
`transition` changes memory before its write fails; the handler then spawns no worker,
and a repeated approval finds the Operation queued and answers Ok. The last one shows in
`PatchApply` without a property: a PatchApplication that is `partially_applied` has a
reverse patch on record, but `recover_patch_v2` refuses files that are partly old and
partly new, so nothing in the program can use it
(`docs/contracts/common-validation-gate.md:947`).

## 6. Limits of the models

- `ToolDispatch` starts after the checks of `tool.invoke` (schema, trust, descriptor
  hash, permission). The branch of `tool.invoke` that asks for a paid approval of its
  own is not modelled.
- `OperationStore` has one writer. A controller that exited with work left over is a
  second one (section 5); what its late write does to the file is in `ToolDispatch`, not
  in `OperationStore`. A left-over command writes management stores, which is not
  modelled: `ManagementRoot` relies on `writer.lock`.
- A lock key contains the tool id, so tools never share one in `MCToolDispatch`; the
  gate itself is checked with shared keys, which `acquire` allows.
- `ApprovalFlow` leaves out the special approval ids (remote push, release publish,
  style policy, `codex.task.*`), end evidence and progress of a worker. Its two ignored
  writes of a new request fail as one: loading seals the record alike after either.
- In `CodexLifecycle` the instance of a session is fixed. In the code a hook that
  cannot find its owner process reports another instance id; an instance without a
  known owner never counts as exited (`Owned`). The connection table, the unknown
  state and the Operation counters influence no decision and are left out.
- Time in `OperationStore` is per record (`ahead`, `past`), so a retention may end in
  any order; the code's clock is one of those orders.
- `PatchApply` reduces gates, scans and plans to their verdict; preparing a patch is not
  modelled. `ManagementRoot` leaves out the event rows in a store and the retention of
  backups, and keeps only the newest backup set. `ProcessRuntime` leaves out the bytes of frames and the environment.
- `TrustStore` has one version per package instead of registry snapshots; the watcher
  and the probes of candidates are not modelled.
- `IntegrationUpdate` has candidates of the integration class only; the offline
  installer and `apply_runtime_generation` are not modelled. Whoever else writes into
  the install root is left out: the lease keeps other updaters out, nothing keeps the
  user out. Of `reconcile_installed_runtime` it has what touches receipts and bridge.

### Not modelled

The map covers the protocols, about 7,700 of the repository's 198,000 lines. The rest is
for the most part code a state machine says little about: validation and rendering of
documents field by field (`star-contracts`, `star-planning`, `star-project`, most of
`star-application` and of the controller's request handlers, each of which checks one
document and saves it in one transaction), the command line client, source index and
other adapters, release tooling and the tests that live in the same files. What is left
and does have behaviour over time is in section 7. In `PROJECT.json`:

- Components marked `not_modelled` in `PROJECT.json` have their reason there. Types,
  schemas and canonical JSON have no state; adapters are pure I/O.

## 7. Plan

Done: gate, store, dispatch, approvals, lifecycle, process runtime, trust, patch,
management stores, restart update; proofs for gate, store, dispatch, approvals, process
runtime, patch, management stores and restart update.

Next, in this order:

1. The rest of the updater: `apply_runtime_generation` with its roll-back, and the
   offline installer.
2. Registry snapshots, probes and watcher; composed with `TrustStore`.
3. Event rows and retention of the management stores; goal and coordination stores.
4. Validation cache and permits beyond the one a patch consumes.
5. Handshake and start on demand of the IPC client; supervision in the MCP gateway.

Proofs left: `StartsOnlyWhatWasAllowed` of `TrustStore`, `TurnKeepsControllerAlive` and
`LeaseIsFull` of `CodexLifecycle`.

## 8. How to run

In this directory: `tlc -workers 2 -config MCToolDispatch.cfg MCToolDispatch` for a
run, `tlapm OperationStoreProofs.tla` for the proofs of a module.
