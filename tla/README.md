# Axiom: a TLA+ model of the engine

Axiom turns a specification into tasks, runs a container ("Meeseeks") per task
attempt, and merges what the containers produce.  The engine is one Go process
over one SQLite database and one git working tree; commands, terminals and
orchestrators are other processes or connections over the same database.  These
modules model the places where several actors meet: the life of a task from
queued to done, locks, attempts, containers, merges, runs, test generation,
orders, budget, events, sessions, the control API, indexes and prompts.

Source paths below are relative to `src/internal/`.

## Inventory

| Component | State | Operations | Talks to | Correct when |
|---|---|---|---|---|
| Scheduler `scheduler/scheduler.go` | `tasks`, `task_locks`, `task_lock_waits` | `Tick` every 500 ms, `ReleaseLocks` called by others | task tables | no file has two owners, dependencies are done, the limit holds, waiters are woken |
| Executor `engine/executor.go`, `engine/ipcmonitor.go` | `activeAttempts` (in memory) | `executorLoop` every 500 ms; one goroutine per attempt | scheduler, task service, containers, merge queue | one attempt of a task is at work, every attempt ends |
| Task service `task/service.go` | none | `HandleTaskFailure`, `RequestScopeExpansion`, `CreateBatch` | task tables | retries and escalations are bounded, no cycles |
| Merge queue `mergequeue/mergequeue.go`, `engine/mergequeue.go` | a FIFO in memory, the working tree | one item per `Tick` | git, scheduler, task tables, testgen, index | a merge is all or nothing, is the attempt's own output, loses no update |
| Recovery `engine/recovery.go` | none | `Recover` at startup | task tables, containers, files | it is accepted and cleans up after any crash |
| Test generation `testgen/testgen.go` | `convergence_pairs` | test task after a merge, fix task after a failed test | task tables, merge queue | a run completes only with its tests merged |
| Run lifecycle `engine/run.go`, `engine/srs.go` | `project_runs`, SRS files | start, submit, approve, reject, pause, resume, cancel, complete | git | one run in flight, on its branch, with its SRS |
| Git `gitops/gitops.go` | the repository | branch, stage, commit, clean | run lifecycle, merge queue | only the work branch is written |
| Containers `container/docker.go`, `ipc/dirs.go` | `container_sessions`, Docker, directories | start, stop, cleanup | executor, merge queue, recovery | none is left behind; what is merged is the output that was checked |
| ECO log `engine/eco.go` | `eco_log`, files | propose, approve, reject | | every approved order is on file |
| Inference `inference/` | budget, rate limits (in memory), `cost_log` | `Infer` | providers | spending is bounded and on the ledger |
| Model registry `models/` | `model_registry`, the broker's copy | open, refresh, select | broker | a selected model is served |
| Prompts `engine/taskspec.go`, `ipc/spec.go`, `security/policy.go`, `observability/promptlog.go` | spec files, prompt log | write specs, redact, log | executor, broker | retries are told why, secrets are redacted |
| Event bus `events/bus.go` | subscribers, `events` | publish, subscribe | everybody | a reader with room sees the history |
| Sessions `session/manager.go` | `ui_sessions`, messages | resume, append, compact | terminal | what was added stays, in order |
| Terminal `tui/model.go` | mode, pending commands | keys, events, results | engine, bus | shows the mode, starts runs once and only when asked |
| Control API `api/` | limiter buckets, tokens, sockets | REST, control socket | engine | rate is bounded, a key runs once per socket |
| Task creation `engine/task_control.go`, `task/service.go` | `tasks` and their rows | create, create batch | task tables | tasks can be ordered, each exists once |
| Index `index/` | `index_*` tables | refresh, incremental update, queries | merge queue, task specs | shows the working tree |

Left aside: the local inference server (process control of an external binary),
doctor, skills, setup, release, rendering, parsers, the HTTP of the providers.

What is hard here.  Every database statement is its own transaction unless
`WithTx` is used, so each handler is a sequence of steps among which all the
other actors run.  Files, git and the database change one after the other and
nothing ties them together.  Goroutines outlive the task status that started
them; the process may die between any two statements; waiting is by rows in a
table that somebody must look at again; copies of state (seqCache, BrokerMaps,
the terminal's mode, idempotency keys) are read long after they were taken.
`PROJECT.json` lists the hazards line by line.

## Modules

Each module has one action per statement, transaction, file or git operation
(or per handler where only one actor can be at work), and one type invariant.
A definition whose comment begins with "Mutant" is a plausible bug of another
definition of its module; no specification uses it.

### Tasks, locks and attempts

`TaskStates` translates the status table of `state/models.go` and
`UpdateTaskStatus` of `state/tasks.go`: a checked read and write in one
transaction that leaves the row alone when the table forbids the move.

`Scheduler` has the tables (`status`, `target`, `lock`, `wait`, `attempt`), the
scheduler's local variables (`spc`, `stask`, `skeys`, `sready`, `slots`), those
of the attempt goroutines (`wpc`, `wtask`, `wlatest`, `goal`, `wfiles`, `todo`,
`cur`) and the process (`mode`, `rtask`).

| Code | Actions |
|---|---|
| `Engine.CreateTask`, row by row | `AddTaskTargetFile` |
| `Scheduler.tickRun`, `findReadyTasks`, `tryDispatch`, `tryAcquireLocks`, `dispatch`, `moveToWaitingOnLock` | `TickRun`, `FindReadyTasks`, `TryDispatch`, `TryAcquireLocks`, `Dispatch`, `CreateAttempt`, `DispatchFails`, `UndoDispatch`, `MoveToWaitingOnLock`, `AddLockWait`, `EndTick` |
| `executorLoop` | `StartAttempt` |
| `runAttempt` | `FinishExecution`, `GiveUp` |
| `RequestScopeExpansion` and its IPC handler | `RequestScopeExpansion`, `AddExpandedTarget`, `ParkForExpansion`, `AddExpansionWait`, `ReloadAfterExpansion` |
| `failAttempt`, `HandleTaskFailure` | `CloseAttempt`, `FailTask`, the release, `HandleTaskFailure` |
| merge queue | `MergeCommitted` or `MergeFailed`, the release, `CompleteTask` and `MarkSucceeded`, or `FailMergedTask` and `RequeueTask` |
| `ReleaseLocks`, `processLockWaiters` | `ReleaseTaskLocks`, `ScanWaiters`, `CheckWaiter`, `RequeueWaiter`, `RemoveLockWait` |
| `Recover` | `Crash`, `StartRecovery`, `CloseStaleAttempt`, `RequeueStaleTask`, `ReleaseAllLocks`, `RebuildLockWait`, `RemoveRebuiltWait`, `FinishRecovery` |

`LockTable` is the abstract promise of `task_locks`: a set of free keys is taken
at once, an owner gives back all it has, nothing else happens.  `Scheduler`
implements it (`LockTableSpec`).

`Pipeline` looks at the same life from the other side: not who owns which file,
but what becomes of each attempt.  Its state is the rows of `tasks` (`status`,
`tier`) and `task_attempts` (`phase`, `outcome`, `atier`, `reason`; `tries`
counts a task's rows), the task the scheduler is dispatching (`disp`), the
attempt the executor has read (`seen`), where each attempt's goroutine is (`go`),
the merge queue and its worker (`queue`, `mpc`, `item`), the orchestrator's
request (`ctl`), the process (`mode`, `rtask`, `crashes`) and three histories
(`commits`, `rejected`, `exempt`).

| Code | Actions |
|---|---|
| `Scheduler.dispatch` | `Dispatch`, `CreateAttempt` |
| `processLockWaiters` | `WakeWaiter` |
| `executorLoop`, `latestRunningAttempt` | `LatestRunningAttempt`, `StartAttempt` |
| `runAttempt` | `Advance` (one phase), `StepFails`, `EnqueueMerge` |
| `RequestScopeExpansion`, `handleScopeExpansionRequest` | `RequestScopeExpansion`, `ParkForExpansion`, `ReloadAfterExpansion` |
| `failAttempt` | `ReloadAttempt`, `FailPhase`, `FailStatus`, `ReloadTask`, `FailTask` |
| `HandleTaskFailure` | `RefuseToHandle`, `RetryTask`, `EscalateTask` and `RequeueEscalated`, `BlockTask` |
| `Queue.Tick`, `processItem` | `TakeItem`, `CommitItem`, `CompleteTask`, `MarkSucceeded`, `MarkPassed` |
| `failItem`, `MarkFailed`, `RequeueTask` | `RefuseItem`, `MarkFailed`, `ReloadMergedTask`, `FailMergedTask`, `RequeueTask` |
| `ApproveTaskOutput` | `ApproveTaskOutput`, `EnqueueApproved` |
| `RejectTaskOutput` | `RejectTaskOutput`, `RejectAttempt`, `RejectTask` |
| `requeueStaleInProgressTasks` | `CloseStalePhase`, `CloseStaleStatus`, `RequeueStaleTask`, `FinishRecovery` |

`SchedulerInv` and `PipelineInv` state the inductive invariants of the two; the
modules whose names begin with theirs and end in `_proofs` hold the proofs.

`TaskCreation` is how tasks enter the database.

| Code | Actions |
|---|---|
| `task/service.go`: `CreateTask`, `CreateBatch` with its cycle search | `CreateTask`, `CreateBatch` |
| `Engine.CreateTask`, `CreateTaskBatch`, `dispatchCreateTaskBatch` of the control socket | `dispatchCreateTaskBatch`, `CreateRow`, `CreateRowFails`, `AddTargetFiles`, `Disconnect`, `CreationCrash`, `ActiveRun` |

### Merges, containers and runs

`GitRepo` gives every command of `gitops.Manager` that changes the repository as
a function of it: commits, branch tips, the branch checked out, index, working
tree.  `MergeApply` and `RunLifecycle` extend it.

`MergeApply` is what the merge queue does to the project: the conflict check
against the snapshot of the attempt, the files that are removed and copied one
by one under a backup, the integration checks, staging, commit, revert, and
beside it `CancelRun`, which cleans the same tree.

| Code | Actions |
|---|---|
| `dispatch` (base snapshot), the end of an attempt | `Dispatch`, `Finish` |
| `processItem`, `checkConflicts` | `ProcessItem` |
| `applyOutput` | `RemoveFile`, `RemoveFails`, `CopyFile`, `CopyFails` |
| integration checks and `revertOutput` | `ChecksPass`, `ChecksFail` |
| `git add`, `git commit`, failures and revert | `StageFiles`, `StageFails`, `CommitItem`, `CommitFails` |
| `CompleteTask` and what follows | `CompleteTask` |
| `CancelRun`, `CancelCleanup` | `CancelStatus`, `CancelReset`, `CancelClean`, `CancelCheckout` |

`MergeApplyInv` states its inductive invariant, and the types of the merges and
all services together; `MergeApply_proofs` proves both.

`Sandbox` has the containers of attempts and merge checks with their rows and
fixed names, the staging and ipc directories they share with the engine, the
artifacts put on file for an output (`artifacts`), and what recovery does.
A failed merge requeues its task as `MarkFailed` does, with its directories
removed (`Requeue`, `CleanupTaskDirs`).

| Code | Actions |
|---|---|
| `runAttempt`: worker container, output, validator, reviewer, `failAttempt` | `StartMeeseeks`, `ReadOutput`, `TimeOut`, `StartValidator`, `RunChecks`, `StartReviewer`, `RunReview`, `FailAttempt` |
| what the worker does in its container (external) | `WriteDraft`, `WriteFinal`, `SendOutput`, `Rewrite` (after its message), `Exit` |
| the deferred `Stop` of an approved worker | `StopApproved` |
| merge queue | `ApplyOutput`, `StartMergeCheck`, `EndMergeCheck` |
| process end, `Recover` with the orphaned containers and directories | `Crash`, `Recover` |

`SandboxInv` states its inductive invariant, `Sandbox_proofs` proves it.

`RunLifecycle` is the life of a run as commands and handlers drive it: a row of
`project_runs`, `srs.md` and its hash file, one draft per run, and the branch.

| Code | Actions |
|---|---|
| `StartRun`, with `Force` | `StartRun`, `ReplaceRun`, `ValidateClean`, `CreateRun`, `SetUpBranch` |
| `SubmitSRS` | `SubmitSRS`, `WriteDraft`, `FinishSubmit` |
| `ApproveSRS` | `ApproveSRS`, `ReadDraft`, `WriteSRS`, `WriteSRSHash`, `UpdateRunSRSHash`, `Activate`, `DeleteDraft` |
| `RejectSRS`, `PauseRun`, `ResumeRun`, `CancelRun` | the actions of these names, `CancelCleanup` |
| a command that is killed; the user's `git commit` (external) | `Die`, `UserCommits` |

`RunLifecycleInv` states its inductive invariant, `RunLifecycle_proofs` proves it.

`Convergence` has the implementation, test and fix tasks of a run, their pairs
and `CompleteRun`.

| Code | Actions |
|---|---|
| attempts of a task, in brief | `Dispatch`, `Submit`, `FailAttempt`, `RejectTaskOutput`, `ApproveTaskOutput` |
| the queue adapter: `CompleteTask`, `CreateTestTask`, `MarkConverged`, `MarkSucceeded` | `StartMerge`, `CompleteTask`, `DispatchMerge`, `MarkSucceeded` |
| a merge that fails: `RequeueTask`, `HandleTestFailure` | `FailItem`, `RequeueTask` |
| `CompleteRun` | `ListPairs`, `CompleteRun` |
| `Recover` | `Recover` |

`ConvergenceInv` states its inductive invariant, `Convergence_proofs` proves it.

`EcoLog`: `ProposeECO`, `NumberOrder` and `CreateECO` are the two statements of
a proposal; `ApproveECO` and `WriteECOFile` those of an approval; `RejectECO`;
`RunMoves` is the run starting, pausing and ending, `Die` the end of a command.

### Services

| Module | Code | Actions |
|---|---|---|
| `InferenceBroker` | `Broker.Infer`, `budget.go`, `ratelimit.go`, cost log | `Infer` (checks), `Allow`, `Complete`, `ProviderFails`, `Record`, `LogCost`; the next attempt and a restart: `Retry`, `Restart` |
| `ModelRegistry` | `app.Open`, `models refresh`, `Infer`, `SelectModel` | `OpenEngine`, `CloseEngine`, `OpenOther`, `ModelsRefresh`, `InferPrice`, `SelectModel` |
| `PromptPackaging` | `taskspec.go`, `ipc/spec.go`, `policy.go`, `promptlog.go`, redaction in the broker | `WriteTaskSpec`, `SendPrompt`, `WriteReviewSpec`, `failAttempt`, `AttemptDies`, `Approve` |
| `EventFeed` | `Bus.Publish`, `Subscribe`, `Unsubscribe`, `fanOut` | `Publish`, `Persist`, `FanOut`, `Send`, `FanOutEnds`, `Subscribe`, `Unsubscribe`, `Read` |
| `Sessions` | `session.Manager` | `ResumeOrCreateSession`, `CreateSession`, `ResumeSession`, `TakeSeq`, `AddMessage`, `CompactSession`, `AddSessionSummary`, `DeleteMessagesThrough` and its callers, `Quit` |
| `Terminal` | `tui.Model.Update` and the calls it sends to the background | `handleStartupSummary`, `handleEvent`, `handleStarted`, `submitInput`, `cmdNewRun`, `Look`, `CallEngine`, `FinishCommand`; `StartRunChecks`, `StartRunFails`, `CreateRun`, `StartRunEnds`; other processes: `Outside` |
| `ControlApi` | `RateLimiter`, `AuthMiddleware`, `HandleControlWebSocket` | `Request`, `AuthMiddleware`, `Handle`, `ReadRequest`, `dispatchControlRequest`, `SetAndAnswer`; `Tick`, `TokenEnds`, `Break` |
| `ProjectIndex` | `Indexer.Index`, `IndexFiles`, the merge that calls it | `Apply`, `Revert`, `CommitApplied`, `ClearIndex`, `Walk`, `RefreshFile`, `IndexFiles`, `CreateIndexFile`, `StoreSymbols`, `FinishIndexing`, `DieIndexing` |
| `PackageGraph` | the second half of `Index`, module graph queries | `ClearGraph`, `WalkTree`, `IndexFile`, `detectGoImplementations`, `CreateIndexPackages`, `AddPackageDeps`, `EndRebuild`, `RebuildDies`, `CommitFile` |

`ServicesInv` states the inductive invariants of `EcoLog`, `EventFeed`, `Sessions`,
`Terminal` and `ProjectIndex`, which `Services_proofs` proves; `RequestsInv` those
of `InferenceBroker`, `ModelRegistry`, `PackageGraph`, `ControlApi`,
`PromptPackaging` and `TaskCreation`, which `Requests_proofs` proves.

### Instances

`MCScheduler`, `MCPipeline`, `MCMerge`, `MCSandbox` give one module its constants;
`MCLifecycle` has `RunLifecycle` and `Convergence`, `MCLiveness` extends
`MCScheduler` by an instance of `Pipeline`, and `MCServices` extends `MCMerge` by all
services, whose modules `MergeApplyInv` brings together.  In these three, a
behaviour explores the module its variable `focus` names and leaves the others
alone: this is a way to check many modules in a run, not a composition of them.
What one component does to another is inside the module that needs it:
`MergeApply` has CancelRun, `Sandbox` the merge queue and recovery, `Convergence`
the merges and requests, `ProjectIndex` the merges, `RunLifecycle` the user's
commits.

### Abstractions of `Scheduler`

- A goroutine's life goes on through the merge of its output, which the merge
  queue does on its behalf, one item at a time (`MergeIdle`); the queue keeps no
  order here.  Validation, review and gate are the one stage "pipe".
- The retry policy chooses between retry and block; the tiers and counters are
  left to `Pipeline`.
- The executor's listing and its look at the latest attempt are one step; so
  are the dependency reads of one `findReadyTasks` (a task that is done stays
  done) and the reads of one waiter's keys.
- `failAttempt` reads the task's status and writes it in one step, and writes an
  attempt's phase and status together.
- One active run.  With several, the concurrency limit holds for each of them.
- A crash loses every register and keeps every table; `Engine.Stop` waits for
  the workers but not for the attempts, which to the tables is the same thing.
- A task created while the engine is running is a task of the constant `Tasks`
  that is queued from the start; only its target rows come late (`LateRows`).
- `attempt = "new"` marks an attempt no executor has picked up since it was
  created.  The code does not tell it from "executing"; the properties do.
- `exempt` is a history variable: the tasks the locking discipline has already
  failed (picked up twice, dispatched beside an older goroutine of theirs, or
  given a target row after their dispatch).  It excuses no other task and is
  emptied by a restart.

### Abstractions of `Pipeline`

- No locks: any queued task may be dispatched, a worker's scope expansion may be
  refused, and some release may wake the waiter.  `Scheduler` has the rest.
- Reads that are part of the write they precede: the executor's list of tasks
  and its look at each one's latest attempt (an attempt that is the latest and
  running when it is looked at was so when the task was last in progress); the
  reads of `HandleTaskFailure` and of the status check of `EscalateTask`, whose
  write is refused when the status has moved; `GetAttempt` before a checked
  write in `MarkFailed`, `ApproveTaskOutput` and `RejectTaskOutput`, which the
  write repeats.  Every other read has a step of its own.
- The executor holds one attempt it has read at a time; the code holds a list.
- The insertion of the wait row belongs to `ParkForExpansion`, the feedback
  columns to nothing.
- The orchestrator serves one request at a time, on any attempt that exists.
- What happens between HEAD being looked at and the commit is one step; its
  inside is `MergeApply`.  An item may be refused for any reason
  (`MergeFaults`), and an item without files always is, because `git add` is
  called with an empty list.
- Implementation and review tasks only; the branch of `RequeueTask` for test
  tasks and what `CompleteTask` does after the status belong to `Convergence`.
- A failed dispatch, and statements that fail for reasons of their own (disk,
  SQLite), are left out.
- `exempt` is a history variable: the tasks of the orchestrator's requests, of
  stale starts, and of goroutines that took a wake-up for a grant.  Each is a
  way the code lets two attempts of a task be at work; the properties about
  attempts excuse exactly those tasks.

### Abstractions of the other modules

- `MergeApply`: a content is the path it was first committed at, or the task
  that wrote it.  Locks are those of the target files of tasks whose attempt is
  at work.  Checks pass or fail freely, and read the tree of the project, not
  the staging directory.  `left` has the paths an earlier failure or a cancel
  may have left changed: an apply that failed half way is not reverted, a
  failed commit leaves its files staged, a revert removes a file the item both
  removed and wrote, a removal whose error is dropped (`RemoveFails`) leaves the
  file where it is, and the properties say what holds elsewhere.
- `Sandbox`: a worker writes a draft, the final files, its message, and may
  change the files once more after it (`Rewrite`): it is stopped only when its
  attempt is over.  The verdicts are free, for every kind of output.  The stages
  of an attempt read the directory one after the other; the model keeps what the
  first of them put on file.  Removing a directory and the statements on the
  database do not fail.  The orchestrator makes no requests: one that rejects or
  reassigns a task whose item is queued makes `MarkFailed` return before it
  cleans up.  `misread` has attempts
  that took the message of an earlier one for theirs: recovery does not empty
  the ipc directories.  `stray` has containers Docker failed to stop.  Another
  process that opens the project runs recovery too and kills the containers of
  the running engine; that is left out.
- `RunLifecycle`: the SRS documents are model values, which stand for their
  hashes.  A handler's first read of the status is fused with its permission
  check.  Rows started within the same second are ordered by arrival.  A
  restart is not an action: `StartupAccepted` states what its integrity check
  reads.  The file mode of `srs.md` (`readonly`) matters for a user who is not
  root.  The user commits only when an SRS exists and no command is at work.
  `raced`, `restored` and `torn` are histories: overlapping StartRuns, an SRS
  that git brought back, an approval that died half way.
- `Convergence`: the families of models stand for the models; retries are bounded
  by `MaxAttempts`.
- `EcoLog`: an order's text is left out.  `clashed` has the runs with overlapping
  proposals (both count the same orders and take the same code), `lost` the
  orders of processes that died before the file.
- `InferenceBroker`: whole prices; one provider for each kind of model.  The
  prompt is not authorized, a request without `max_tokens` is not bounded
  (`uncapped`), and the tracker starts from zero after a restart; the property
  is about what is left.
- `EventFeed`: only the events of a run marked authoritative are kept; filters
  are left out.
- `Sessions`, `Terminal`: texts are left out.  Nobody but the tests calls
  `CompactSession`; it is modelled all the same.
- `ControlApi`: one window of a token; a payload is an execution.  A server whose
  limit is 0 has no limiter (`server.go:65`) and is not modelled: the assumption
  asks for a positive one.
- `ModelRegistry`: an entry is its tier and its price.  The load of the shipped
  models stops at the first row that fails and is only warned about
  (`registry.go:32`), and a table that cannot be read gives a broker without
  models: an engine that started so is excused (`cut`).
- `ProjectIndex`: a content is a version; the walk reads the names, each file is
  read when its turn comes.  `suspect` lists files whose row is known to be
  wrong for a reason the property's comment gives.
- `PackageGraph`: a content is its imports, an interface and a type; imports are
  named by module path or by directory.
- `TaskCreation`: the service's `CreateTask` and `CreateBatch` have no caller in
  production.  `CreateTask` does not look for a self-dependency, and the comment
  that dependencies are of the same run is not enforced.  Whether foreign keys
  are on is a choice per transaction: the pragma reaches one connection.
- `PromptPackaging`: a line is a number of secrets and whether it is a comment
  with instructions.  Specs are classified by the default policy: patterns of
  the configuration are not used by the code.  No caller sets
  `AllowExternalForSensitive` or `ContextFiles`, so they are left out: the context
  of a spec is redacted when the broker looks for secrets, which it finds only in
  the objective and in what a worker writes.  A request with secrets is routed to
  the local model only if the project's configuration says so (`ForceLocal`,
  `broker.go:107`, `config.go:104`); otherwise it goes out redacted.  The instance
  has it set, as the default configuration does, and the theorem is for both.
  When the attempts cannot be listed the spec has no feedback at all
  (`taskspec.go:137`), which the property excuses (`blind`).

## Checks

| Run | Module | Instance | Shows |
|---|---|---|---|
| `sched_safety` | `MCScheduler` | 3 tasks that share a file, c depends on a, has a second file and late rows; expansions, failing dispatches, 1 crash, 3 attempts, 2 slots | `WriteSetsHeld`, `NoOrphanLock`, `DependenciesDone`, `RecoveryCleans`, refinement of `LockTable` |
| `liveness` | `MCLiveness` | scheduler: 2 tasks, expansion conflict, 1 slot, 3 attempts; pipeline: 1 task, 2 attempts, an approval; fairness | `EveryLockReleased`, `EveryAttemptEnds`, `FailureHandled`, `ItemDecided`; `ConcurrencyLimit` |
| `sched_waiter` | `MCScheduler` | 2 tasks sharing a file, fairness | **violated**: `WaiterWoken` |
| `sched_restart` | `MCScheduler` | 2 tasks sharing a file, 3 attempts, 1 crash | **violated**: `RebuildGoesOn` |
| `sched_keys` | `MCScheduler` | 2 tasks, the keys the code uses | **violated**: `WriteSetsDisjoint` |
| `pipe_safety` | `MCPipeline` | 1 task, 2 attempts, 1 retry per tier, 1 escalation, expansions, refused merges, 1 request, 2 crashes | `OneInPlay`, `CommitsAreCurrent`, `CommittedOnce`, `RetriesBounded`, `DoneIsCommitted`, `ClosingAccepted` |
| `pipe_reject` | `MCPipeline` | 2 tasks, rejections only | **violated**: `RejectedNotCommitted` |
| `lifecycle` | `MCLifecycle` | 2 runs, 2 clients, 2 SRS documents, 1 commit of the user; convergence: 1 implementation, 2 families, 3 attempts, 2 requests | `OneRun`, `RunOnItsBranch`, `SRSPinned`, `StartupAccepted`; `CompletedIsTested` |
| `sandbox_safety` | `MCSandbox` | 2 tasks (2 and 1 attempts), 1 Docker failure, 1 crash | `ContainersOwned`, `MergedIsOwn` |
| `merge_cancel` | `MCMerge` | the merge part below | **violated**: `OnlyWorkBranch` |
| `services` | `MCServices` | each part below | one property or more for each part |
| `convergence_tests` | `MCLifecycle` | its convergence part | **violated**: `MergedIsTested` |

Every passing run but `liveness` and `sandbox_safety` also checks type invariants;
those of `Pipeline` and `Scheduler` are checked by their own runs, those of
`Sandbox` and `Convergence` are proved.  The parts of `services`:

| Part | Instance | Property |
|---|---|---|
| merge | 2 tasks (1 and 2 attempts), 3 paths, one name a prefix of another, 7 manifests; 1 fault (a removal, a copy, or a git command), 1 crash, 1 cancel | `CommitIsOutput`, `NoLostUpdate`, `TreeIsClean` |
| eco | 2 runs, 2 clients, 3 orders | `OrdersOnFile` |
| broker | 2 tasks, 2 attempts each, 3 models, budget 2 | `BudgetBound`, `ChargesAgree` (the ledger) |
| feed | 2 publishers, buffer 1, 2 events, 3 subscriptions | `FeedFaithful` |
| transcript | 2 processes, 2 sessions, 2 messages each, 1 compaction | `TranscriptKept` |
| terminal | 2 runs, 3 inputs | `TerminalFaithful` |
| control | 2 connections, 2 tokens, 1 key, 2 requests a window of 2 ticks | `ClientsServed` (bounded requests, a key once) |
| models | 4 models, 3 tiers, 3 starts or refreshes, loads that stop anywhere | `ChargesAgree` (what is selected is served) |
| index | 2 files, 2 merges, 2 refreshes, 1 crash | `IndexCurrent` |
| graph | 3 packages, 2 changes, 2 rebuilds | `GraphFaithful` |
| creation | batches of up to 3 tasks, 2 calls; a client with 2 tasks, 1 fault | `ClientsServed` (batches) |
| packaging | 2 files, texts of up to 3 lines, 3 attempts, 2 requests | `RetryToldWhy` |

Bounds.  `MaxAttempts` of `Scheduler` stops new ticks once that many attempts
exist; 3 lets a task be retried while the other one has run.  Two goroutines
suffice for a holder and a competitor; two tasks for every conflict of locks,
three for dependency and conflict together.  In `Pipeline`, `MaxAttempts` is
given per task: two attempts are the fewest for one to overtake the other, for a
retry to follow an escalation and for a merge to be repeated.  Tasks share only
the order of the merge queue, so one task is enough but for the rejections.  Two
crashes let a recovery be interrupted.  One request suffices: what it breaks is
the relation between one attempt and its successor.  For the rest: two actors of
a kind are what an interleaving needs, each counter goes one past the event the
property is about (a buffer that overflows, a code that is taken twice, a
session that is shared, a window that slides, a file that changes while it is
indexed), and one fault and one crash fall between any two steps.

Goroutines, clients, runs, SRS documents and the interchangeable actors p1, p2 are
symmetric; each occurs only as one of a set whose members nothing tells apart.
Nothing is symmetric in the liveness runs.  Deadlock is not checked: when all is
done, or a bound is reached, a model stops.

Excuses.  Several properties name histories (`exempt`, `left`, `misread`,
`stray`, `raced`, `torn`, `restored`, `clashed`, `lost`, `overtaken`, `behind`,
`uncapped`, `unlogged`, `suspect`, `cut`, `blind`).  Each records a known way in which
the code gives up the property, and each property says what remains true beside it.  The hazards in
`PROJECT.json` point at the lines.

Fairness of `Scheduler`.  `WF(SchedulerStep)` and `WF(StartAttempt)`: the worker
loops tick every 500 ms.  `WF(GoroutineStep(w))`: the Go runtime runs every
goroutine, and the monitor's timeout ends a container that never answers.  No
answer, fault or crash is assumed to happen.

Fairness of `Pipeline`.  `WF(GoStep(a))`, `WF(MergeStep)` and `WF(ServeRequest)`,
for the same reasons.  Its two liveness properties need no more: once a failure
has been written or an item queued, no scheduler, executor or waker takes part.
Both excuse a crash, after which nobody retries a failed task, so the instance
has none.

### What the violated runs show

- `WaiterWoken`: `moveToWaitingOnLock` needs two statements after the conflict
  was found.  If the holder releases in between, its scan does not see the
  waiter, and a waiter is looked at only when locks are released.  If the holder
  was the last task to release anything, the waiter waits for ever.
- `RebuildGoesOn`: `processLockWaiters` sets a waiter to queued and deletes its
  wait row in a second statement.  After a crash in between, `rebuildLockWaits`
  finds the row, `UpdateTaskStatus` refuses queued to queued, and `Recover` returns
  the error: this startup and every later one fail, because only the
  recovery and a running scheduler ever delete the row.
- `WriteSetsDisjoint`: target rows of `Engine.CreateTask` lock `"file:" + path`,
  expansions lock the path.  The key is not the file.  The other scheduler runs
  use one key per file, so that they say something about the locking itself.
- `RejectedNotCommitted`: `RejectTaskOutput` closes the attempt and fails the
  task, but the item may be waiting in the merge queue, and `processItem` asks
  neither table; that `MarkMerging` was refused is only logged.  The rejected
  output is committed.  Nobody calls `HandleTaskFailure` after a rejection
  either, so without a merge the task stays failed, which is why
  `FailureHandled` excuses the tasks of requests.
- `OnlyWorkBranch`: `CancelRun` checks out the base branch without stopping the
  merge queue, which then commits the item in hand to that branch.
- `MergedIsTested`: `CompleteTask` asks for the test task before
  `MarkSucceeded`; `CreateTestTask` looks for a passed attempt, finds none, and
  the refusal is only logged.

## Proofs

For any tasks, files, keys, goroutines, runs, clients, documents, manifests, orders
and bounds that the assumption of the module allows (`SchedulerAssumption`,
`PipelineAssumption`, `LifecycleAssumption`, `ConvergenceAssumption`,
`MergeAssumption`, `SandboxAssumption`, `EcoAssumption`, `FeedAssumption`,
`SessionsAssumption`, `TerminalAssumption`, `IndexAssumption`, `BrokerAssumption`,
`RegistryAssumption`, `GraphAssumption`, `ControlAssumption`, `PromptAssumption`,
`CreationAssumption`); no other assumption is made, and the runs evaluate these on
their instances.  They ask for little: sets that are counted are finite, bounds
are numbers, markers such as `NoOrder` are none of the values they stand beside,
and what is packaged or created is a sequence.

| Theorem | Module | Statement | Argument |
|---|---|---|---|
| `TypeCorrect` | `Scheduler_proofs` | `[]TypeOK` | inductive as it stands |
| `RegistersCorrect` | `Scheduler_proofs` | `[]Bookkeeping` | inductive with the types: a register names a task exactly while it is in use, nobody runs while the process is not up |
| `DependenciesCorrect` | `Scheduler_proofs` | `[]DependenciesDone` | `DepsInv`, below |
| `LimitCorrect` | `Scheduler_proofs` | `[]ConcurrencyLimit` | `SlotsCounted`, below |
| `WriteSetsCorrect` | `Scheduler_proofs` | `[]WriteSetsHeld` | `LockInv`, below |
| `NoOrphanCorrect` | `Scheduler_proofs` | `[]NoOrphanLock` | `LockInv` |
| `LockTableImplemented` | `Scheduler_proofs` | `Spec => LockTableSpec` | each step takes free keys, gives back all of an owner's, wipes, or stutters |
| `RecoveryCorrect` | `Scheduler_proofs` | `RecoveryCleans` | `LockInv` with `StaleEnded`: once the locks are wiped, what is still in progress has ended |
| `TypeCorrect` | `Pipeline_proofs` | `[]TypeOK` | inductive as it stands; a checked write (`UpdateTaskStatus` and its like) keeps the type of its column |
| `ClosingCorrect` | `Pipeline_proofs` | `[]ClosingAccepted` | `Recoverable`, below |
| `DoneCorrect` | `Pipeline_proofs` | `[]DoneIsCommitted` | a status becomes done in `CompleteTask` alone (`DoneEntered`), whose task has been committed (`CompletedIsCommitted`), and nothing leaves the repository (`CommitsKept`) |
| `OneAttemptInPlay` | `Pipeline_proofs` | `[]OneInPlay` | `Orderly`, below |
| `CommitsCurrent` | `Pipeline_proofs` | `CommitsAreCurrent` | `Orderly`: a commit is of the item's attempt, whose status and phase the merge worker's hand fixes |
| `CommittedOncePerRestart` | `Pipeline_proofs` | `[]CommittedOnce` | `Orderly` with `CommitsPaid`: a commit is paid for by the task being done, or about to be, or by a crash |
| `RetriesCorrect` | `Pipeline_proofs` | `[]RetriesBounded` | `RetryInv`, below |
| `LifecycleTypes` | `RunLifecycle_proofs` | `[]TypeOK` | with `RepoOK` and `RowsMade`: a branch checked out has a commit, a run whose status is not "none" has a row |
| `OneRunCorrect` | `RunLifecycle_proofs` | `[]OneRun` | `Serial`, below |
| `BranchCorrect` | `RunLifecycle_proofs` | `[]RunOnItsBranch` | `Serial`: the cleanup that leaves the branch finds no run in flight |
| `PinnedCorrect` | `RunLifecycle_proofs` | `[]SRSPinned` | `Calm`, below; `DocumentsRead` for the hash |
| `StartupCorrect` | `RunLifecycle_proofs` | `[]StartupAccepted` | `Calm` |
| `ConvergenceTypes` | `Convergence_proofs` | `[]ConvTypeOK` | with the types of the queue worker and of the attempts it names (`ConvTyped`) |
| `ConvergenceCorrect` | `Convergence_proofs` | `CompletedIsTested` | `ConvInv`, below |
| `MergeTypes` | `MergeApply_proofs` | `[]TypeOK` | with `RepoOK`, `SnapshotsKnown` and `InHand`: tips and snapshots are commits, the item in hand is merging |
| `TreeCorrect` | `MergeApply_proofs` | `[]TreeIsClean` | `MergeInv`, below |
| `CommitCorrect` | `MergeApply_proofs` | `CommitIsOutput` | `MergeInv`: the index is the working tree at the item's paths and HEAD elsewhere |
| `NoLostUpdateCorrect` | `MergeApply_proofs` | `NoLostUpdate` | `OutputsSeen`, which the conflict checks establish and HEAD, unmoved until the commit, keeps |
| `SandboxTypes` | `Sandbox_proofs` | `[]TypeOK` | with `BoxTyped` and `Numbered`: a message is of an attempt that was started |
| `ContainersCorrect` | `Sandbox_proofs` | `[]ContainersOwned` | `BoxInv`, below |
| `MergedCorrect` | `Sandbox_proofs` | `[]MergedIsOwn` | `BoxInv` |
| `OrdersCorrect` | `Services_proofs` | `[]OrdersOnFile` | `EcoInv`, below |
| `FeedCorrect` | `Services_proofs` | `[]FeedFaithful` | `BusInv`, below |
| `TranscriptCorrect` | `Services_proofs` | `[]TranscriptKept` | `SessInv`, below |
| `TerminalCorrect` | `Services_proofs` | `[]TerminalFaithful` | `TermInv`, below |
| `IndexCorrect` | `Services_proofs` | `[]IndexCurrent` | `IndexInv`, below |
| `BudgetCorrect` | `Requests_proofs` | `[]BudgetBound` | `BudgetInv`, below |
| `LedgerCorrect` | `Requests_proofs` | `[]LedgerAgrees` | `LedgerInv`, below |
| `SelectionServed` | `Requests_proofs` | `[]SelectedIsServed` | `RegInv`, below |
| `ChargesCorrect` | `Requests_proofs` | `[]ChargesAgree` | the two before |
| `GraphCorrect` | `Requests_proofs` | `[]GraphFaithful` | `GraphInv`, below |
| `ControlCorrect` | `Requests_proofs` | `[](ControlTypeOK /\ WindowBound /\ OncePerSocket)` | `ControlInv`, below |
| `PromptsCorrect` | `Requests_proofs` | `[](PromptTypeOK /\ RetryToldWhy)` | `PromptInv`, below |
| `CreationCorrect` | `Requests_proofs` | `[](CreationTypeOK /\ Orderable /\ EachSpecOnce)` | `CreationInv`, below |
| `ClientsCorrect` | `Requests_proofs` | `[]ClientsServed` | the promises of `ControlApi` and `TaskCreation` |
| `ServicesTypes` | `MergeApply_proofs` | `[]ServicesTypeOK` | the parts share no variable, so each part's invariant is enough; `FeedSized` and `CountsInv` add the limits of channels and counters |

`DepsInv`.  `DependenciesDone` is not inductive: the scheduler dispatches a task
on the strength of an earlier read.  The invariant adds that the ready list, the
scheduler's task and the goroutines' tasks have their dependencies done, and that
the task the recovery requeues is in progress.  The proof has two halves:
`StatusMoves` says what one step may do to a status (`StatusStep`: leave it,
take it out of the statuses that need dependencies, or find them done; never
leave `done`) and to the registers (`RegisterStep`); `DepsStep` concludes
without looking at the actions again.

`LockInv`.  `WriteSetsHeld` speaks of attempts and goroutines; it is kept
because of what the scheduler holds before there is an attempt.  The parts:
`SchedulerAlone` (the task in the scheduler's hands has no goroutine and no
fresh attempt, its keys are those of its rows, and once acquired they are held),
`ReadyFresh` (a task on the ready list is still queued), `FreshHeld` (a fresh
attempt waits with its locks), `OneGoroutine` (so that a release takes nothing
from another goroutine of the task), `GoroutineHeld` (until its release; while
an expansion adds its rows, their keys are already held) and `LocksOwned`.  All
but the last two speak of `Tasks \ exempt`: each way into `exempt` is a way the
code breaks one of these parts.  Nine of the actions only move a goroutine from
one stage to another; `QuietMove` does them all.

`Recoverable`.  That the closing of stale attempts (`recovery.go:166-190`) is never
refused depends on all the writers that were busy when the process died.  It is
one step of `Recover`: the wait rows (`RebuildGoesOn` is violated) and the check of
the SRS (`StartupAccepted` of `RunLifecycle`) may refuse a startup, and neither is in
`Pipeline`.  `PhaseFirst` says that the phase of an attempt
is terminal before its status leaves "running"; as four actors write the two
columns in two transactions, it also says so of whoever is between them (`go`,
`mpc`, `ctl`, `mode`).  Terminal phases are absorbing (`TerminalKept`), so each of
them still finds what it found or wrote (`FailStatusEntered`,
`MergeStatusEntered`, `RejectStatusEntered`).  `Rows` (a row is filled in when
the attempt is created) and `Bounded` keep a new attempt apart from all that.
`CloseAccepted`: an attempt that the recovery closes had an open phase, hence the
status "running", and by `Quiet` and `OnlyRecovery` nobody changes it before the
recovery does.

`Orderly`.  `OneInPlay` is not inductive: that nobody works on an old attempt
when the scheduler dispatches its task follows from what each holder knows.
`Sole(a)` collects it for an attempt of an undisturbed task: at most one hand
holds it, its goroutine, one place in the queue or the merge worker
(`OneHolder`); who holds it knows the status of its task (`StatusKnown`), so that
a task that is queued or waiting has no holder (`HeldStatus`); and from the
approval to the commit it has the phase its place calls for (`PhaseKnown`), so
that a goroutine is not started on it again.  A step has an actor's attempt, the
other attempts of its task, which are idle before and after (`OthersIdle`,
`IdleIsSole`), and those of other tasks, which it does not touch
(`UntouchedIsSole`); the lemmas `GoOwn`, `GoOthers`, `MergeOwn`, `MergeOthers`,
`TakeKeeps` and the like are these cases.  `Released` says that idle and dead
hands are empty, `RequeuesRunning` that the recovery requeues a task in progress
only, so that a task that is done stays so (`DoneKept`).

`SlotsCounted`.  The tick counts the tasks in progress once and dispatches as
often as that leaves room for, while goroutines, the merge queue and wakers move
statuses.  The tasks in progress and the slots left never add up to more than the
limit; between the two writes of a dispatch the task is counted as both.  Every
other actor only takes tasks out of progress (`Fewer`), which is where a failed
dispatch (`Faults`) would break it.

`RetryInv`.  `HandleTaskFailure` counts the failures at a tier after the attempt
has been closed, so what bounds them is whether the task may still get an
attempt.  A task is `Open` until its latest attempt fails by itself; while it is,
its tier has room for one more failure (`RoomLeft`).  A retry opens it again only
below the bound, an escalation at a tier no attempt has had (`TiersRise`: ranks
only rise, and the attempts of the one that escalates are all below).
`FailureOver` keeps an attempt that failed by itself out of every hand that
could close it a second time, `ClosesLatest` says that the recovery's closing is
not such a failure.  A step adds at most one attempt to `FailedAt`, and the
library's facts about cardinality do the rest.

`Serial`.  `StartRun` decides on a read that other commands follow.  As long as
nothing raced, at most one of them is under way and no cleanup next to it
(`StartAlone`), so what it read stays true: in "replace" the run in its hands is
the only one in flight, from "validate" to "create" none is (`StartBelieves`).
With `NewestFlies` (a run in flight is the last row made) the active run a
command resolves is the only one.

`Calm`, as long as nothing raced and git has neither brought an SRS file back nor
taken one during an approval.  `WriteSRS` succeeds only where no srs.md is
(`ReadOnlyKept`: one that exists is read-only), so one client at most is past it
(`WriterAlone`) and what it has written and has yet to write is known step by
step (`WriterHas`); when nobody is, the files agree with each other and with the
newest hash (`FilesAgree`, by `NewestFlies`).  `ActiveHas` adds that the SRS of an
active run is untracked while a StartRun has yet to check out the work branch:
git then keeps it (`Checkout`: a checkout leaves a file that is not as it was
committed).  The lemmas `Checkout`, `SetupWork`, `Cleaned` and `Committed` are about the
operators of `GitRepo`, for any repository.

`ConvInv`.  `CompleteRun` lists the pairs in one statement and writes the status in
another, so what it found converged has to stay tested whatever comes between.
A pair converges in the queue's hook, after the status of its test, and the hook
runs for a task that is done (`PairsMade`); nothing leaves `done`: the table of
transitions has no way out of it for `RejectTaskOutput`, and the recovery
requeues tasks in progress only.  `PairsMade` also says that a pair comes with its
test task and only for an implementation that is done: this is what makes "every
pair listed" say something about implementations, and why a fix that fails cannot
undo one.
`ConvergedIsTested` carries the list to the write.

`MergeInv`.  `TreeIsClean` says nothing about the files of the item in hand, and
it is these that a revert or a commit turns into the clean tree of the next item.
`AppliedAt(p)` says where each of them is: the tree has the staged file, nothing,
or HEAD's, by what `applyOutput` has left to do, the index still has HEAD's until
the files are staged, and the backup has HEAD's exactly where the tree was
changed, so that a revert (`MergeReverted`) puts every file back that was not
removed and put out again.  The last case came out of the proof: such a file is
lost whichever step fails, and `left` excuses it.  `RemovesFirst` (no file is
removed once the copying has begun) keeps `AppliedAt` while files are written one
by one; `CheckedIsTree` carries the tree of the checks to the commit;
`SnapshotsKnown` gives every item of the queue a commit to be compared with;
`CancelExcused` says that a cancelled run is excused everywhere, so its three git
commands need no case of their own.  The lemmas about `GitRepo` are for any
repository.

`BoxInv`.  Who stops a container is known by the step of its task: `Mine(t)` is
what the goroutine of t will stop, and each of its steps hands that on, stops it
or gives it to a deferred call.  What an item of the merge queue owns follows
from `OneItem` (its task waits for it alone).  That what is merged is the present
worker's output is about who may write into the directory while the queue holds
no more than its path.  Every end of an attempt removes the directories: a
failure, a failed merge (`MarkFailed` before the requeue) and a commit, and the
recovery empties the staging ones.  A worker that a failed Stop left running
thereby loses its mount (`OthersDetached`), while the present one keeps its own
(`CurrentMounted`), so that the directory holds what the present worker wrote last
and nothing else (`Holds`).  `SentRead` says that an attempt past its message has
sent it, unless it took an earlier worker's for its own (`misread`), and `OnFile` that
what such a worker did not touch again is what was put on file.  The queue reads
the directory once; `MergingKept` and `MergedKept` keep the claim for an output it
has read, whatever the worker writes then.

`EcoInv`.  The code of an order is a count taken in one statement and used in
another.  For a run whose proposals never overlapped (`OneProposal`) no code
exceeds the number of its orders and the proposal under way has the next one
(`CodesCounted`), so codes differ (`CodesDiffer`), whatever is approved or
rejected in between: orders never leave the log.  Then a file is overwritten
only by an order the property names (`Rivals`).  `WritesApproved` and `FilesShow`
say what a write under way and a file refer to; a step that writes no file only
lets the log grow (`OrdersStay`), and what it approves is being written.

`BudgetInv`.  A request is authorized against what has been recorded, not against
what the others will cost, so the bound must come from the one that was admitted
last: what it owes (`Owes`: the prompt and its authorized tokens) fits into what
is left and its prompt, and every other request under way owes at most a share,
the dearest price times a prompt and the token cap (`RoomForLast`).  When that
one is recorded, its cost has become spending, the others owe a share each and
there is room for all (`RoomForAll`).  Stated with a share each and the number
of requests, the invariant needs no sum over them.  A request only ever owes less
as it goes on (`GoesOn`).

`BusInv`.  A publisher does three things one after the other, the number, the
table, the channels, and others do theirs in between.  `OnItsWay` says that what
a publisher has in hand is its last event and is in the table once it is on the
way to the channels; `Behind`, that a channel which is still to be sent it has
only earlier ones of that publisher: hence the order, and no event twice.
`SubsAreOpen` (the map has the open channels, each under an ID no other ever had)
makes the subscriptions a fan-out starts with all the channels that are owed the
event, and the lock keeps them until it ends.

`SessInv`.  A number is taken in one step and its row inserted in another, while
other processes write and compact.  `CacheAbove` says that the number a process
has in memory is beyond its own messages in the session, and beyond everybody's
unless a session is shared; the first half gives the order, which survives
sharing, the second that nothing is refused without it (`Alone`: a session that
is not shared is open in one process).  `MessagesPast` makes a message in hand
newer than all of its process that came to something.  `CutsTold` ties the two
halves of a compaction together: what lies below the cut is in the summary being
written, or was inserted since (`overtaken`).  That there is a cut at all takes
`Keep > 0` (`CutExists`, a fact about finite sets of numbers): with 0 the code
would index past the end of the messages.

`TermInv`.  The mode on the screen is right only when the goroutine is at rest, so
`UpToDate` speaks of the mode it is about to show (`Shown`): after the engine has
accepted a call and before the mode is written, that is the one the command will
set.  "pause" and "cancel" set a mode without looking; it is the right one because
the run they changed was the only one in flight (`OneActive`), which overlapping
StartRun calls break (`twoRuns`).  A call in the background that changes the run
either leaves an event behind or is the cancellation `behind` remembers.
`CallsCounted` counts a call left behind by a command and a gate that is armed
with those already made.

`IndexInv`.  `IndexCurrent` speaks of the index at rest; at work, a row is right or
its file is `Pending`, in hand or still to do.  A file that waits for the merge
queue must have a row with its symbols or none, because a row with the present
hash is skipped.  Until an output is committed the content that counts is the one
it replaced (`Settled`).  All this holds of a writer that is alone; one that is not
has made every row suspect, and no writer clears that before it has ended
(`AloneOrSuspect`), so that overlaps need no case of their own.

Induction over data.  The library's induction theorems take a predicate as a
parameter, which the provers cannot instantiate.  `Requests_proofs` states the
principle for sets: a set that has 0 and with a number the next one has all numbers
(`Induction`, from `NatLessThanWellFounded` and `WFMin`), likewise for sequences
(`InductionOnSeq`).  A recursive function is a `CHOOSE` of a function that satisfies
its equation, so that nothing is known of it before such a function is shown to
exist: `Recursion` builds it from approximations on `0..n`, and `Loop` puts it into
the form in which the modules write the loops of the code.  Each algorithm then has
a lemma that says what a step does (`SumOfParts` for the folds of the community
modules, `WindowSteps`, `TotalSteps`, `FeedbackSteps`, `LayerSteps`, `VisitSteps`,
`SearchSteps`, `DetectSteps`, `InsertSteps`), and what it computes follows by
induction over the steps.

`LedgerInv`.  `LedgerAgrees` adds up what the requests between their two writes have
cost, a fold over the tasks.  The fold takes its summands in an order nobody
knows; `SumChanges` shows by induction on the number of tasks that changing one
summand changes the sum by as much.  After it, each action is arithmetic
(`SumMoved`).

`RegInv`.  While nobody refreshed the registry, the copy the engine's broker works
with is the table, and what other commands write when they open the project is what
is there already (`LoadedAgain`: a table that has the shipped models as they were
shipped is the same after they are loaded again).  A model that was selected therefore stays in
table and copy at its price.  The engine's own start must have succeeded in both
steps (`cut`); the loads of other commands may stop anywhere.

`GraphInv`.  Merges change files under a rebuild; `Current` are the files none did
since it began.  For these each step of the rebuild leaves its part of the index
right (`FactsCurrent`, `ImplementsCurrent`, `PackagesCurrent`), and while edges are
drawn, the package has exactly those of the files done so far (`EdgesCurrent`).
That `module_graph` finds what can be reached is proved apart, for any graph:
as long as a round of the search adds a package, there are at least as many as
rounds (`SearchEnds`), so that as many rounds as there are packages are enough.

`ControlInv`.  The limiter decides by the times in a token's bucket, which it cleans
now and then; the property is about `passed`, the requests really let through in the
last minute.  They are what the window leaves of the bucket (`LimiterInv`), because
removing old times now and again later removes the same ones as removing them once
(`WindowAgain`).  As for the keys, executions and sockets about to execute one add up
to the sockets it came in by (`SocketsInv`): the cache a request was checked against
is still the socket's when the answer is stored, because a socket serves one request
at a time.

`PromptInv`.  The quote of earlier attempts has as many lines and as many secrets as
the reasons together (`FeedbackHolds`, by the totals of the loop that writes it).
The policy shows as many lines as it is given, or none of them when there are at
least two secrets: either is what `RetryToldWhy` allows (`QuotedIsTold`).  That what
is sent or logged was redacted before is not stated: the redaction is a single
call on each of these paths, and a property would repeat it.

`CreationInv`.  `Orderable` peels off layers of tasks whose dependencies lie in the
earlier ones.  It is kept in the form `Grounded`: every set of tasks has one that
depends on none of the others.  By it each layer is larger than the last until
there is nothing left (`GroundedOrderable`).  The service's search colors tasks white,
gray, black.  A visit that reports no cycle leaves the same tasks gray, and the black
ones are grounded and depend on black ones only (`Sound`, kept by `VisitSound` and,
by induction on the depth, `SearchSound`), so that a batch without a cycle is
grounded (`NoCycleGrounded`).  New rows refer to old ones and to each other, and old
ones never to new ones (`RowsGrounded`).  That a client's tasks exist once is a
matter of numbers: as long as it hears the answers, the tasks that are its own are
those it was told of and those of the present request, in the order of its list
(`InOrder`).

`SchedulerInv`, `PipelineInv`, `RunLifecycleInv`, `ConvergenceInv`, `MergeApplyInv`,
`SandboxInv`, `ServicesInv` and `RequestsInv` state the invariants; they were
model-checked on the instances of the runs before they were proved.

Only model-checked: liveness.  `EveryLockReleased`, `EveryAttemptEnds`,
`FailureHandled` and `ItemDecided` rest on fairness, hence on `ENABLED`, which this
prover does not handle.  Every other property of a passing run is stated by a
theorem.  The violated runs are about single behaviours of an instance, and there
is nothing to prove about them.

## Known differences without a property

Met while modelling, and not stated as properties because a model says no more
than the code does:

- ARCHITECTURE.md 15 calls `create_task_batch` atomic; it creates one task after
  the other (`TaskCreation` bounds what a client sees).  Idempotency keys are
  per socket, not per project.
- The stage-2 checks of an attempt run in the project's directory, so the staged
  output is not what is checked; the fallback runner rejects every output.
- The source of the output in a ReviewSpec is a path below `.axiom`
  (`executor.go:202`), which the default policy excludes: the reviewer of every
  attempt sees a notice in place of "the complete set of files produced by the
  Meeseeks" (ARCHITECTURE.md 1025).  No property says that the merged output is
  what a reviewer has read; `Sandbox` compares it with the artifacts on file.
- The worker's container is stopped by a deferred call that runs after the output
  was queued (`executor.go:107`, `238`), and the item holds the path of the staging
  directory.  What a worker writes there after its message (`Rewrite`) is committed
  in place of what was put on file and checked, against ARCHITECTURE.md 14.1 ("No
  file SHALL reach the project filesystem without passing through the full approval
  pipeline").  `MergedIsOwn` is what remains: it is the output of this worker and of
  no other.
- The validator and the reviewer of a task have names without the attempt
  (`validation.go:138`); the row of the first one is never deleted, so the container
  of the second attempt is refused by the primary key.  `StartFails` models the
  refusal.
- `axiom task approve` enqueues in the memory of the command's own process.
- The context of a spec is read from a working tree a merge may be changing.
- A prompt log is overwritten by each request of an attempt; the cost of an
  attempt is added twice; the rate limiter is never reset.
- `axiom models refresh` stores prices of shipped models that the next command
  overwrites; free OpenRouter models are classified as local.
- `index query module_graph` is given an absolute root; the search for
  implementations says "same package directory" and does not look at it.
- The audit log's writer hides `Hijack`, which a control socket needs.

## Not modelled

- The local inference server: its state is a process of the operating system
  (a PID file that may be reused, overlapping starts).
- Doctor, skills, setup, release, the tunnel, the event socket, rendering,
  history and completion, parsers of source languages, payloads of requests,
  the HTTP of the providers: input, output or presentation without shared state.
- `FailRun`, `CreateRun` by itself, `UpdateMode`: no caller outside the tests.
- Artifact, validation and review rows: written, never read by the engine.
- Several engines on one project: the second one's recovery kills the first
  one's containers and closes its attempts; the models have one engine.
