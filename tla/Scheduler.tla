------------------------------ MODULE Scheduler ------------------------------
(***************************************************************************)
(* The scheduling core of the engine: how tasks get their write-set locks, *)
(* become attempts, wait for each other, and give the locks back.          *)
(*                                                                         *)
(* Five actors share the database, each step below being one transaction   *)
(* or statement of theirs:                                                 *)
(*   - the control plane, which adds a new task's target files one row at  *)
(*     a time while the task is already queued;                            *)
(*   - the scheduler worker, one Tick at a time;                           *)
(*   - the attempt goroutines the executor worker starts (W).  The life of *)
(*     a goroutine here goes on through the merge of its output, which the *)
(*     merge queue does on its behalf, one item at a time;                 *)
(*   - a crash of the process, and the recovery that starts it again.      *)
(*                                                                         *)
(* A goroutine's validation, review and merge are the single stage "pipe"; *)
(* the retry policy is a choice between retry and block.                   *)
(***************************************************************************)
EXTENDS TaskStates, Integers, FiniteSets

CONSTANTS
  Tasks,         \* task rows of the active run
  Files,         \* project files
  Keys,          \* lock resource keys
  W,             \* goroutine identities
  NoTask,        \* the holder of a free lock
  MaxMeeseeks,   \* the scheduler's concurrency limit
  DependsOn,     \* task |-> the tasks it depends on
  Declared,      \* task |-> the files it is created with
  LateRows,      \* tasks whose target rows follow the task row one by one
  TargetKey,     \* file |-> the lock key of a declared target row
  ExpansionKey,  \* file |-> the lock key of a scope-expansion row
  Expansions,    \* the sets of files a worker may ask for
  Faults,        \* may model selection or CreateAttempt fail?
  MaxAttempts,   \* bound: no tick starts once this many attempts exist
  MaxCrashes     \* bound on the crashes of one behaviour

ASSUME SchedulerAssumption ==
  /\ IsFiniteSet(Tasks) /\ NoTask \notin Tasks
  /\ MaxMeeseeks \in Nat \ {0}
  /\ DependsOn \in [Tasks -> SUBSET Tasks]
  /\ Declared \in [Tasks -> SUBSET Files]
  /\ LateRows \subseteq Tasks
  /\ TargetKey \in [Files -> Keys]
  /\ ExpansionKey \in [Files -> Keys]
  /\ Expansions \subseteq SUBSET Files
  /\ Faults \in BOOLEAN
  /\ MaxAttempts \in Nat
  /\ MaxCrashes \in Nat

VARIABLES
  status,    \* tasks.status
  target,    \* task_target_files: task |-> its set of <<file, lock key>>
  creating,  \* task |-> declared files the control plane has yet to insert
  lock,      \* task_locks: key |-> the task that holds it, or NoTask
  wait,      \* task_lock_waits: task |-> requested keys, {} when no row
  attempt,   \* the latest row of task_attempts of each task
  spc, stask, skeys, sready, slots,                    \* the scheduler worker
  wpc, wtask, wlatest, goal, wfiles, todo, cur,        \* the goroutines
  mode, rtask, crashes,                                \* the process
  tries,     \* rows of task_attempts
  exempt     \* history: tasks the locking discipline has already failed

tables  == <<status, target, creating, lock, wait, attempt>>
sched   == <<spc, stask, skeys, sready, slots>>
work    == <<wpc, wtask, wlatest, goal, wfiles, todo, cur>>
process == <<mode, rtask, crashes, tries>>
vars    == <<tables, sched, work, process, exempt>>

(***************************************************************************)
(* The latest attempt: none yet; "new" (executing, not yet picked up since *)
(* the scheduler created it); "executing" (phase executing, otherwise);    *)
(* "pipeline" (a later phase, not terminal); "ended" (terminal).           *)
(***************************************************************************)
AttemptState == {"none", "new", "executing", "pipeline", "ended"}

SchedulerPC == {"idle", "find", "loop", "acquire", "park", "row", "dispatch",
                "create", "undo"}

(* Stages at which a goroutine has not yet deleted its task's locks. *)
HoldingPC == {"run", "xadd", "xpark", "xrow", "xreload", "pipe", "closing",
              "failing", "release"}
ReleasedPC == {"scan", "check", "requeue", "drop", "settle", "settled"}

Goals == {"none", "fail", "wait", "merged", "requeue"}

Live(w) == wpc[w] # "idle"
LiveOn(t) == \E w \in W : Live(w) /\ wtask[w] = t
RowKeys(t) == {row[2] : row \in target[t]}
(* mutant: the owner of a lock is not looked at *)
FreeForAnyone(t, ks) == TRUE
FreeFor(t, ks) == \A k \in ks : lock[k] \in {NoTask, t}
Claim(t, ks) == [k \in Keys |-> IF k \in ks THEN t ELSE lock[k]]
(* mutant: DELETE FROM task_locks without its WHERE clause *)
WithoutAnyone(t) == [k \in Keys |-> NoTask]
Without(t) == [k \in Keys |-> IF lock[k] = t THEN NoTask ELSE lock[k]]
DepsDone(t) == \A d \in DependsOn[t] : status[d] = "done"

TypeOK ==
  /\ status \in [Tasks -> TaskStatus]
  /\ target \in [Tasks -> SUBSET (Files \X Keys)]
  /\ creating \in [Tasks -> SUBSET Files]
  /\ lock \in [Keys -> Tasks \cup {NoTask}]
  /\ wait \in [Tasks -> SUBSET Keys]
  /\ attempt \in [Tasks -> AttemptState]
  /\ spc \in SchedulerPC
  /\ stask \in Tasks \cup {NoTask}
  /\ skeys \in SUBSET Keys
  /\ sready \in SUBSET Tasks
  /\ slots \in Int
  /\ wpc \in [W -> {"idle"} \cup HoldingPC \cup ReleasedPC]
  /\ wtask \in [W -> Tasks \cup {NoTask}]
  /\ wlatest \in [W -> BOOLEAN]
  /\ goal \in [W -> Goals]
  /\ wfiles \in [W -> SUBSET Files]
  /\ todo \in [W -> SUBSET (Tasks \X SUBSET Keys)]
  /\ cur \in [W -> Tasks \cup {NoTask}]
  /\ mode \in {"up", "down", "stale", "waits"}
  /\ rtask \in Tasks \cup {NoTask}
  /\ crashes \in Nat
  /\ tries \in Nat
  /\ exempt \in SUBSET Tasks

Init ==
  /\ status = [t \in Tasks |-> "queued"]
  /\ target = [t \in Tasks |-> IF t \in LateRows THEN {}
                               ELSE {<<f, TargetKey[f]>> : f \in Declared[t]}]
  /\ creating = [t \in Tasks |-> IF t \in LateRows THEN Declared[t] ELSE {}]
  /\ lock = [k \in Keys |-> NoTask]
  /\ wait = [t \in Tasks |-> {}]
  /\ attempt = [t \in Tasks |-> "none"]
  /\ spc = "idle" /\ stask = NoTask /\ skeys = {} /\ sready = {} /\ slots = 0
  /\ wpc = [w \in W |-> "idle"]
  /\ wtask = [w \in W |-> NoTask]
  /\ wlatest = [w \in W |-> FALSE]
  /\ goal = [w \in W |-> "none"]
  /\ wfiles = [w \in W |-> {}]
  /\ todo = [w \in W |-> {}]
  /\ cur = [w \in W |-> NoTask]
  /\ mode = "up" /\ rtask = NoTask /\ crashes = 0 /\ tries = 0
  /\ exempt = {}

-----------------------------------------------------------------------------
(* The control plane: engine.CreateTask after its INSERT of the task row. *)

AddTaskTargetFile(t) ==
  /\ mode = "up"
  /\ \E f \in creating[t] :
       /\ creating' = [creating EXCEPT ![t] = @ \ {f}]
       /\ target' = [target EXCEPT ![t] = @ \cup {<<f, TargetKey[f]>>}]
  /\ exempt' = IF status[t] = "queued" /\ stask # t /\ ~LiveOn(t)
               THEN exempt ELSE exempt \cup {t}
  /\ UNCHANGED <<status, lock, wait, attempt, sched, work, process>>

-----------------------------------------------------------------------------
(* The scheduler worker. *)

(* tickRun up to the count of in-progress tasks. *)
TickRun ==
  /\ mode = "up" /\ spc = "idle" /\ tries < MaxAttempts
  /\ LET running == {t \in Tasks : status[t] = "in_progress"}
     IN  /\ Cardinality(running) < MaxMeeseeks
         /\ slots' = MaxMeeseeks - Cardinality(running)
  /\ spc' = "find"
  /\ UNCHANGED <<tables, stask, skeys, sready, work, process, exempt>>

(* mutant: a dependency that failed no longer holds its dependents back *)
FindReadyPastFailures ==
  /\ mode = "up" /\ spc = "find"
  /\ sready' = {t \in Tasks : status[t] = "queued"
                  /\ \A d \in DependsOn[t] : status[d] \in {"done", "failed"}}
  /\ spc' = "loop"
  /\ UNCHANGED <<tables, stask, skeys, slots, work, process, exempt>>

FindReadyTasks ==
  /\ mode = "up" /\ spc = "find"
  /\ sready' = {t \in Tasks : status[t] = "queued" /\ DepsDone(t)}
  /\ spc' = "loop"
  /\ UNCHANGED <<tables, stask, skeys, slots, work, process, exempt>>

(* One turn of tickRun's loop: tryDispatch reads the task's target rows. *)
TryDispatch(t) ==
  /\ mode = "up" /\ spc = "loop" /\ slots > 0 /\ t \in sready
  /\ sready' = sready \ {t}
  /\ stask' = t
  /\ skeys' = RowKeys(t)
  /\ spc' = "acquire"
  /\ exempt' = IF LiveOn(t) THEN exempt \cup {t} ELSE exempt
  /\ UNCHANGED <<tables, slots, work, process>>

EndTick ==
  /\ mode = "up" /\ spc = "loop" /\ (slots = 0 \/ sready = {})
  /\ spc' = "idle" /\ slots' = 0 /\ sready' = {}
  /\ UNCHANGED <<tables, stask, skeys, work, process, exempt>>

NextTask == spc' = "loop" /\ stask' = NoTask /\ skeys' = {}

(* mutant: the free keys are taken and the task dispatched with them *)
TryAcquireSome ==
  /\ mode = "up" /\ spc = "acquire"
  /\ lock' = [k \in Keys |-> IF k \in skeys /\ lock[k] = NoTask THEN stask ELSE lock[k]]
  /\ spc' = "dispatch"
  /\ UNCHANGED <<status, target, creating, wait, attempt, stask, skeys, sready,
                 slots, work, process, exempt>>

(* All of the keys or none, in one transaction. *)
TryAcquireLocks ==
  /\ mode = "up" /\ spc = "acquire"
  /\ IF FreeFor(stask, skeys)
     THEN lock' = Claim(stask, skeys) /\ spc' = "dispatch"
     ELSE lock' = lock /\ spc' = "park"
  /\ UNCHANGED <<status, target, creating, wait, attempt, stask, skeys, sready,
                 slots, work, process, exempt>>

MoveToWaitingOnLock ==
  /\ mode = "up" /\ spc = "park"
  /\ status' = UpdateTaskStatus(status, stask, "waiting_on_lock")
  /\ IF ValidTaskTransition(status[stask], "waiting_on_lock")
     THEN spc' = "row" /\ UNCHANGED <<stask, skeys>>
     ELSE NextTask
  /\ UNCHANGED <<target, creating, lock, wait, attempt, sready, slots, work,
                 process, exempt>>

(* INSERT INTO task_lock_waits: a row left behind makes it fail, and the   *)
(* error is only logged.                                                   *)
AddLockWait ==
  /\ mode = "up" /\ spc = "row"
  /\ wait' = IF wait[stask] = {} THEN [wait EXCEPT ![stask] = skeys] ELSE wait
  /\ NextTask
  /\ UNCHANGED <<status, target, creating, lock, attempt, sready, slots, work,
                 process, exempt>>

Dispatch ==
  /\ mode = "up" /\ spc = "dispatch"
  /\ status' = UpdateTaskStatus(status, stask, "in_progress")
  /\ spc' = IF ValidTaskTransition(status[stask], "in_progress")
            THEN "create" ELSE "undo"
  /\ UNCHANGED <<target, creating, lock, wait, attempt, stask, skeys, sready,
                 slots, work, process, exempt>>

(* dispatch returns an error, before or after it has set in_progress. *)
DispatchFails ==
  /\ mode = "up" /\ Faults /\ spc \in {"dispatch", "create"}
  /\ spc' = "undo"
  /\ UNCHANGED <<tables, stask, skeys, sready, slots, work, process, exempt>>

(* mutant: the dispatch does not use up a slot *)
CreateAttemptKeepSlot ==
  /\ mode = "up" /\ spc = "create"
  /\ attempt' = [attempt EXCEPT ![stask] = "new"]
  /\ wlatest' = [w \in W |-> IF wtask[w] = stask THEN FALSE ELSE wlatest[w]]
  /\ tries' = tries + 1
  /\ NextTask
  /\ UNCHANGED <<status, target, creating, lock, wait, sready, slots, wpc, wtask,
                 goal, wfiles, todo, cur, mode, rtask, crashes, exempt>>

CreateAttempt ==
  /\ mode = "up" /\ spc = "create"
  /\ attempt' = [attempt EXCEPT ![stask] = "new"]
  /\ wlatest' = [w \in W |-> IF wtask[w] = stask THEN FALSE ELSE wlatest[w]]
  /\ slots' = slots - 1
  /\ tries' = tries + 1
  /\ NextTask
  /\ UNCHANGED <<status, target, creating, lock, wait, sready, wpc, wtask, goal,
                 wfiles, todo, cur, mode, rtask, crashes, exempt>>

(* mutant: a failed dispatch keeps its locks *)
UndoDispatchKeepLocks ==
  /\ mode = "up" /\ spc = "undo"
  /\ NextTask
  /\ UNCHANGED <<status, target, creating, lock, wait, attempt, sready, slots,
                 work, process, exempt>>

(* tryDispatch deletes the locks itself: no waiter is looked at. *)
UndoDispatch ==
  /\ mode = "up" /\ spc = "undo"
  /\ lock' = Without(stask)
  /\ NextTask
  /\ UNCHANGED <<status, target, creating, wait, attempt, sready, slots, work,
                 process, exempt>>

-----------------------------------------------------------------------------
(* Attempt goroutines. *)

Goto(w, pc) == wpc' = [wpc EXCEPT ![w] = pc]

(* The goroutine's own attempt row, when it is the task's latest one. *)
SetAttempt(w, to) ==
  attempt' = IF wlatest[w] THEN [attempt EXCEPT ![wtask[w]] = to] ELSE attempt

(* executorLoop starts a goroutine for the latest attempt of an in-progress *)
(* task when that attempt is executing and no live goroutine has it.        *)
StartAttempt(w, t) ==
  /\ mode = "up" /\ wpc[w] = "idle"
  /\ status[t] = "in_progress" /\ attempt[t] \in {"new", "executing"}
  /\ ~ \E v \in W : Live(v) /\ wtask[v] = t /\ wlatest[v]
  /\ Goto(w, "run")
  /\ wtask' = [wtask EXCEPT ![w] = t]
  /\ wlatest' = [wlatest EXCEPT ![w] = TRUE]
  /\ attempt' = [attempt EXCEPT ![t] = "executing"]
  /\ exempt' = IF attempt[t] = "new" /\ ~LiveOn(t) THEN exempt
               ELSE exempt \cup {t}
  /\ UNCHANGED <<status, target, creating, lock, wait, sched, goal, wfiles, todo,
                 cur, process>>

(* task_output arrives: the attempt leaves phase executing. *)
FinishExecution(w) ==
  /\ wpc[w] = "run"
  /\ SetAttempt(w, "pipeline")
  /\ Goto(w, "pipe")
  /\ UNCHANGED <<status, target, creating, lock, wait, sched, wtask, wlatest,
                 goal, wfiles, todo, cur, process, exempt>>

(* runAttempt returns an error: container, timeout, validation, review. *)
GiveUp(w) ==
  /\ wpc[w] \in {"run", "pipe"}
  /\ Goto(w, "closing")
  /\ UNCHANGED <<tables, sched, wtask, wlatest, goal, wfiles, todo, cur, process,
                 exempt>>

(* RequestScopeExpansion up to and including its lock transaction. *)
RequestScopeExpansion(w, F) ==
  LET t == wtask[w]
      ks == {ExpansionKey[f] : f \in F}
  IN  /\ wpc[w] = "run"
      /\ IF status[t] # "in_progress"
         THEN Goto(w, "closing") /\ UNCHANGED <<lock, wfiles>>
         ELSE /\ wfiles' = [wfiles EXCEPT ![w] = F]
              /\ IF FreeFor(t, ks)
                 THEN lock' = Claim(t, ks) /\ Goto(w, "xadd")
                 ELSE lock' = lock /\ Goto(w, "xpark")
      /\ UNCHANGED <<status, target, creating, wait, attempt, sched, wtask,
                     wlatest, goal, todo, cur, process, exempt>>

(* Granted: one target row per file.  A row the task already has violates   *)
(* the primary key, which fails the request and with it the attempt.        *)
AddExpandedTarget(w) ==
  LET t == wtask[w]
  IN  /\ wpc[w] = "xadd"
      /\ IF wfiles[w] = {}
         THEN Goto(w, "run") /\ UNCHANGED <<target, wfiles>>
         ELSE \E f \in wfiles[w] :
                IF \E k \in Keys : <<f, k>> \in target[t]
                THEN /\ Goto(w, "closing")
                     /\ wfiles' = [wfiles EXCEPT ![w] = {}]
                     /\ target' = target
                ELSE /\ target' = [target EXCEPT ![t] = @ \cup {<<f, ExpansionKey[f]>>}]
                     /\ wfiles' = [wfiles EXCEPT ![w] = @ \ {f}]
                     /\ wpc' = wpc
      /\ UNCHANGED <<status, creating, lock, wait, attempt, sched, wtask, wlatest,
                     goal, todo, cur, process, exempt>>

(* Refused: waiting_on_lock, the wait row, then the status read back. *)
ParkForExpansion(w) ==
  LET t == wtask[w]
  IN  /\ wpc[w] = "xpark"
      /\ status' = UpdateTaskStatus(status, t, "waiting_on_lock")
      /\ Goto(w, IF ValidTaskTransition(status[t], "waiting_on_lock")
                 THEN "xrow" ELSE "closing")
      /\ UNCHANGED <<target, creating, lock, wait, attempt, sched, wtask, wlatest,
                     goal, wfiles, todo, cur, process, exempt>>

AddExpansionWait(w) ==
  LET t == wtask[w]
  IN  /\ wpc[w] = "xrow"
      /\ IF wait[t] = {}
         THEN /\ wait' = [wait EXCEPT ![t] = {ExpansionKey[f] : f \in wfiles[w]}]
              /\ Goto(w, "xreload")
         ELSE wait' = wait /\ Goto(w, "closing")
      /\ wfiles' = [wfiles EXCEPT ![w] = {}]
      /\ UNCHANGED <<status, target, creating, lock, attempt, sched, wtask,
                     wlatest, goal, todo, cur, process, exempt>>

(* handleScopeExpansionRequest reads the task again.  Waiting: the attempt   *)
(* is abandoned where it stands and its locks are released.  Anything else:  *)
(* the worker is told the expansion was approved.                            *)
ReloadAfterExpansion(w) ==
  /\ wpc[w] = "xreload"
  /\ IF status[wtask[w]] = "waiting_on_lock"
     THEN Goto(w, "release") /\ goal' = [goal EXCEPT ![w] = "wait"]
     ELSE Goto(w, "run") /\ UNCHANGED goal
  /\ UNCHANGED <<tables, sched, wtask, wlatest, wfiles, todo, cur, process, exempt>>

(* failAttempt: the attempt row, then the task row, then the locks. *)
CloseAttempt(w) ==
  /\ wpc[w] = "closing"
  /\ SetAttempt(w, "ended")
  /\ Goto(w, "failing")
  /\ UNCHANGED <<status, target, creating, lock, wait, sched, wtask, wlatest,
                 goal, wfiles, todo, cur, process, exempt>>

(* mutant: a failed attempt goes straight to the retry policy *)
FailTaskKeepLocks(w) ==
  /\ wpc[w] = "failing"
  /\ status' = IF status[wtask[w]] = "in_progress"
               THEN [status EXCEPT ![wtask[w]] = "failed"] ELSE status
  /\ Goto(w, "settle")
  /\ goal' = [goal EXCEPT ![w] = "fail"]
  /\ UNCHANGED <<target, creating, lock, wait, attempt, sched, wtask, wlatest,
                 wfiles, todo, cur, process, exempt>>

(* mutant: only the attempt is failed, its task is left as it is *)
FailAttemptOnly(w) ==
  /\ wpc[w] = "failing"
  /\ Goto(w, "release")
  /\ goal' = [goal EXCEPT ![w] = "fail"]
  /\ UNCHANGED <<tables, sched, wtask, wlatest, wfiles, todo, cur, process, exempt>>

FailTask(w) ==
  /\ wpc[w] = "failing"
  /\ status' = IF status[wtask[w]] = "in_progress"
               THEN [status EXCEPT ![wtask[w]] = "failed"] ELSE status
  /\ Goto(w, "release")
  /\ goal' = [goal EXCEPT ![w] = "fail"]
  /\ UNCHANGED <<target, creating, lock, wait, attempt, sched, wtask, wlatest,
                 wfiles, todo, cur, process, exempt>>

(* The merge queue, for the goroutine's item: one item at a time. *)
MergeIdle == \A v \in W : goal[v] \notin {"merged", "requeue"}

MergeCommitted(w) ==
  /\ wpc[w] = "pipe" /\ MergeIdle
  /\ Goto(w, "release")
  /\ goal' = [goal EXCEPT ![w] = "merged"]
  /\ UNCHANGED <<tables, sched, wtask, wlatest, wfiles, todo, cur, process, exempt>>

MergeFailed(w) ==
  /\ wpc[w] = "pipe" /\ MergeIdle
  /\ SetAttempt(w, "ended")
  /\ Goto(w, "release")
  /\ goal' = [goal EXCEPT ![w] = "requeue"]
  /\ UNCHANGED <<status, target, creating, lock, wait, sched, wtask, wlatest,
                 wfiles, todo, cur, process, exempt>>

-----------------------------------------------------------------------------
(* ReleaseLocks: delete the locks, then look at the waiters. *)

ReleaseTaskLocks(w) ==
  /\ wpc[w] = "release"
  /\ lock' = Without(wtask[w])
  /\ Goto(w, "scan")
  /\ UNCHANGED <<status, target, creating, wait, attempt, sched, wtask, wlatest,
                 goal, wfiles, todo, cur, process, exempt>>

ScanWaiters(w) ==
  /\ wpc[w] = "scan"
  /\ todo' = [todo EXCEPT ![w] =
       {<<t, wait[t]>> : t \in {u \in Tasks : status[u] = "waiting_on_lock"
                                               /\ wait[u] # {}}}]
  /\ Goto(w, "check")
  /\ UNCHANGED <<tables, sched, wtask, wlatest, goal, wfiles, cur, process, exempt>>

CheckWaiter(w) ==
  /\ wpc[w] = "check"
  /\ IF todo[w] = {}
     THEN Goto(w, "settle") /\ UNCHANGED <<todo, cur>>
     ELSE \E p \in todo[w] :
            /\ todo' = [todo EXCEPT ![w] = @ \ {p}]
            /\ IF FreeFor(p[1], p[2])
               THEN Goto(w, "requeue") /\ cur' = [cur EXCEPT ![w] = p[1]]
               ELSE UNCHANGED <<wpc, cur>>
  /\ UNCHANGED <<tables, sched, wtask, wlatest, goal, wfiles, process, exempt>>

RequeueWaiter(w) ==
  /\ wpc[w] = "requeue"
  /\ status' = UpdateTaskStatus(status, cur[w], "queued")
  /\ IF ValidTaskTransition(status[cur[w]], "queued")
     THEN Goto(w, "drop") /\ UNCHANGED cur
     ELSE Goto(w, "check") /\ cur' = [cur EXCEPT ![w] = NoTask]
  /\ UNCHANGED <<target, creating, lock, wait, attempt, sched, wtask, wlatest,
                 goal, wfiles, todo, process, exempt>>

RemoveLockWait(w) ==
  /\ wpc[w] = "drop"
  /\ wait' = [wait EXCEPT ![cur[w]] = {}]
  /\ cur' = [cur EXCEPT ![w] = NoTask]
  /\ Goto(w, "check")
  /\ UNCHANGED <<status, target, creating, lock, attempt, sched, wtask, wlatest,
                 goal, wfiles, todo, process, exempt>>

-----------------------------------------------------------------------------
(* What follows the release, according to why the goroutine let go. *)

Leave(w) ==
  /\ Goto(w, "idle")
  /\ wtask' = [wtask EXCEPT ![w] = NoTask]
  /\ wlatest' = [wlatest EXCEPT ![w] = FALSE]
  /\ goal' = [goal EXCEPT ![w] = "none"]
  /\ UNCHANGED <<wfiles, todo, cur>>

LeaveWaiting(w) ==
  /\ wpc[w] = "settle" /\ goal[w] = "wait"
  /\ Leave(w)
  /\ UNCHANGED <<tables, sched, process, exempt>>

(* mutant: an escalation is written to the row as a status of its own *)
HandleTaskFailureRaw(w) ==
  /\ wpc[w] = "settle" /\ goal[w] = "fail"
  /\ status' = [status EXCEPT ![wtask[w]] = "escalated"]
  /\ Leave(w)
  /\ UNCHANGED <<target, creating, lock, wait, attempt, sched, process, exempt>>

(* HandleTaskFailure: retry or escalate, or block; an error unless failed. *)
HandleTaskFailure(w) ==
  LET t == wtask[w]
  IN  /\ wpc[w] = "settle" /\ goal[w] = "fail"
      /\ IF status[t] = "failed"
         THEN \E to \in {"queued", "blocked"} :
                status' = UpdateTaskStatus(status, t, to)
         ELSE status' = status
      /\ Leave(w)
      /\ UNCHANGED <<target, creating, lock, wait, attempt, sched, process, exempt>>

CompleteTask(w) ==
  /\ wpc[w] = "settle" /\ goal[w] = "merged"
  /\ status' = UpdateTaskStatus(status, wtask[w], "done")
  /\ Goto(w, "settled")
  /\ UNCHANGED <<target, creating, lock, wait, attempt, sched, wtask, wlatest,
                 goal, wfiles, todo, cur, process, exempt>>

MarkSucceeded(w) ==
  /\ wpc[w] = "settled" /\ goal[w] = "merged"
  /\ SetAttempt(w, "ended")
  /\ Leave(w)
  /\ UNCHANGED <<status, target, creating, lock, wait, sched, process, exempt>>

(* RequeueTask of the merge queue: failed, then queued. *)
FailMergedTask(w) ==
  /\ wpc[w] = "settle" /\ goal[w] = "requeue"
  /\ status' = IF status[wtask[w]] = "in_progress"
               THEN [status EXCEPT ![wtask[w]] = "failed"] ELSE status
  /\ Goto(w, "settled")
  /\ UNCHANGED <<target, creating, lock, wait, attempt, sched, wtask, wlatest,
                 goal, wfiles, todo, cur, process, exempt>>

RequeueTask(w) ==
  /\ wpc[w] = "settled" /\ goal[w] = "requeue"
  /\ status' = UpdateTaskStatus(status, wtask[w], "queued")
  /\ Leave(w)
  /\ UNCHANGED <<target, creating, lock, wait, attempt, sched, process, exempt>>

-----------------------------------------------------------------------------
(* The process: a crash loses everything but the tables; Recover puts them  *)
(* in order before any worker runs.                                         *)

Crash ==
  /\ mode # "down" /\ crashes < MaxCrashes
  /\ crashes' = crashes + 1
  /\ mode' = "down" /\ rtask' = NoTask
  /\ attempt' = [t \in Tasks |-> IF attempt[t] = "new" THEN "executing"
                                 ELSE attempt[t]]
  /\ creating' = [t \in Tasks |-> {}]
  /\ spc' = "idle" /\ stask' = NoTask /\ skeys' = {} /\ sready' = {} /\ slots' = 0
  /\ wpc' = [w \in W |-> "idle"]
  /\ wtask' = [w \in W |-> NoTask]
  /\ wlatest' = [w \in W |-> FALSE]
  /\ goal' = [w \in W |-> "none"]
  /\ wfiles' = [w \in W |-> {}]
  /\ todo' = [w \in W |-> {}]
  /\ cur' = [w \in W |-> NoTask]
  /\ exempt' = {}
  /\ UNCHANGED <<status, target, lock, wait, tries>>

StartRecovery ==
  /\ mode = "down"
  /\ mode' = "stale"
  /\ UNCHANGED <<tables, sched, work, rtask, crashes, tries, exempt>>

(* requeueStaleInProgressTasks: a task whose latest attempt is terminal is *)
(* skipped; a task with an open one has it closed first.                   *)
CloseStaleAttempt(t) ==
  /\ mode = "stale" /\ rtask = NoTask /\ status[t] = "in_progress"
  /\ attempt[t] # "ended"
  /\ attempt' = IF attempt[t] = "none" THEN attempt
                ELSE [attempt EXCEPT ![t] = "ended"]
  /\ rtask' = t
  /\ UNCHANGED <<status, target, creating, lock, wait, sched, work, mode, crashes, tries,
                 exempt>>

RequeueStaleTask ==
  /\ mode = "stale" /\ rtask # NoTask
  /\ status' = [status EXCEPT ![rtask] = "queued"]
  /\ rtask' = NoTask
  /\ UNCHANGED <<target, creating, lock, wait, attempt, sched, work, mode, crashes, tries,
                 exempt>>

(* mutant: only the locks of tasks still in progress are deleted *)
ReleaseLocksInProgress ==
  /\ mode = "stale" /\ rtask = NoTask
  /\ \A t \in Tasks : status[t] = "in_progress" => attempt[t] = "ended"
  /\ lock' = [k \in Keys |-> IF lock[k] \in {t \in Tasks : status[t] = "in_progress"}
                             THEN NoTask ELSE lock[k]]
  /\ mode' = "waits"
  /\ UNCHANGED <<status, target, creating, wait, attempt, sched, work, rtask,
                 crashes, tries, exempt>>

ReleaseAllLocks ==
  /\ mode = "stale" /\ rtask = NoTask
  /\ \A t \in Tasks : status[t] = "in_progress" => attempt[t] = "ended"
  /\ lock' = [k \in Keys |-> NoTask]
  /\ mode' = "waits"
  /\ UNCHANGED <<status, target, creating, wait, attempt, sched, work, rtask,
                 crashes, tries, exempt>>

(* rebuildLockWaits: no lock is left, so every row's task is requeued.  A   *)
(* status the table refuses to move makes Recover, and the startup, fail.   *)
RebuildLockWait(t) ==
  /\ mode = "waits" /\ rtask = NoTask /\ wait[t] # {}
  /\ status' = UpdateTaskStatus(status, t, "queued")
  /\ IF ValidTaskTransition(status[t], "queued")
     THEN rtask' = t /\ mode' = mode
     ELSE rtask' = rtask /\ mode' = "down"
  /\ UNCHANGED <<target, creating, lock, wait, attempt, sched, work, crashes, tries,
                 exempt>>

RemoveRebuiltWait ==
  /\ mode = "waits" /\ rtask # NoTask
  /\ wait' = [wait EXCEPT ![rtask] = {}]
  /\ rtask' = NoTask
  /\ UNCHANGED <<status, target, creating, lock, attempt, sched, work, mode,
                 crashes, tries, exempt>>

FinishRecovery ==
  /\ mode = "waits" /\ rtask = NoTask
  /\ \A t \in Tasks : wait[t] = {}
  /\ mode' = "up"
  /\ UNCHANGED <<tables, sched, work, rtask, crashes, tries, exempt>>

-----------------------------------------------------------------------------
SchedulerStep ==
  \/ TickRun \/ FindReadyTasks \/ (\E t \in Tasks : TryDispatch(t)) \/ EndTick
  \/ TryAcquireLocks \/ MoveToWaitingOnLock \/ AddLockWait
  \/ Dispatch \/ DispatchFails \/ CreateAttempt \/ UndoDispatch

ReleaseStep(w) ==
  \/ ReleaseTaskLocks(w) \/ ScanWaiters(w) \/ CheckWaiter(w)
  \/ RequeueWaiter(w) \/ RemoveLockWait(w)

SettleStep(w) ==
  \/ LeaveWaiting(w) \/ HandleTaskFailure(w) \/ CompleteTask(w)
  \/ MarkSucceeded(w) \/ FailMergedTask(w) \/ RequeueTask(w)

ExpansionStep(w) ==
  \/ (\E F \in Expansions : RequestScopeExpansion(w, F))
  \/ AddExpandedTarget(w) \/ ParkForExpansion(w)
  \/ AddExpansionWait(w) \/ ReloadAfterExpansion(w)

AttemptStep(w) ==
  \/ FinishExecution(w) \/ GiveUp(w) \/ CloseAttempt(w) \/ FailTask(w)
  \/ MergeCommitted(w) \/ MergeFailed(w)

GoroutineStep(w) == ExpansionStep(w) \/ AttemptStep(w) \/ ReleaseStep(w) \/ SettleStep(w)

RecoveryStep ==
  \/ StartRecovery \/ (\E t \in Tasks : CloseStaleAttempt(t)) \/ RequeueStaleTask
  \/ ReleaseAllLocks \/ (\E t \in Tasks : RebuildLockWait(t))
  \/ RemoveRebuiltWait \/ FinishRecovery

Next ==
  \/ \E t \in Tasks : AddTaskTargetFile(t)
  \/ SchedulerStep
  \/ \E w \in W, t \in Tasks : StartAttempt(w, t)
  \/ \E w \in W : GoroutineStep(w)
  \/ Crash
  \/ RecoveryStep

Spec == Init /\ [][Next]_vars

(***************************************************************************)
(* Fairness: the scheduler and executor workers run every 500 ms, and the  *)
(* Go runtime lets every goroutine take its next step; a container that    *)
(* never answers is ended by the monitor's timeout.  Nothing forces a      *)
(* particular answer, a crash, or the control plane.                       *)
(***************************************************************************)
Fairness ==
  /\ WF_vars(SchedulerStep)
  /\ \A t \in Tasks : WF_vars(\E w \in W : StartAttempt(w, t))
  /\ \A w \in W : WF_vars(GoroutineStep(w))

FairSpec == Spec /\ Fairness

-----------------------------------------------------------------------------
(* Safety. *)

(* A task is being worked on from the moment its new attempt exists until   *)
(* its goroutine deletes the task's locks.                                  *)
Working(t) ==
  \/ attempt[t] = "new"
  \/ \E w \in W : wtask[w] = t /\ wpc[w] \in HoldingPC

(***************************************************************************)
(* Write-set locking (architecture 16.3): while a task is worked on it     *)
(* holds the lock of every target row it has, the rows a scope expansion   *)
(* added included, whatever the scheduler, the other goroutines, the wakers *)
(* and the recovery do meanwhile.  Only tasks in `exempt` escape: those an *)
(* executor picked up twice, those dispatched while an older goroutine of  *)
(* theirs was still alive, and those given a target row after dispatch.    *)
(***************************************************************************)
WriteSetsHeld ==
  mode = "up" =>
    \A t \in Tasks \ exempt :
      Working(t) => \A row \in target[t] : lock[row[2]] = t

(***************************************************************************)
(* What the documents claim of it (architecture 16.3: "Write-set locking   *)
(* prevents two Meeseeks from simultaneously modifying the same files"):   *)
(* no two tasks worked on at once share a file.  Locks protect keys, so it *)
(* fails where a file has two keys.                                        *)
(***************************************************************************)
WriteSetsDisjoint ==
  mode = "up" =>
    \A t, u \in Tasks \ exempt :
      t # u /\ Working(t) /\ Working(u) =>
        {row[1] : row \in target[t]} \cap {row[1] : row \in target[u]} = {}

(***************************************************************************)
(* No lock outlives its use: the task that holds a lock is being worked on *)
(* or is in the scheduler's hands, so somebody is there to release it.  A  *)
(* lock without an owner blocks its file until the next restart.           *)
(***************************************************************************)
NoOrphanLock ==
  mode = "up" =>
    \A k \in Keys :
      lock[k] # NoTask =>
        \/ lock[k] \in exempt
        \/ Working(lock[k])
        \/ stask = lock[k]

(***************************************************************************)
(* Dependency enforcement (architecture 15.5), as an invariant: a task that *)
(* is or was dispatched, or waits for locks, has every dependency done,    *)
(* through retries, requeues by wakers and restarts.                       *)
(***************************************************************************)
DependenciesDone ==
  \A t \in Tasks :
    status[t] \in {"in_progress", "waiting_on_lock", "done"} => DepsDone(t)

(***************************************************************************)
(* The concurrency limit: while dispatches do not fail, the tasks in       *)
(* progress and the slots the running tick still has never exceed it,      *)
(* although the count is read once per tick and goroutines change statuses *)
(* all along it.                                                           *)
(***************************************************************************)
ConcurrencyLimit ==
  ~Faults =>
    Cardinality({t \in Tasks : status[t] = "in_progress"}) <= MaxMeeseeks

(***************************************************************************)
(* What Recover leaves when it succeeds (architecture 22.3): no lock, no   *)
(* wait row, and no task in progress whose latest attempt is still open.   *)
(***************************************************************************)
RecoveryCleans ==
  [][mode # "up" /\ mode' = "up" =>
       /\ \A k \in Keys : lock[k] = NoTask
       /\ \A t \in Tasks : /\ wait[t] = {}
                           /\ status[t] = "in_progress" => attempt[t] = "ended"]_vars

(***************************************************************************)
(* What the documents claim of it (architecture 22.3): a startup evaluates *)
(* the wait rows again, requeues whose locks are free, and resumes.  Only  *)
(* another death of the process ends a recovery that rebuilds them.        *)
(***************************************************************************)
RebuildGoesOn == [][mode = "waits" /\ mode' = "down" => crashes' > crashes]_vars

(***************************************************************************)
(* The lock table is used as it promises: every step of every actor takes  *)
(* free keys only, gives back all of a task's keys, or wipes the table.    *)
(***************************************************************************)
Locks == INSTANCE LockTable WITH Owners <- Tasks, Free <- NoTask, holder <- lock

LockTableSpec == Locks!Spec

-----------------------------------------------------------------------------
(* Liveness. *)

(* Whoever takes a lock gives it back, through failures, merges, retries and *)
(* scope expansions.  A task in `exempt` may not: when the goroutine of an   *)
(* older attempt merges it, the attempt created meanwhile is never started   *)
(* and its locks stay with the finished task until the next restart.         *)
EveryLockReleased ==
  \A k \in Keys, t \in Tasks : (lock[k] = t) ~> (lock[k] # t \/ t \in exempt)

(* No task stays in progress for ever: its attempt is picked up and ends. *)
EveryAttemptEnds ==
  \A t \in Tasks : (status[t] = "in_progress") ~> (status[t] # "in_progress")

(* architecture 15.4: "waiting_on_lock -> queued (when blocking task        *)
(* releases locks)": a task that waits is requeued.                         *)
WaiterWoken ==
  \A t \in Tasks : (status[t] = "waiting_on_lock") ~> (status[t] # "waiting_on_lock")

=============================================================================
