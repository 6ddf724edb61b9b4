------------------------------ MODULE Pipeline ------------------------------
(***************************************************************************)
(* The way of a task's attempts from dispatch to commit: the phases an     *)
(* attempt goes through, the merge queue that commits its output, the      *)
(* retries and escalations that follow a failure, the orchestrator's       *)
(* approve_output and reject_output, and the recovery after a crash.       *)
(*                                                                         *)
(* The locks of Scheduler are left out: a queued task may be dispatched,   *)
(* a scope expansion may send it waiting, and some release may wake it.    *)
(* One action is one statement or one transaction of one actor.  The       *)
(* README names the reads that are part of the write they precede.         *)
(***************************************************************************)
EXTENDS TaskStates, Integers, Sequences, FiniteSets

CONSTANTS
  Tasks,              \* task rows of the active run
  NoTask,             \* no task
  FirstTier,          \* task |-> the tier it is created with
  MaxRetriesPerTier,  \* the limits of the retry policy
  MaxEscalations,
  MergeFaults,        \* may a merge be refused or fail?
  ScopeWaits,         \* tasks whose scope expansion may be refused
  Requests,           \* what the orchestrator may ask: "approve", "reject"
  MaxRequests,        \* bound on its requests
  MaxAttempts,        \* bound: task |-> the attempts it may have
  MaxCrashes          \* bound on the crashes of one behaviour

Tier == {"local", "cheap", "standard", "premium"}

ASSUME PipelineAssumption ==
  /\ NoTask \notin Tasks
  /\ FirstTier \in [Tasks -> Tier]
  /\ MaxRetriesPerTier \in Nat \ {0}
  /\ MaxEscalations \in Nat
  /\ MergeFaults \in BOOLEAN /\ ScopeWaits \subseteq Tasks
  /\ Requests \subseteq {"approve", "reject"}
  /\ MaxAttempts \in [Tasks -> Nat]
  /\ MaxRequests \in Nat /\ MaxCrashes \in Nat

VARIABLES
  status, tier,     \* tasks: status and tier
  tries,            \* task |-> its number of attempts
  phase, outcome,   \* task_attempts: phase and status
  atier, reason,    \* task_attempts: tier and failure_reason
  disp,             \* the task the scheduler is dispatching
  seen,             \* the attempt the executor has read and may start
  go,               \* attempt |-> where the goroutine that runs it is
  queue, mpc, item, \* the merge queue and its worker
  ctl, requests,    \* the orchestrator's request being served
  mode, rtask, crashes,        \* the process and its recovery
  commits,          \* history: task |-> the attempts committed for it
  rejected,         \* history: attempts whose rejection was acknowledged
  exempt            \* history: tasks the orchestrator or a stale start disturbed

rows     == <<status, tier, tries, phase, outcome, atier, reason>>
merger   == <<queue, mpc, item>>
control  == <<ctl, requests, rejected>>
process  == <<mode, rtask, crashes>>
vars     == <<rows, disp, seen, go, merger, control, process, commits, exempt>>

(* The n-th attempt of a task; its rows are "none" until it is created. *)
Attempt == UNION {{t} \X (1..MaxAttempts[t]) : t \in Tasks}
Latest(t) == <<t, tries[t]>>
AttemptsOf(t) == {t} \X (1..tries[t])

NoAttempt == <<NoTask, 0>>
NothingMerging == [attempt |-> NoAttempt, files |-> FALSE]
NoRequest == [pc |-> "idle", attempt |-> NoAttempt, running |-> FALSE]

(* What a goroutine does next: work in a phase, wait for an expansion, hand *)
(* its item over, or a step of failAttempt and HandleTaskFailure.           *)
Stage == {"none", "executing", "expanding", "parked", "validating", "reviewing",
          "awaiting_orchestrator_gate", "queued_for_merge", "fail", "fail_phase",
          "fail_status", "reload_task", "fail_task", "handle", "requeue"}

MergePC == {"idle", "apply", "complete", "succeed", "pass",
            "mark_failed", "reload_task", "fail_task", "requeue"}

Reasons == {"none", "pipeline", "merge", "restart", "rejected"}

TypeOK ==
  /\ status \in [Tasks -> TaskStatus]
  /\ tier \in [Tasks -> Tier]
  /\ tries \in [Tasks -> Nat]
  /\ phase \in [Attempt -> AttemptPhase \cup {"none"}]
  /\ outcome \in [Attempt -> AttemptStatus \cup {"none"}]
  /\ atier \in [Attempt -> Tier \cup {"none"}]
  /\ reason \in [Attempt -> Reasons]
  /\ disp \in Tasks \cup {NoTask}
  /\ seen \in (Tasks \X Nat) \cup {NoAttempt}
  /\ go \in [Attempt -> Stage]
  /\ queue \in Seq([attempt : Attempt, files : BOOLEAN])
  /\ mpc \in MergePC
  /\ item \in [attempt : Attempt, files : BOOLEAN] \cup {NothingMerging}
  /\ ctl \in [pc : {"enqueue", "reject_status", "reject_task"},
              attempt : Attempt, running : BOOLEAN] \cup {NoRequest}
  /\ requests \in Nat
  /\ mode \in {"up", "scan", "close", "reset", "refused"}
  /\ rtask \in Tasks \cup {NoTask}
  /\ crashes \in Nat
  /\ commits \in [Tasks -> Seq(Nat)]
  /\ rejected \in SUBSET Attempt
  /\ exempt \in SUBSET Tasks

Init ==
  /\ status = [t \in Tasks |-> "queued"]
  /\ tier = FirstTier
  /\ tries = [t \in Tasks |-> 0]
  /\ phase = [a \in Attempt |-> "none"]
  /\ outcome = [a \in Attempt |-> "none"]
  /\ atier = [a \in Attempt |-> "none"]
  /\ reason = [a \in Attempt |-> "none"]
  /\ disp = NoTask /\ seen = NoAttempt
  /\ go = [a \in Attempt |-> "none"]
  /\ queue = <<>> /\ mpc = "idle" /\ item = NothingMerging
  /\ ctl = NoRequest /\ requests = 0 /\ rejected = {} /\ exempt = {}
  /\ mode = "up" /\ rtask = NoTask /\ crashes = 0
  /\ commits = [t \in Tasks |-> <<>>]

-----------------------------------------------------------------------------
(* The scheduler: the task row, then the attempt row. *)

Dispatch(t) ==
  /\ mode = "up" /\ disp = NoTask /\ status[t] = "queued"
  /\ tries[t] < MaxAttempts[t]
  /\ status' = UpdateTaskStatus(status, t, "in_progress")
  /\ disp' = t
  /\ UNCHANGED <<tier, tries, phase, outcome, atier, reason, seen, go, merger, control,
                 process, commits, exempt>>

CreateAttempt ==
  /\ disp # NoTask
  /\ LET new == <<disp, tries[disp] + 1>>
     IN  /\ phase' = [phase EXCEPT ![new] = "executing"]
         /\ outcome' = [outcome EXCEPT ![new] = "running"]
         /\ atier' = [atier EXCEPT ![new] = tier[disp]]
  /\ tries' = [tries EXCEPT ![disp] = @ + 1]
  /\ disp' = NoTask
  /\ UNCHANGED <<status, tier, reason, seen, go, merger, control, process, commits,
                 exempt>>

(* Some release wakes a task whose expansion was refused (see Scheduler). *)
WakeWaiter(t) ==
  /\ mode = "up" /\ status[t] = "waiting_on_lock"
  /\ status' = UpdateTaskStatus(status, t, "queued")
  /\ UNCHANGED <<tier, tries, phase, outcome, atier, reason, disp, seen, go, merger,
                 control, process, commits, exempt>>

-----------------------------------------------------------------------------
(* The goroutine of an attempt. *)

Goto(a, stage) == go' = [go EXCEPT ![a] = stage]

(* executorLoop reads the tasks in progress and the latest attempt of each, *)
(* which may be over when it is started.                                    *)
Startable(a) ==
  status[a[1]] = "in_progress" /\ outcome[a] = "running" /\ phase[a] = "executing"

LatestRunningAttempt(t) ==
  /\ mode = "up" /\ seen = NoAttempt
  /\ tries[t] > 0 /\ Startable(Latest(t))
  /\ seen' = Latest(t)
  /\ UNCHANGED <<rows, disp, go, merger, control, process, commits, exempt>>

(* activeAttempts lets an attempt have one goroutine.  The start is stale   *)
(* when the task has moved on, and when it is being dispatched: between the *)
(* two statements of a dispatch the latest attempt is still the one before, *)
(* which may have been abandoned for a lock.                                *)
StaleStart(a) == ~Startable(a) \/ a # Latest(a[1]) \/ disp = a[1]

StartAttempt ==
  /\ seen # NoAttempt
  /\ IF go[seen] = "none"
     THEN /\ Goto(seen, "executing")
          /\ exempt' = IF StaleStart(seen) THEN exempt \cup {seen[1]} ELSE exempt
     ELSE UNCHANGED <<go, exempt>>
  /\ seen' = NoAttempt
  /\ UNCHANGED <<rows, disp, merger, control, process, commits>>

(* runAttempt from one UpdateAttemptPhase to the next: what lies between    *)
(* succeeds, and the write is refused when the phase moved meanwhile.       *)
Advance(a) ==
  /\ go[a] \in {"executing", "validating", "reviewing", "awaiting_orchestrator_gate"}
  /\ phase' = UpdateAttemptPhase(phase, a, NextPhase[go[a]])
  /\ Goto(a, IF ValidPhaseTransition(phase[a], NextPhase[go[a]])
             THEN NextPhase[go[a]] ELSE "fail")
  /\ UNCHANGED <<status, tier, tries, outcome, atier, reason, disp, seen, merger, control,
                 process, commits, exempt>>

(* The container, validation or review fails.  At the gate nothing can: the *)
(* gate asks for the verdict that has just been checked.                    *)
StepFails(a) ==
  /\ go[a] \in {"executing", "validating", "reviewing"}
  /\ Goto(a, "fail")
  /\ UNCHANGED <<rows, disp, seen, merger, control, process, commits, exempt>>

(* RequestScopeExpansion finds the task in progress and the files locked;   *)
(* it then parks the task, with a wait row that lets it be woken.           *)
RequestScopeExpansion(a) ==
  /\ a[1] \in ScopeWaits /\ go[a] = "executing" /\ status[a[1]] = "in_progress"
  /\ Goto(a, "expanding")
  /\ UNCHANGED <<rows, disp, seen, merger, control, process, commits, exempt>>

ParkForExpansion(a) ==
  /\ go[a] = "expanding"
  /\ status' = UpdateTaskStatus(status, a[1], "waiting_on_lock")
  /\ Goto(a, IF ValidTaskTransition(status[a[1]], "waiting_on_lock")
             THEN "parked" ELSE "fail")
  /\ UNCHANGED <<tier, tries, phase, outcome, atier, reason, disp, seen, merger, control,
                 process, commits, exempt>>

(* mutant: the wait for locks does not end the attempt's goroutine *)
ReloadAndGoOn(a) ==
  /\ go[a] = "parked"
  /\ Goto(a, "executing")
  /\ UNCHANGED <<rows, disp, seen, merger, control, process, commits, exempt>>

(* The status is read back: a task still waiting ends the goroutine and     *)
(* leaves the attempt running, without anybody to run it; one that was      *)
(* woken meanwhile is taken for one whose files were granted.               *)
ReloadAfterExpansion(a) ==
  /\ go[a] = "parked"
  /\ IF status[a[1]] = "waiting_on_lock"
     THEN Goto(a, "none") /\ exempt' = exempt
     ELSE Goto(a, "executing") /\ exempt' = exempt \cup {a[1]}
  /\ UNCHANGED <<rows, disp, seen, merger, control, process, commits>>

EnqueueMerge(a) ==
  /\ go[a] = "queued_for_merge"
  /\ queue' = Append(queue, [attempt |-> a, files |-> TRUE])
  /\ Goto(a, "none")
  /\ UNCHANGED <<rows, disp, seen, mpc, item, control, process, commits, exempt>>

-----------------------------------------------------------------------------
(* failAttempt: the attempt row is read once; phase and status are written  *)
(* one after the other unless already terminal, and a write that is refused *)
(* ends failAttempt there.                                                  *)

ReloadAttempt(a) ==
  /\ go[a] = "fail"
  /\ Goto(a, IF phase[a] \notin TerminalPhase THEN "fail_phase"
             ELSE IF outcome[a] = "running" THEN "fail_status" ELSE "reload_task")
  /\ UNCHANGED <<rows, disp, seen, merger, control, process, commits, exempt>>

(* mutant: the status is written before the phase *)
FailStatusFirst(a) ==
  /\ go[a] = "fail_phase"
  /\ outcome' = UpdateAttemptStatus(outcome, a, "failed")
  /\ Goto(a, "fail_status")
  /\ UNCHANGED <<status, tier, tries, phase, atier, reason, disp, seen, merger, control,
                 process, commits, exempt>>

FailPhase(a) ==
  /\ go[a] = "fail_phase"
  /\ phase' = UpdateAttemptPhase(phase, a, "failed")
  /\ Goto(a, IF ValidPhaseTransition(phase[a], "failed") THEN "fail_status" ELSE "none")
  /\ UNCHANGED <<status, tier, tries, outcome, atier, reason, disp, seen, merger, control,
                 process, commits, exempt>>

FailStatus(a) ==
  /\ go[a] = "fail_status"
  /\ outcome' = UpdateAttemptStatus(outcome, a, "failed")
  /\ Goto(a, IF ValidAttemptTransition(outcome[a], "failed") THEN "reload_task" ELSE "none")
  /\ UNCHANGED <<status, tier, tries, phase, atier, reason, disp, seen, merger, control,
                 process, commits, exempt>>

(* The task row is read and, if it was in progress, written.                *)
ReloadTask(a) ==
  /\ go[a] = "reload_task"
  /\ reason' = [reason EXCEPT ![a] = "pipeline"]
  /\ Goto(a, IF status[a[1]] = "in_progress" THEN "fail_task" ELSE "handle")
  /\ UNCHANGED <<status, tier, tries, phase, outcome, atier, disp, seen, merger, control,
                 process, commits, exempt>>

(* mutant: failAttempt ends without asking the retry policy *)
FailTaskOnly(a) ==
  /\ go[a] = "fail_task"
  /\ status' = UpdateTaskStatus(status, a[1], "failed")
  /\ Goto(a, "none")
  /\ UNCHANGED <<tier, tries, phase, outcome, atier, reason, disp, seen, merger, control,
                 process, commits, exempt>>

FailTask(a) ==
  /\ go[a] = "fail_task"
  /\ status' = UpdateTaskStatus(status, a[1], "failed")
  /\ Goto(a, IF ValidTaskTransition(status[a[1]], "failed") THEN "handle" ELSE "none")
  /\ UNCHANGED <<tier, tries, phase, outcome, atier, reason, disp, seen, merger, control,
                 process, commits, exempt>>

(* The counters of the retry policy, both taken from the attempt rows.  An  *)
(* escalation is seen once the new tier has an attempt.                     *)
AttemptsAtCurrentTier(t) ==
  Cardinality({a \in AttemptsOf(t) : atier[a] = tier[t]})
Escalations(t) ==
  IF tries[t] = 0 THEN 0 ELSE Cardinality({atier[a] : a \in AttemptsOf(t)}) - 1

TierEscalation == [local |-> "cheap", cheap |-> "standard", standard |-> "premium"]

(* mutant: the limit itself still lets a retry through *)
MayRetryOnce(t) == AttemptsAtCurrentTier(t) <= MaxRetriesPerTier
MayRetry(t) == AttemptsAtCurrentTier(t) < MaxRetriesPerTier
MayEscalate(t) == tier[t] \in DOMAIN TierEscalation /\ Escalations(t) < MaxEscalations

(* HandleTaskFailure: nothing for a task that is not failed... *)
RefuseToHandle(a) ==
  /\ go[a] = "handle" /\ status[a[1]] # "failed"
  /\ Goto(a, "none")
  /\ UNCHANGED <<rows, disp, seen, merger, control, process, commits, exempt>>

(* ...then retry at the same tier, else escalate, else block. *)
RetryTask(a) ==
  /\ go[a] = "handle" /\ status[a[1]] = "failed" /\ MayRetry(a[1])
  /\ status' = UpdateTaskStatus(status, a[1], "queued")
  /\ Goto(a, "none")
  /\ UNCHANGED <<tier, tries, phase, outcome, atier, reason, disp, seen, merger, control,
                 process, commits, exempt>>

EscalateTask(a) ==
  /\ go[a] = "handle" /\ status[a[1]] = "failed"
  /\ ~MayRetry(a[1]) /\ MayEscalate(a[1])
  /\ tier' = [tier EXCEPT ![a[1]] = TierEscalation[@]]
  /\ Goto(a, "requeue")
  /\ UNCHANGED <<status, tries, phase, outcome, atier, reason, disp, seen, merger, control,
                 process, commits, exempt>>

RequeueEscalated(a) ==
  /\ go[a] = "requeue"
  /\ status' = UpdateTaskStatus(status, a[1], "queued")
  /\ Goto(a, "none")
  /\ UNCHANGED <<tier, tries, phase, outcome, atier, reason, disp, seen, merger, control,
                 process, commits, exempt>>

BlockTask(a) ==
  /\ go[a] = "handle" /\ status[a[1]] = "failed"
  /\ ~MayRetry(a[1]) /\ ~MayEscalate(a[1])
  /\ status' = UpdateTaskStatus(status, a[1], "blocked")
  /\ Goto(a, "none")
  /\ UNCHANGED <<tier, tries, phase, outcome, atier, reason, disp, seen, merger, control,
                 process, commits, exempt>>

-----------------------------------------------------------------------------
(* The merge queue: one item at a time, in the order of arrival. *)

Merging(pc) == mpc' = pc /\ item' = item
MergeDone == mpc' = "idle" /\ item' = NothingMerging

(* mutant: the item is read without being taken off the queue *)
TakeItemAgain ==
  /\ mode = "up" /\ mpc = "idle" /\ queue # <<>>
  /\ item' = Head(queue) /\ queue' = queue
  /\ phase' = UpdateAttemptPhase(phase, Head(queue).attempt, "merging")
  /\ mpc' = "apply"
  /\ UNCHANGED <<status, tier, tries, outcome, atier, reason, disp, seen, go, control,
                 process, commits, exempt>>

(* dequeue, and MarkMerging, whose refusal is only logged. *)
TakeItem ==
  /\ mode = "up" /\ mpc = "idle" /\ queue # <<>>
  /\ item' = Head(queue) /\ queue' = Tail(queue)
  /\ phase' = UpdateAttemptPhase(phase, Head(queue).attempt, "merging")
  /\ mpc' = "apply"
  /\ UNCHANGED <<status, tier, tries, outcome, atier, reason, disp, seen, go, control,
                 process, commits, exempt>>

(* mutant: an item without files is taken for one that changes nothing *)
CommitEvenEmpty ==
  /\ mpc = "apply"
  /\ commits' = IF item.files
                THEN [commits EXCEPT ![item.attempt[1]] = Append(@, item.attempt[2])]
                ELSE commits
  /\ Merging("complete")
  /\ UNCHANGED <<rows, disp, seen, go, queue, control, process, exempt>>

(* mutant: an error after the commit (re-indexing) fails the item *)
CommitThenFail ==
  /\ mpc = "apply" /\ item.files
  /\ commits' = [commits EXCEPT ![item.attempt[1]] = Append(@, item.attempt[2])]
  /\ mpc' \in {"complete", "reload_task"} /\ item' = item
  /\ UNCHANGED <<rows, disp, seen, go, queue, control, process, exempt>>

(* From the look at HEAD to the commit.  An item without files cannot get   *)
(* there: AddFiles refuses an empty list.                                   *)
CommitItem ==
  /\ mpc = "apply" /\ item.files
  /\ commits' = [commits EXCEPT ![item.attempt[1]] = Append(@, item.attempt[2])]
  /\ Merging("complete")
  /\ UNCHANGED <<rows, disp, seen, go, queue, control, process, exempt>>

(* mutant: CompleteTask writes a status the table does not know *)
CompleteTaskRaw ==
  /\ mpc = "complete"
  /\ status' = [status EXCEPT ![item.attempt[1]] = "succeeded"]
  /\ Merging("succeed")
  /\ UNCHANGED <<tier, tries, phase, outcome, atier, reason, disp, seen, go, queue, control,
                 process, commits, exempt>>

(* CompleteTask, whose refusal is only logged. *)
CompleteTask ==
  /\ mpc = "complete"
  /\ status' = UpdateTaskStatus(status, item.attempt[1], "done")
  /\ Merging("succeed")
  /\ UNCHANGED <<tier, tries, phase, outcome, atier, reason, disp, seen, go, queue, control,
                 process, commits, exempt>>

(* MarkSucceeded: the phase, then, if that was accepted, the status. *)
MarkSucceeded ==
  /\ mpc = "succeed"
  /\ phase' = UpdateAttemptPhase(phase, item.attempt, "succeeded")
  /\ IF ValidPhaseTransition(phase[item.attempt], "succeeded")
     THEN Merging("pass") ELSE MergeDone
  /\ UNCHANGED <<status, tier, tries, outcome, atier, reason, disp, seen, go, queue, control,
                 process, commits, exempt>>

MarkPassed ==
  /\ mpc = "pass"
  /\ outcome' = UpdateAttemptStatus(outcome, item.attempt, "passed")
  /\ MergeDone
  /\ UNCHANGED <<status, tier, tries, phase, atier, reason, disp, seen, go, queue, control,
                 process, commits, exempt>>

(* mutant: failItem requeues the task and leaves the attempt as it is *)
RefuseItemOnly ==
  /\ mpc = "apply" /\ (MergeFaults \/ ~item.files)
  /\ Merging("reload_task")
  /\ UNCHANGED <<rows, disp, seen, go, queue, control, process, commits, exempt>>

(* failItem: MarkFailed, a conflict, a failed check or git having stopped   *)
(* the merge.  The status is written only if the phase was accepted.        *)
RefuseItem ==
  /\ mpc = "apply" /\ (MergeFaults \/ ~item.files)
  /\ phase' = UpdateAttemptPhase(phase, item.attempt, "failed")
  /\ Merging(IF ValidPhaseTransition(phase[item.attempt], "failed")
             THEN "mark_failed" ELSE "reload_task")
  /\ UNCHANGED <<status, tier, tries, outcome, atier, reason, disp, seen, go, queue, control,
                 process, commits, exempt>>

MarkFailed ==
  /\ mpc = "mark_failed"
  /\ outcome' = UpdateAttemptStatus(outcome, item.attempt, "failed")
  /\ reason' = IF ValidAttemptTransition(outcome[item.attempt], "failed")
               THEN [reason EXCEPT ![item.attempt] = "merge"] ELSE reason
  /\ Merging("reload_task")
  /\ UNCHANGED <<status, tier, tries, phase, atier, disp, seen, go, queue, control, process,
                 commits, exempt>>

(* RequeueTask of the engine: the task row is read; a task in progress is   *)
(* failed first, then queued, whatever attempt of it the item was for.      *)
ReloadMergedTask ==
  /\ mpc = "reload_task"
  /\ Merging(IF status[item.attempt[1]] = "in_progress" THEN "fail_task" ELSE "requeue")
  /\ UNCHANGED <<rows, disp, seen, go, queue, control, process, commits, exempt>>

FailMergedTask ==
  /\ mpc = "fail_task"
  /\ status' = UpdateTaskStatus(status, item.attempt[1], "failed")
  /\ IF ValidTaskTransition(status[item.attempt[1]], "failed")
     THEN Merging("requeue") ELSE MergeDone
  /\ UNCHANGED <<tier, tries, phase, outcome, atier, reason, disp, seen, go, queue, control,
                 process, commits, exempt>>

RequeueTask ==
  /\ mpc = "requeue"
  /\ status' = UpdateTaskStatus(status, item.attempt[1], "queued")
  /\ MergeDone
  /\ UNCHANGED <<tier, tries, phase, outcome, atier, reason, disp, seen, go, queue, control,
                 process, commits, exempt>>

-----------------------------------------------------------------------------
(* The orchestrator's requests, on any attempt at any time; one is served   *)
(* at a time.                                                               *)

NewRequest(kind, a, next) ==
  /\ mode = "up" /\ ctl = NoRequest
  /\ kind \in Requests /\ requests < MaxRequests
  /\ a[2] <= tries[a[1]]
  /\ requests' = requests + 1
  /\ exempt' = exempt \cup {a[1]}
  /\ ctl' = [pc |-> next, attempt |-> a, running |-> status[a[1]] = "in_progress"]

(* ApproveTaskOutput: the phase, best effort, then an item without files. *)
ApproveTaskOutput(a) ==
  /\ NewRequest("approve", a, "enqueue")
  /\ phase' = UpdateAttemptPhase(phase, a, "queued_for_merge")
  /\ UNCHANGED <<status, tier, tries, outcome, atier, reason, disp, seen, go, merger,
                 rejected, process, commits>>

EnqueueApproved ==
  /\ ctl.pc = "enqueue"
  /\ queue' = Append(queue, [attempt |-> ctl.attempt, files |-> FALSE])
  /\ ctl' = NoRequest
  /\ UNCHANGED <<rows, disp, seen, go, mpc, item, requests, rejected, process,
                 commits, exempt>>

(* RejectTaskOutput: the reason and the phase, the status, and the task if  *)
(* it was in progress when the request arrived; refusals are only logged.   *)
RejectTaskOutput(a) ==
  /\ NewRequest("reject", a, "reject_status")
  /\ reason' = [reason EXCEPT ![a] = "rejected"]
  /\ phase' = UpdateAttemptPhase(phase, a, "failed")
  /\ UNCHANGED <<status, tier, tries, outcome, atier, disp, seen, go, merger, rejected,
                 process, commits>>

RejectAttempt ==
  /\ ctl.pc = "reject_status"
  /\ outcome' = UpdateAttemptStatus(outcome, ctl.attempt, "failed")
  /\ ctl' = [ctl EXCEPT !.pc = "reject_task"]
  /\ UNCHANGED <<status, tier, tries, phase, atier, reason, disp, seen, go, merger, requests,
                 rejected, process, commits, exempt>>

RejectTask ==
  /\ ctl.pc = "reject_task"
  /\ status' = IF ctl.running THEN UpdateTaskStatus(status, ctl.attempt[1], "failed")
               ELSE status
  /\ rejected' = rejected \cup {ctl.attempt}
  /\ ctl' = NoRequest
  /\ UNCHANGED <<tier, tries, phase, outcome, atier, reason, disp, seen, go, merger, requests,
                 process, commits, exempt>>

-----------------------------------------------------------------------------
(* A crash loses everything but the tables and the repository; recovery     *)
(* goes through the tasks in progress before any worker starts.             *)

Crash ==
  /\ mode # "refused" /\ crashes < MaxCrashes
  /\ crashes' = crashes + 1 /\ mode' = "scan" /\ rtask' = NoTask
  /\ disp' = NoTask /\ seen' = NoAttempt /\ go' = [a \in Attempt |-> "none"]
  /\ queue' = <<>> /\ MergeDone /\ ctl' = NoRequest
  /\ UNCHANGED <<rows, requests, rejected, commits, exempt>>

(* The tasks recovery requeues; one whose latest attempt has reached a      *)
(* terminal phase is skipped.                                               *)
Stale(t) ==
  /\ status[t] = "in_progress"
  /\ \A a \in AttemptsOf(t) : a = Latest(t) => phase[a] \notin TerminalPhase

CloseStalePhase(t) ==
  /\ mode = "scan" /\ Stale(t) /\ tries[t] > 0
  /\ phase' = UpdateAttemptPhase(phase, Latest(t), "failed")
  /\ rtask' = t /\ mode' = "close"
  /\ UNCHANGED <<status, tier, tries, outcome, atier, reason, disp, seen, go, merger, control,
                 crashes, commits, exempt>>

(* A refused write makes Recover, and with it the startup, fail. *)
CloseStaleStatus ==
  /\ mode = "close"
  /\ outcome' = UpdateAttemptStatus(outcome, Latest(rtask), "failed")
  /\ IF ValidAttemptTransition(outcome[Latest(rtask)], "failed")
     THEN /\ reason' = [reason EXCEPT ![Latest(rtask)] = "restart"]
          /\ mode' = "reset"
     ELSE reason' = reason /\ mode' = "refused"
  /\ UNCHANGED <<status, tier, tries, phase, atier, disp, seen, go, merger, control, rtask,
                 crashes, commits, exempt>>

(* The task row is written without a look at the table of moves. *)
RequeueStaleTask(t) ==
  /\ \/ mode = "reset" /\ t = rtask
     \/ mode = "scan" /\ Stale(t) /\ tries[t] = 0
  /\ status' = [status EXCEPT ![t] = "queued"]
  /\ rtask' = NoTask /\ mode' = "scan"
  /\ UNCHANGED <<tier, tries, phase, outcome, atier, reason, disp, seen, go, merger, control,
                 crashes, commits, exempt>>

FinishRecovery ==
  /\ mode = "scan" /\ \A t \in Tasks : ~Stale(t)
  /\ mode' = "up"
  /\ UNCHANGED <<rows, disp, seen, go, merger, control, rtask, crashes, commits, exempt>>

-----------------------------------------------------------------------------
SchedulerStep == (\E t \in Tasks : Dispatch(t)) \/ CreateAttempt

ExpansionStep(a) ==
  RequestScopeExpansion(a) \/ ParkForExpansion(a) \/ ReloadAfterExpansion(a)

FailStep(a) ==
  ReloadAttempt(a) \/ FailPhase(a) \/ FailStatus(a) \/ ReloadTask(a) \/ FailTask(a)

HandleStep(a) ==
  RefuseToHandle(a) \/ RetryTask(a) \/ EscalateTask(a) \/ RequeueEscalated(a) \/ BlockTask(a)

GoStep(a) ==
  \/ Advance(a) \/ StepFails(a) \/ ExpansionStep(a) \/ EnqueueMerge(a)
  \/ FailStep(a) \/ HandleStep(a)

MergeStep ==
  \/ TakeItem \/ CommitItem \/ CompleteTask \/ MarkSucceeded \/ MarkPassed
  \/ RefuseItem \/ MarkFailed \/ ReloadMergedTask \/ FailMergedTask \/ RequeueTask

ServeRequest == EnqueueApproved \/ RejectAttempt \/ RejectTask

RecoveryStep ==
  \/ \E t \in Tasks : CloseStalePhase(t) \/ RequeueStaleTask(t)
  \/ CloseStaleStatus \/ FinishRecovery

Next ==
  \/ SchedulerStep
  \/ \E t \in Tasks : WakeWaiter(t) \/ LatestRunningAttempt(t)
  \/ StartAttempt
  \/ \E a \in Attempt : GoStep(a)
  \/ MergeStep
  \/ \E a \in Attempt : ApproveTaskOutput(a) \/ RejectTaskOutput(a)
  \/ ServeRequest
  \/ Crash
  \/ RecoveryStep

Spec == Init /\ [][Next]_vars

(***************************************************************************)
(* Fairness: the Go runtime runs every goroutine and request handler, a    *)
(* container that never answers is ended by a timeout, and the merge       *)
(* worker ticks every 500 ms.                                              *)
(* Nothing forces a dispatch, a start, a request, a waiter to be woken, a  *)
(* crash or a restart.                                                     *)
(***************************************************************************)
Fairness ==
  /\ \A a \in Attempt : WF_vars(GoStep(a))
  /\ WF_vars(MergeStep)
  /\ WF_vars(ServeRequest)

FairSpec == Spec /\ Fairness

-----------------------------------------------------------------------------
(* Safety. *)

(* An attempt is in play while somebody may still write on its behalf.  A   *)
(* parked goroutine only reads, unless it finds its task woken.             *)
Queued(a) == \E i \in 1..Len(queue) : queue[i].attempt = a
InPlay(a) == go[a] \notin {"none", "parked"} \/ Queued(a) \/ item.attempt = a

(***************************************************************************)
(* One attempt at a time: across retries, escalations, refused merges,     *)
(* lock waits and restarts, the only attempt of a task anybody works on is *)
(* its latest, and none is in play while the next one is being created.    *)
(* Three things break this, and excuse the task from then on: a request of *)
(* the orchestrator (on an older attempt, it requeues the task under the   *)
(* newer one), a stale start, and a waiter woken before its goroutine has  *)
(* read the status back.                                                   *)
(***************************************************************************)
OneInPlay ==
  \A a \in Attempt :
    a[1] \notin exempt /\ InPlay(a) => a = Latest(a[1]) /\ disp # a[1]

(***************************************************************************)
(* What is committed is the output of the task's latest attempt, approved  *)
(* (in phase merging), for a task still in progress: nothing older, and    *)
(* nothing after done (architecture 16.4).                                 *)
(***************************************************************************)
CommitsAreCurrent ==
  [][\A t \in Tasks \ exempt :
       commits'[t] # commits[t] =>
         /\ status[t] = "in_progress"
         /\ item.attempt = Latest(t)
         /\ phase[Latest(t)] = "merging"]_vars

(***************************************************************************)
(* A task is committed at most once, and once more for each restart: the   *)
(* commit is in git before the tables know of it, and recovery cannot tell.*)
(***************************************************************************)
CommittedOnce ==
  \A t \in Tasks \ exempt : Len(commits[t]) <= 1 + crashes

(***************************************************************************)
(* A task counts as done, and its dependents start, only when output of it *)
(* is in the repository, whatever the orchestrator requests and whenever   *)
(* the process dies.                                                       *)
(***************************************************************************)
DoneIsCommitted ==
  \A t \in Tasks : status[t] = "done" => commits[t] # <<>>

(***************************************************************************)
(* Recovery rests on every writer closing an attempt's phase before its    *)
(* status: a latest attempt with an open phase and a closed status would   *)
(* make requeueStaleInProgressTasks, and with it every later startup,      *)
(* fail.  Only that step of Recover is meant, not the rebuild of the wait  *)
(* rows or the check of the SRS that follow it.                            *)
(***************************************************************************)
ClosingAccepted == mode # "refused"

(***************************************************************************)
(* architecture 30.1, "Max 3 retries at the same model tier", as far as    *)
(* the code keeps it: of the attempts that failed by themselves no more    *)
(* than MaxRetriesPerTier are at one tier, although they share the counter *)
(* with attempts ended by merges, lock waits and restarts, which nothing   *)
(* bounds.                                                                 *)
(***************************************************************************)
RetriesBounded ==
  \A t \in Tasks \ exempt, x \in Tier :
    Cardinality({a \in AttemptsOf(t) : atier[a] = x /\ reason[a] = "pipeline"})
      <= MaxRetriesPerTier

(***************************************************************************)
(* reject_output is acknowledged, so the output is not merged afterwards   *)
(* (docs/approval-pipeline.md: after an orchestrator rejection a fresh     *)
(* Meeseeks is spawned).  The item may be waiting in the merge queue,      *)
(* which asks nobody.                                                      *)
(***************************************************************************)
RejectedNotCommitted ==
  [][\A a \in rejected :
       commits'[a[1]] = commits[a[1]] \/ item.attempt # a]_vars

-----------------------------------------------------------------------------
(* Liveness. *)

(* A failed task is retried, escalated or blocked, never left failed.       *)
(* A crash before HandleTaskFailure does leave it: recovery looks at tasks  *)
(* in progress only.  So does a rejection.                                  *)
FailureHandled ==
  \A t \in Tasks :
    (status[t] = "failed") ~> (status[t] # "failed" \/ t \in exempt \/ crashes > 0)

(* Whatever enters the merge queue, requests of the orchestrator included,  *)
(* ends with its attempt closed, unless the process dies.                   *)
ItemDecided ==
  \A a \in Attempt :
    Queued(a) ~> (outcome[a] # "running" \/ crashes > 0)

=============================================================================
