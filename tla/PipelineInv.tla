----------------------------- MODULE PipelineInv -----------------------------
(***************************************************************************)
(* The inductive invariants behind the safety properties of Pipeline.      *)
(***************************************************************************)
EXTENDS Pipeline

(* A task has at most its bound of attempts, the one being created included. *)
Bounded ==
  /\ disp # NoTask => tries[disp] < MaxAttempts[disp]
  /\ \A t \in Tasks : tries[t] <= MaxAttempts[t]

(* While the engine is not up nobody but its recovery has anything to do. *)
Quiet ==
  mode # "up" =>
    /\ disp = NoTask /\ seen = NoAttempt /\ mpc = "idle" /\ ctl.pc = "idle"
    /\ \A a \in Attempt : go[a] = "none"

(* The merge worker holds an item while it works. *)
ItemHeld == mpc # "idle" => item.attempt \in Attempt

(* The rows of an attempt are filled in when it is created, and only then. *)
Rows ==
  \A a \in Attempt :
    /\ a[2] <= tries[a[1]] <=> phase[a] # "none"
    /\ a[2] <= tries[a[1]] <=> outcome[a] # "none"

(* The phase of an attempt reaches a terminal one before its status leaves  *)
(* "running", whoever writes them.                                          *)
PhaseFirst ==
  /\ \A a \in Attempt :
       /\ outcome[a] \in {"none", "running"} \/ phase[a] \in TerminalPhase
       /\ go[a] = "fail_status" => phase[a] \in TerminalPhase
  /\ mpc \in {"pass", "mark_failed"} => phase[item.attempt] \in TerminalPhase
  /\ ctl.pc = "reject_status" => phase[ctl.attempt] \in TerminalPhase
  /\ mode = "close" => phase[Latest(rtask)] \in TerminalPhase

(* What the recovery closes was still running. *)
CloseAccepted ==
  /\ mode = "close" => outcome[Latest(rtask)] = "running"
  /\ mode # "refused"

(* Nothing refuses what the recovery writes. *)
Recoverable == Bounded /\ Quiet /\ ItemHeld /\ Rows /\ PhaseFirst /\ CloseAccepted

(* The task the merge queue completes has been committed. *)
CompletedIsCommitted == mpc = "complete" => commits[item.attempt[1]] # <<>>

Committed == CompletedIsCommitted /\ DoneIsCommitted

(* The stages at which a goroutine, and the steps at which the merge worker, *)
(* still takes its task for one in progress.                                 *)
Working == {"executing", "expanding", "validating", "reviewing",
            "awaiting_orchestrator_gate", "queued_for_merge", "fail", "fail_phase",
            "fail_status", "reload_task", "fail_task"}
Deciding == {"apply", "complete", "mark_failed", "reload_task", "fail_task"}

Busy(a) == go[a] \notin {"none", "parked"}

(* One hand at a time holds an attempt: its goroutine, one place in the     *)
(* queue, or the merge worker.                                              *)
OnePlace(a) ==
  \A i, j \in 1..Len(queue) :
    queue[i].attempt = a /\ queue[j].attempt = a => i = j

OneHolder(a) ==
  /\ Busy(a) => ~Queued(a) /\ item.attempt # a
  /\ Queued(a) => item.attempt # a
  /\ OnePlace(a)

(* Whoever holds an attempt knows the status of its task... *)
StatusKnown(a) ==
  /\ go[a] \in Working \/ Queued(a) => status[a[1]] = "in_progress"
  /\ go[a] \in {"handle", "requeue"} => status[a[1]] = "failed"
  /\ item.attempt = a =>
       /\ mpc \in Deciding => status[a[1]] = "in_progress"
       /\ mpc = "requeue" => status[a[1]] = "failed"
       /\ mpc \in {"succeed", "pass"} => status[a[1]] = "done"

(* ...and, from the approval to the commit, its phase. *)
PhaseKnown(a) ==
  /\ go[a] = "queued_for_merge" \/ Queued(a) => phase[a] = "queued_for_merge"
  /\ item.attempt = a => phase[a] \notin {"none", "executing"}
  /\ item.attempt = a /\ mpc = "apply" => phase[a] = "merging"

(* Nobody else holds an attempt of the task, and none is being created. *)
LatestOnly(a) == InPlay(a) => a = Latest(a[1]) /\ disp # a[1]

Sole(a) == LatestOnly(a) /\ OneHolder(a) /\ StatusKnown(a) /\ PhaseKnown(a)

Undisturbed == \A a \in Attempt : a[1] \notin exempt => Sole(a)

(* What a dead process held is gone, and a request disturbs its task.       *)
Released ==
  /\ mpc = "idle" => item = NothingMerging
  /\ mode # "up" => queue = <<>>
  /\ ctl.pc # "idle" => ctl.attempt[1] \in exempt

(* What the recovery requeues is in progress. *)
RequeuesRunning ==
  mode \in {"close", "reset"} => rtask \in Tasks /\ status[rtask] = "in_progress"

(* A commit is paid for by the task being done, or about to be, or by a crash. *)
Settled(t) == status[t] = "done" \/ (mpc = "complete" /\ item.attempt[1] = t)
CommitsPaid ==
  \A t \in Tasks \ exempt :
    Len(commits[t]) <= crashes + (IF Settled(t) THEN 1 ELSE 0)

Orderly ==
  /\ TypeOK /\ Recoverable
  /\ Released /\ RequeuesRunning /\ Undisturbed /\ CommitsPaid

-----------------------------------------------------------------------------
(* The retry policy. *)

Rank == [local |-> 0, cheap |-> 1, standard |-> 2, premium |-> 3]
FailedAt(t, x) == {a \in AttemptsOf(t) : atier[a] = x /\ reason[a] = "pipeline"}

(* An attempt that failed by itself is closed, and in nobody's hands but    *)
(* those of the goroutine that has yet to see to its task.                  *)
FailureOver(a) ==
  /\ reason[a] # "none" => a[2] <= tries[a[1]]
  /\ reason[a] = "pipeline" =>
       /\ outcome[a] # "running" /\ ~Queued(a) /\ item.attempt # a
       /\ go[a] \in {"none", "fail_task", "handle", "requeue"}
  /\ go[a] \in {"fail_task", "handle", "requeue"} => reason[a] = "pipeline"
  /\ go[a] = "reload_task" => outcome[a] # "running"

(* A task whose latest attempt has not failed by itself, or that is on its  *)
(* way to another attempt, has room for one more such failure at its tier.  *)
Open(t) ==
  \/ status[t] \in {"queued", "waiting_on_lock"} \/ disp = t \/ tries[t] = 0
  \/ reason[Latest(t)] # "pipeline"
RoomLeft(t) == Open(t) => Cardinality(FailedAt(t, tier[t])) < MaxRetriesPerTier

(* Tiers only rise, and a tier escalated to has no attempt yet. *)
TiersRise(t) ==
  \A a \in AttemptsOf(t) :
    /\ atier[a] \in Tier /\ Rank[atier[a]] <= Rank[tier[t]]
    /\ go[a] = "requeue" => \A b \in AttemptsOf(t) : Rank[atier[b]] < Rank[tier[t]]

(* The latest attempt is at its task's tier until it fails by itself. *)
TierCurrent(t) ==
  tries[t] > 0 /\ reason[Latest(t)] # "pipeline" => atier[Latest(t)] = tier[t]

(* What the recovery requeues has an attempt, closed as one of the past. *)
ClosesLatest(t) ==
  mode \in {"close", "reset"} /\ rtask = t =>
    tries[t] > 0 /\ (mode = "reset" => reason[Latest(t)] # "pipeline")

TierBound(t) == \A x \in Tier : Cardinality(FailedAt(t, x)) <= MaxRetriesPerTier

Policy(t) ==
  TierBound(t) /\ RoomLeft(t) /\ TiersRise(t) /\ TierCurrent(t) /\ ClosesLatest(t)

FailuresOver == \A a \in Attempt : a[1] \notin exempt => FailureOver(a)
PolicyKept == \A t \in Tasks \ exempt : Policy(t)

RetryInv == Orderly /\ FailuresOver /\ PolicyKept

=============================================================================
