------------------------------ MODULE Convergence ------------------------------
(***************************************************************************)
(* Test generation: the merge queue completes an implementation task, a    *)
(* test task is created for it, a failing test gets a fix task, and the    *)
(* pair of the two converges, which is what CompleteRun waits for.  Merges *)
(* are those of one queue worker; executors, the orchestrator's requests,  *)
(* crashes and CompleteRun come in between.  The other steps of an attempt *)
(* and the counting of retries are those of Pipeline.                      *)
(***************************************************************************)
EXTENDS Sequences, Naturals

CONSTANTS
  Impls,             \* implementation tasks of the run
  Families,          \* families of models
  None,              \* no family, no task, no pair
  MaxAttempts,       \* bound on the attempts of a task
  MaxRequests        \* bound on the orchestrator's requests

VARIABLES
  task,              \* tasks: status, or None for a task not created yet
  tries,             \* task_attempts: task |-> sequence of phase, status and family
  pairs,             \* convergence_pairs: implementation |-> row or None
  queue, merging,    \* merge queue: items <<task, attempt>>; what its worker does
  run, seen,         \* run status; the pairs CompleteRun listed, all of them converged
  requests, crashed  \* history: requests so far; there was a crash

convVars == <<task, tries, pairs, queue, merging, run, seen, requests, crashed>>

Test(i) == <<i, "test", 0>>
Fix(i, n) == <<i, "fix", n>>
Features == {<<i, "impl", 0>> : i \in Impls}
Tests == {Test(i) : i \in Features}
Fixes == {Fix(i, n) : i \in Features, n \in 1..2}
RunTasks == Features \cup Tests \cup Fixes

Idle == [step |-> "idle"]
Attempt == [phase : {"executing", "queued_for_merge", "merging", "succeeded", "failed"},
            status : {"running", "passed", "failed"}, family : Families]
Pair == [status : {"testing", "fixing", "converged", "blocked"}, family : Families,
         fix : Fixes \cup {None}, iteration : 1..3]

TaskStatuses == {"queued", "in_progress", "failed", "done", "blocked"}

(* What the constants are. *)
ASSUME ConvergenceAssumption ==
  /\ None \notin TaskStatuses /\ None \notin Pair
  /\ {MaxAttempts, MaxRequests} \subseteq Nat

ConvTypeOK ==
  /\ task \in [RunTasks -> TaskStatuses \cup {None}]
  /\ \A t \in RunTasks : tries[t] \in Seq(Attempt)
  /\ pairs \in [Features -> Pair \cup {None}]
  /\ queue \in Seq(RunTasks \X Nat)
  /\ merging.step \in {"idle", "merge", "hook", "succeed", "requeue"}
  /\ run \in {"active", "completed"} /\ seen \in (SUBSET Features) \cup {None}
  /\ requests \in 0..MaxRequests /\ crashed \in BOOLEAN

ConvInit ==
  /\ task = [t \in RunTasks |-> IF t \in Features THEN "queued" ELSE None]
  /\ tries = [t \in RunTasks |-> <<>>]
  /\ pairs = [i \in Features |-> None]
  /\ queue = <<>> /\ merging = Idle
  /\ run = "active" /\ seen = None
  /\ requests = 0 /\ crashed = FALSE

-----------------------------------------------------------------------------
Allowed(from, to) ==
  CASE from = "queued"      -> to = "in_progress"
    [] from = "in_progress" -> to \in {"done", "failed", "blocked"}
    [] from = "failed"      -> to \in {"queued", "blocked"}
    [] OTHER                -> FALSE

Moved(t, to) == IF Allowed(task[t], to) THEN [task EXCEPT ![t] = to] ELSE task

DependsOn(t) ==
  CASE t \in Tests -> {t[1]}
    [] t \in Fixes -> {Test(t[1])}
    [] OTHER       -> {}

Last(t) == Len(tries[t])
Open(t) == Last(t) > 0 /\ tries[t][Last(t)].phase = "executing"

(* UpdateAttemptPhase and UpdateAttemptStatus: an attempt that is failed or *)
(* succeeded stays so, and only a merging one succeeds.                     *)
Closed(t, n, phase) ==
  LET a == tries[t][n]
      from == IF phase = "succeeded" THEN {"merging"}
              ELSE {"executing", "queued_for_merge", "merging"}
  IN  IF a.phase \notin from THEN tries
      ELSE [tries EXCEPT ![t][n] =
              [a EXCEPT !.phase = phase,
                        !.status = IF phase = "succeeded" THEN "passed" ELSE "failed"]]

GetExcludeFamily(t) ==
  IF t \in Tests /\ pairs[t[1]] # None THEN pairs[t[1]].family ELSE None

(* The first model of another family, or the first one of all. *)
SelectModel(exclude) ==
  IF Families \ {exclude} # {} THEN Families \ {exclude} ELSE Families

(* The scheduler dispatches a ready task of an active run. *)
Dispatch(t) ==
  /\ run = "active" /\ task[t] = "queued" /\ Last(t) < MaxAttempts
  /\ \A d \in DependsOn(t) : task[d] = "done"
  /\ \E f \in SelectModel(GetExcludeFamily(t)) :
       tries' = [tries EXCEPT ![t] =
                   Append(@, [phase |-> "executing", status |-> "running", family |-> f])]
  /\ task' = Moved(t, "in_progress")
  /\ UNCHANGED <<pairs, queue, merging, run, seen, requests, crashed>>

(* The executor hands an output that passed its checks to the merge queue. *)
Submit(t) ==
  /\ Open(t)
  /\ tries' = [tries EXCEPT ![t][Last(t)].phase = "queued_for_merge"]
  /\ queue' = Append(queue, <<t, Last(t)>>)
  /\ UNCHANGED <<task, pairs, merging, run, seen, requests, crashed>>

MarkBlocked(t) ==
  IF t \in Tests /\ pairs[t[1]] # None
  THEN [pairs EXCEPT ![t[1]].status = "blocked"] ELSE pairs

(* failAttempt: HandleTaskFailure retries a failed task or blocks it, and a *)
(* test that is blocked blocks its pair.                                    *)
FailAttempt(t) ==
  /\ Open(t)
  /\ tries' = Closed(t, Last(t), "failed")
  /\ LET failed == Moved(t, "failed")
     IN  IF failed[t] # "failed" THEN task' = failed /\ pairs' = pairs
         ELSE \/ task' = [failed EXCEPT ![t] = "queued"] /\ pairs' = pairs
              \/ task' = [failed EXCEPT ![t] = "blocked"] /\ pairs' = MarkBlocked(t)
  /\ UNCHANGED <<queue, merging, run, seen, requests, crashed>>

-----------------------------------------------------------------------------
(* The merge queue's worker. *)

StartMerge ==
  /\ merging.step = "idle" /\ queue # <<>>
  /\ LET t == Head(queue)[1]  n == Head(queue)[2]
     IN  /\ merging' = [step |-> "merge", task |-> t, try |-> n]
         /\ tries' = IF tries[t][n].phase # "queued_for_merge" THEN tries
                     ELSE [tries EXCEPT ![t][n].phase = "merging"]
  /\ queue' = Tail(queue)
  /\ UNCHANGED <<task, pairs, run, seen, requests, crashed>>

Continue(step) == merging' = [merging EXCEPT !.step = step]

(* The status is written first; what is refused ends CompleteTask. *)
CompleteTask ==
  /\ merging.step = "merge"
  /\ Continue(IF Allowed(task[merging.task], "done") THEN "hook" ELSE "succeed")
  /\ task' = Moved(merging.task, "done")
  /\ UNCHANGED <<tries, pairs, queue, run, seen, requests, crashed>>

FixOf(t) == {i \in Features : pairs[i] # None /\ pairs[i].fix = t}

MarkConverged(i) ==
  IF pairs[i] # None /\ task[Test(i)] = "done"
  THEN [pairs EXCEPT ![i].status = "converged"] ELSE pairs

Passed(t) == {n \in 1..Last(t) : tries[t][n].status = "passed"}

(* A task and its pair, in one transaction, unless there is a pair already *)
(* or no attempt has passed.                                               *)
CreateTestTask(i) ==
  IF pairs[i] # None \/ Passed(i) = {} THEN UNCHANGED <<task, pairs>>
  ELSE LET n == CHOOSE n \in Passed(i) : \A m \in Passed(i) : m <= n
       IN  /\ task' = [task EXCEPT ![Test(i)] = "queued"]
           /\ pairs' = [pairs EXCEPT ![i] =
                          [status |-> "testing", family |-> tries[i][n].family,
                           fix |-> None, iteration |-> 1]]

(* What the hook reads, only this worker writes, or it no longer changes. *)
DispatchMerge ==
  /\ merging.step = "hook" /\ Continue("succeed")
  /\ LET t == merging.task
     IN  IF t \in Tests
         THEN pairs' = MarkConverged(t[1]) /\ UNCHANGED task
         ELSE IF FixOf(t) # {}
              THEN \E i \in FixOf(t) : pairs' = MarkConverged(i) /\ UNCHANGED task
              ELSE t \in Features /\ CreateTestTask(t)
  /\ UNCHANGED <<tries, queue, run, seen, requests, crashed>>

MarkSucceeded ==
  /\ merging.step = "succeed" /\ merging' = Idle
  /\ tries' = Closed(merging.task, merging.try, "succeeded")
  /\ UNCHANGED <<task, pairs, queue, run, seen, requests, crashed>>

FailItem ==
  /\ merging.step = "merge"
  /\ tries' = Closed(merging.task, merging.try, "failed")
  /\ merging' = [step |-> "requeue", task |-> merging.task, was |-> task[merging.task]]
  /\ UNCHANGED <<task, pairs, queue, run, seen, requests, crashed>>

(* HandleTestFailure: a fix that depends on the failed test. *)
HandleTestFailure(t) ==
  LET i == t[1]
      fix == Fix(i, pairs[i].iteration)
  IN  /\ task' = [Moved(t, "failed") EXCEPT ![fix] = "queued"]
      /\ pairs' = [pairs EXCEPT ![i] = [pairs[i] EXCEPT !.fix = fix, !.status = "fixing",
                                                        !.iteration = @ + 1]]

(* The status was read before the feedback was stored. *)
RequeueTask ==
  /\ merging.step = "requeue" /\ merging' = Idle
  /\ LET t == merging.task
         refused == merging.was = "in_progress" /\ ~Allowed(task[t], "failed")
         failed == IF merging.was = "in_progress" THEN Moved(t, "failed") ELSE task
     IN  IF refused \/ failed[t] # "failed" THEN UNCHANGED <<task, pairs>>
         ELSE IF t \in Tests
              THEN pairs[t[1]].iteration < 3 /\ HandleTestFailure(t)
              ELSE task' = [failed EXCEPT ![t] = "queued"] /\ UNCHANGED pairs
  /\ UNCHANGED <<tries, queue, run, seen, requests, crashed>>

-----------------------------------------------------------------------------
(* The orchestrator's requests name any attempt of a task. *)

RejectTaskOutput(t) ==
  /\ requests < MaxRequests /\ requests' = requests + 1
  /\ \E n \in 1..Last(t) : tries' = Closed(t, n, "failed")
  /\ task' = IF task[t] = "in_progress" THEN Moved(t, "failed") ELSE task
  /\ UNCHANGED <<pairs, queue, merging, run, seen, crashed>>

ApproveTaskOutput(t) ==
  /\ requests < MaxRequests /\ requests' = requests + 1
  /\ \E n \in 1..Last(t) : queue' = Append(queue, <<t, n>>)
  /\ UNCHANGED <<task, tries, pairs, merging, run, seen, crashed>>

(* CompleteRun lists the pairs and then writes the status. *)
Listed == {i \in Features : pairs[i] # None}

ListNotTesting ==
  /\ run = "active" /\ seen = None
  /\ \A i \in Listed : pairs[i].status # "testing"
  /\ seen' = Listed
  /\ UNCHANGED <<task, tries, pairs, queue, merging, run, requests, crashed>>

ListPairs ==
  /\ run = "active" /\ seen = None
  /\ \A i \in Listed : pairs[i].status = "converged"
  /\ seen' = Listed
  /\ UNCHANGED <<task, tries, pairs, queue, merging, run, requests, crashed>>

CompleteRun ==
  /\ run = "active" /\ seen # None /\ seen' = None
  /\ run' = "completed"
  /\ UNCHANGED <<task, tries, pairs, queue, merging, requests, crashed>>

(* A crash loses the queue; recovery requeues what was in progress under an *)
(* open attempt.                                                            *)
Recover ==
  /\ ~crashed /\ crashed' = TRUE
  /\ queue' = <<>> /\ merging' = Idle /\ seen' = None
  /\ LET stale == {t \in RunTasks : task[t] = "in_progress" /\ Last(t) > 0
                                   /\ tries[t][Last(t)].phase \notin {"succeeded", "failed"}}
     IN  /\ task' = [t \in RunTasks |-> IF t \in stale THEN "queued" ELSE task[t]]
         /\ tries' = [t \in RunTasks |-> IF t \in stale THEN Closed(t, Last(t), "failed")[t]
                                      ELSE tries[t]]
  /\ UNCHANGED <<pairs, run, requests>>

ConvNext ==
  \/ \E t \in RunTasks :
       Dispatch(t) \/ Submit(t) \/ FailAttempt(t) \/ RejectTaskOutput(t) \/ ApproveTaskOutput(t)
  \/ StartMerge \/ CompleteTask \/ DispatchMerge \/ MarkSucceeded
  \/ FailItem \/ RequeueTask
  \/ ListPairs \/ CompleteRun \/ Recover

ConvSpec == ConvInit /\ [][ConvNext]_convVars

-----------------------------------------------------------------------------
(* ARCHITECTURE.md 11.5, run.go:CompleteRun: when the status is written,    *)
(* every pair that was listed still has its implementation and its tests    *)
(* merged, whatever merges, failures and requests came after the list, and  *)
(* a test that failed or is blocked has kept the run open.                  *)
CompletesTested ==
  CompleteRun => \A i \in seen : task[i] = "done" /\ task[Test(i)] = "done"
CompletedIsTested == [][CompletesTested]_convVars

(* ARCHITECTURE.md 11.5: an implementation that was merged gets a test task *)
(* (testgen.go:CreateTestTask); looked at when the queue is at rest.        *)
MergedIsTested ==
  merging.step = "idle" /\ ~crashed =>
    \A i \in Features : task[i] = "done" => pairs[i] # None
=============================================================================
