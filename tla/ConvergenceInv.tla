---------------------------- MODULE ConvergenceInv ----------------------------
(* The inductive invariant of Convergence. *)
EXTENDS Convergence

Working == {Idle} \cup [step : {"merge", "hook", "succeed"}, task : RunTasks, try : Nat]
                  \cup [step : {"requeue"}, task : RunTasks, was : TaskStatuses \cup {None}]

(* Items of the queue and of its worker name attempts that were made. *)
Made(t, n) == n \in 1..Last(t)

ConvTyped ==
  /\ ConvTypeOK
  /\ tries \in [RunTasks -> Seq(Attempt)] /\ merging \in Working
  /\ \A k \in 1..Len(queue) : Made(queue[k][1], queue[k][2])
  /\ merging.step \in {"merge", "hook", "succeed"} => Made(merging.task, merging.try)

(* The hook runs for a task that is done, and a test task comes with its pair, *)
(* for an implementation that is done.                                         *)
PairsMade ==
  /\ merging.step = "hook" => task[merging.task] = "done"
  /\ \A i \in Features : IF pairs[i] = None THEN task[Test(i)] = None ELSE task[i] = "done"

(* What converged has its test merged, and so has what CompleteRun listed. *)
ConvergedIsTested ==
  /\ \A i \in Features :
       pairs[i] # None /\ pairs[i].status = "converged" => task[Test(i)] = "done"
  /\ seen # None => \A i \in seen : pairs[i] # None /\ task[Test(i)] = "done"

ConvInv == ConvTyped /\ PairsMade /\ ConvergedIsTested
=============================================================================
