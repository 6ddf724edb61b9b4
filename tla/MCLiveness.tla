------------------------------ MODULE MCLiveness ------------------------------
(***************************************************************************)
(* Small instances of Scheduler and of Pipeline under the fairness of the  *)
(* code.  A behaviour explores the one named by focus and leaves the       *)
(* variables of the other alone.                                           *)
(***************************************************************************)
EXTENDS MCScheduler

VARIABLES
  focus,
  taskStatus, tier, plTries, phase, outcome, atier, reason, disp, seen, go, queue, mpc, item,
  ctl, requests, plMode, recovered, restarts, commits, rejected, excused

pipeline == <<taskStatus, tier, plTries, phase, outcome, atier, reason, disp, seen, go, queue,
              mpc, item, ctl, requests, plMode, recovered, restarts, commits, rejected, excused>>

StandardTier == [t \in {a} |-> "standard"]
TwoTries == [t \in {a} |-> 2]

Pipe == INSTANCE Pipeline WITH
  Tasks <- {a}, FirstTier <- StandardTier, MaxRetriesPerTier <- 1, MaxEscalations <- 1,
  MergeFaults <- TRUE, ScopeWaits <- {}, Requests <- {"approve"}, MaxRequests <- 1,
  MaxAttempts <- TwoTries, MaxCrashes <- 0,
  status <- taskStatus, tries <- plTries, mode <- plMode, rtask <- recovered,
  crashes <- restarts, exempt <- excused

LiveInit == focus \in {"scheduler", "pipeline"} /\ Init /\ Pipe!Init

LiveNext ==
  \/ focus = "scheduler" /\ Next /\ UNCHANGED <<focus, pipeline>>
  \/ focus = "pipeline" /\ Pipe!Next /\ UNCHANGED <<focus, vars>>

(* Scheduler!Fairness and Pipeline!Fairness, each for its own behaviours. *)
LiveFairness ==
  /\ WF_vars(focus = "scheduler" /\ SchedulerStep)
  /\ \A t \in Tasks : WF_vars(focus = "scheduler" /\ \E w \in W : StartAttempt(w, t))
  /\ \A w \in W : WF_vars(focus = "scheduler" /\ GoroutineStep(w))
  /\ \A n \in Pipe!Attempt : WF_pipeline(focus = "pipeline" /\ Pipe!GoStep(n))
  /\ WF_pipeline(focus = "pipeline" /\ Pipe!MergeStep)
  /\ WF_pipeline(focus = "pipeline" /\ Pipe!ServeRequest)

LiveSpec == LiveInit /\ [][LiveNext]_<<focus, vars, pipeline>> /\ LiveFairness

(* A failed attempt leads to a retry, an escalation or a blocked task      *)
(* (task/service.go:HandleTaskFailure), unless an orchestrator's request   *)
(* or a stale start disturbed the task.                                    *)
FailureHandled == Pipe!FailureHandled

(* The merge queue decides every item it is given (engine/mergequeue.go).  *)
ItemDecided == Pipe!ItemDecided
=============================================================================
