----------------------------- MODULE TaskStates -----------------------------
(***************************************************************************)
(* The status tables of state/models.go: every write of a task's status,   *)
(* of an attempt's status or of an attempt's phase that goes through the   *)
(* state package is checked against one of them inside its transaction.    *)
(***************************************************************************)

TaskStatus == {"queued", "in_progress", "waiting_on_lock", "done", "failed",
               "blocked", "cancelled_eco"}

TaskMoves ==
  ({"queued"} \X {"in_progress", "waiting_on_lock", "cancelled_eco"})
    \cup ({"waiting_on_lock"} \X {"in_progress", "queued", "cancelled_eco"})
    \cup ({"in_progress"}
            \X {"done", "failed", "blocked", "waiting_on_lock", "cancelled_eco"})
    \cup ({"failed"} \X {"queued", "blocked"})

ValidTaskTransition(from, to) == <<from, to>> \in TaskMoves

(***************************************************************************)
(* UpdateTaskStatus as a function of the status table: it writes the new   *)
(* status when the table allows the move, and fails leaving the row alone  *)
(* when it does not.  Reading and writing are one transaction.             *)
(***************************************************************************)
UpdateTaskStatus(status, t, to) ==
  IF ValidTaskTransition(status[t], to) THEN [status EXCEPT ![t] = to] ELSE status

AttemptStatus == {"running", "passed", "failed", "escalated"}

ValidAttemptTransition(from, to) ==
  from = "running" /\ to \in AttemptStatus \ {"running"}

TerminalPhase == {"succeeded", "failed", "escalated"}

(* The way of an attempt that meets no failure, phase by phase. *)
NextPhase ==
  [executing |-> "validating", validating |-> "reviewing",
   reviewing |-> "awaiting_orchestrator_gate",
   awaiting_orchestrator_gate |-> "queued_for_merge",
   queued_for_merge |-> "merging", merging |-> "succeeded"]

AttemptPhase == DOMAIN NextPhase \cup TerminalPhase

ValidPhaseTransition(from, to) ==
  from \in DOMAIN NextPhase /\ to \in {NextPhase[from], "failed", "escalated"}

(* The same contract for the two columns of an attempt row. *)
UpdateAttemptStatus(outcome, a, to) ==
  IF ValidAttemptTransition(outcome[a], to) THEN [outcome EXCEPT ![a] = to] ELSE outcome

UpdateAttemptPhase(phase, a, to) ==
  IF ValidPhaseTransition(phase[a], to) THEN [phase EXCEPT ![a] = to] ELSE phase

=============================================================================
