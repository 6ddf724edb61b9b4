---------------------------- MODULE Pipeline_proofs ----------------------------
(***************************************************************************)
(* Types of Pipeline; recovery is never refused, and a task is done only   *)
(* with a commit.  One attempt of a task at a time, what the merge queue   *)
(* commits, and how many attempts may fail by themselves at one tier.      *)
(***************************************************************************)
EXTENDS PipelineInv, TLAPS, FiniteSetTheorems

(***************************************************************************)
(* What an attempt is.                                                     *)
(***************************************************************************)
LEMMA AttemptParts ==
  ASSUME NEW a \in Attempt
  PROVE  a[1] \in Tasks /\ a[2] \in Nat \ {0} /\ a = <<a[1], a[2]>>
BY PipelineAssumption DEF Attempt

LEMMA AttemptMade ==
  ASSUME NEW t \in Tasks, NEW n \in Nat \ {0}, n <= MaxAttempts[t]
  PROVE  <<t, n>> \in Attempt
BY PipelineAssumption DEF Attempt

(***************************************************************************)
(* Checked writes leave well-formed columns.                               *)
(***************************************************************************)
LEMMA StatusTyped ==
  ASSUME NEW s \in [Tasks -> TaskStatus], NEW t, NEW to \in TaskStatus
  PROVE  UpdateTaskStatus(s, t, to) \in [Tasks -> TaskStatus]
BY DEF UpdateTaskStatus

LEMMA OutcomeTyped ==
  ASSUME NEW o \in [Attempt -> AttemptStatus \cup {"none"}], NEW a,
         NEW to \in AttemptStatus
  PROVE  UpdateAttemptStatus(o, a, to) \in [Attempt -> AttemptStatus \cup {"none"}]
BY DEF UpdateAttemptStatus

LEMMA PhaseTyped ==
  ASSUME NEW p \in [Attempt -> AttemptPhase \cup {"none"}], NEW a,
         NEW to \in AttemptPhase
  PROVE  UpdateAttemptPhase(p, a, to) \in [Attempt -> AttemptPhase \cup {"none"}]
BY DEF UpdateAttemptPhase

LEMMA HeadAndTail ==
  ASSUME NEW S, NEW q \in Seq(S), q # <<>>
  PROVE  Head(q) \in S /\ Tail(q) \in Seq(S)
OBVIOUS

(* The members of the status and phase tables the code writes. *)
LEMMA Names ==
  /\ {"queued", "in_progress", "waiting_on_lock", "done", "failed", "blocked"}
       \subseteq TaskStatus
  /\ {"running", "passed", "failed"} \subseteq AttemptStatus
  /\ {"executing", "validating", "reviewing", "awaiting_orchestrator_gate",
      "queued_for_merge", "merging", "succeeded", "failed"} \subseteq AttemptPhase
  /\ {"executing", "validating", "reviewing", "awaiting_orchestrator_gate"}
       \subseteq DOMAIN NextPhase
  /\ NextPhase["executing"] = "validating"
  /\ NextPhase["validating"] = "reviewing"
  /\ NextPhase["reviewing"] = "awaiting_orchestrator_gate"
  /\ NextPhase["awaiting_orchestrator_gate"] = "queued_for_merge"
  /\ "none" \notin AttemptPhase \cup AttemptStatus
BY DEF TaskStatus, AttemptStatus, AttemptPhase, NextPhase, TerminalPhase

LEMMA TypeStep == TypeOK /\ [Next]_vars => TypeOK'
<1> SUFFICES ASSUME TypeOK, [Next]_vars PROVE TypeOK'
  OBVIOUS
<1> USE PipelineAssumption DEF TypeOK, rows, merger, control, process
<1>1. ASSUME NEW t \in Tasks, Dispatch(t) PROVE TypeOK'
  BY <1>1, StatusTyped, Names DEF Dispatch
<1>2. ASSUME CreateAttempt PROVE TypeOK'
  <2> DEFINE a == <<disp, tries[disp] + 1>>
  <2>1. /\ phase' = [phase EXCEPT ![a] = "executing"]
        /\ outcome' = [outcome EXCEPT ![a] = "running"]
        /\ atier' = [atier EXCEPT ![a] = tier[disp]]
    BY <1>2 DEF CreateAttempt
  <2> HIDE DEF a
  <2>2. /\ phase' \in [Attempt -> AttemptPhase \cup {"none"}]
        /\ outcome' \in [Attempt -> AttemptStatus \cup {"none"}]
    BY <2>1, Names
  <2>3. atier' \in [Attempt -> Tier \cup {"none"}]
    <3>1. tier[disp] \in Tier
      BY <1>2 DEF CreateAttempt
    <3> QED
      BY <2>1, <3>1
  <2>4. tries' \in [Tasks -> Nat] /\ disp' \in Tasks \cup {NoTask}
    BY <1>2 DEF CreateAttempt
  <2> QED
    BY <1>2, <2>2, <2>3, <2>4 DEF CreateAttempt
<1>3. ASSUME NEW t \in Tasks, WakeWaiter(t) PROVE TypeOK'
  BY <1>3, StatusTyped, Names DEF WakeWaiter
<1>4. ASSUME NEW t \in Tasks, LatestRunningAttempt(t) PROVE TypeOK'
  BY <1>4 DEF LatestRunningAttempt, Latest
<1>5. ASSUME StartAttempt PROVE TypeOK'
  <2>1. go' \in [Attempt -> Stage]
    <3>1. go' = [go EXCEPT ![seen] = "executing"] \/ go' = go
      BY <1>5 DEF StartAttempt, Goto
    <3> QED
      BY <3>1 DEF Stage
  <2>2. exempt' \in SUBSET Tasks
    <3>1. seen[1] \in Tasks
      BY <1>5 DEF StartAttempt
    <3> QED
      BY <1>5, <3>1 DEF StartAttempt
  <2>3. seen' = NoAttempt
    BY <1>5 DEF StartAttempt
  <2> QED
    BY <1>5, <2>1, <2>2, <2>3 DEF StartAttempt
<1>6. ASSUME NEW a \in Attempt, Advance(a) PROVE TypeOK'
  <2>1. NextPhase[go[a]] \in AttemptPhase \cap Stage
    BY <1>6, Names DEF Advance, Stage
  <2>2. phase' \in [Attempt -> AttemptPhase \cup {"none"}]
    BY <1>6, <2>1, PhaseTyped DEF Advance
  <2>3. go' \in [Attempt -> Stage]
    BY <1>6, <2>1 DEF Advance, Goto, Stage
  <2> QED
    BY <1>6, <2>2, <2>3 DEF Advance
<1>7. ASSUME NEW a \in Attempt, StepFails(a) PROVE TypeOK'
  BY <1>7 DEF StepFails, Goto, Stage
<1>8. ASSUME NEW a \in Attempt, RequestScopeExpansion(a) PROVE TypeOK'
  BY <1>8 DEF RequestScopeExpansion, Goto, Stage
<1>9. ASSUME NEW a \in Attempt, ParkForExpansion(a) PROVE TypeOK'
  BY <1>9, StatusTyped, Names, ZenonT(60) DEF ParkForExpansion, Goto, Stage
<1>10. ASSUME NEW a \in Attempt, ReloadAfterExpansion(a) PROVE TypeOK'
  <2>1. go' \in [Attempt -> Stage]
    <3>1. PICK stage \in Stage : go' = [go EXCEPT ![a] = stage]
      BY <1>10 DEF ReloadAfterExpansion, Goto, Stage
    <3> QED
      BY <3>1
  <2>2. exempt' \in SUBSET Tasks
    <3>1. a[1] \in Tasks
      BY AttemptParts
    <3> QED
      BY <1>10, <3>1 DEF ReloadAfterExpansion
  <2> QED
    BY <1>10, <2>1, <2>2 DEF ReloadAfterExpansion
<1>11. ASSUME NEW a \in Attempt, EnqueueMerge(a) PROVE TypeOK'
  BY <1>11 DEF EnqueueMerge, Goto, Stage
<1>12. ASSUME NEW a \in Attempt, ReloadAttempt(a) PROVE TypeOK'
  BY <1>12 DEF ReloadAttempt, Goto, Stage
<1>13. ASSUME NEW a \in Attempt, FailPhase(a) PROVE TypeOK'
  BY <1>13, PhaseTyped, Names, ZenonT(60) DEF FailPhase, Goto, Stage
<1>14. ASSUME NEW a \in Attempt, FailStatus(a) PROVE TypeOK'
  BY <1>14, OutcomeTyped, Names DEF FailStatus, Goto, Stage
<1>15. ASSUME NEW a \in Attempt, ReloadTask(a) PROVE TypeOK'
  BY <1>15, ZenonT(60) DEF ReloadTask, Goto, Stage, Reasons
<1>16. ASSUME NEW a \in Attempt, FailTask(a) PROVE TypeOK'
  BY <1>16, StatusTyped, Names, ZenonT(60) DEF FailTask, Goto, Stage
<1>17. ASSUME NEW a \in Attempt, RefuseToHandle(a) PROVE TypeOK'
  BY <1>17 DEF RefuseToHandle, Goto, Stage
<1>18. ASSUME NEW a \in Attempt, RetryTask(a) PROVE TypeOK'
  BY <1>18, StatusTyped, Names, ZenonT(60) DEF RetryTask, Goto, Stage
<1>19. ASSUME NEW a \in Attempt, EscalateTask(a) PROVE TypeOK'
  <2>1. tier[a[1]] \in {"local", "cheap", "standard"}
    BY <1>19 DEF EscalateTask, MayEscalate, TierEscalation
  <2>2. TierEscalation[tier[a[1]]] \in Tier
    BY <2>1 DEF TierEscalation, Tier
  <2>3. tier' \in [Tasks -> Tier]
    BY <1>19, <2>2 DEF EscalateTask
  <2>4. go' \in [Attempt -> Stage]
    BY <1>19 DEF EscalateTask, Goto, Stage
  <2> QED
    BY <1>19, <2>3, <2>4 DEF EscalateTask
<1>20. ASSUME NEW a \in Attempt, RequeueEscalated(a) PROVE TypeOK'
  BY <1>20, StatusTyped, Names, ZenonT(60) DEF RequeueEscalated, Goto, Stage
<1>21. ASSUME NEW a \in Attempt, BlockTask(a) PROVE TypeOK'
  BY <1>21, StatusTyped, Names, ZenonT(60) DEF BlockTask, Goto, Stage
<1>22. ASSUME TakeItem PROVE TypeOK'
  <2>1. /\ item' \in [attempt : Attempt, files : BOOLEAN]
        /\ queue' \in Seq([attempt : Attempt, files : BOOLEAN])
    BY <1>22, HeadAndTail DEF TakeItem
  <2>2. phase' \in [Attempt -> AttemptPhase \cup {"none"}]
    BY <1>22, PhaseTyped, Names DEF TakeItem
  <2> QED
    BY <1>22, <2>1, <2>2 DEF TakeItem, MergePC
<1>23. ASSUME CommitItem PROVE TypeOK'
  <2>1. item.attempt \in Attempt
    BY <1>23 DEF CommitItem, NothingMerging
  <2>2. item.attempt[2] \in Nat /\ item.attempt[1] \in Tasks
    BY <2>1, AttemptParts
  <2>3. commits' \in [Tasks -> Seq(Nat)]
    <3> DEFINE t == item.attempt[1]
               n == item.attempt[2]
    <3>1. commits' = [commits EXCEPT ![t] = Append(@, n)]
      BY <1>23 DEF CommitItem
    <3> HIDE DEF t, n
    <3>2. t \in Tasks /\ n \in Nat
      BY <2>2 DEF t, n
    <3>3. Append(commits[t], n) \in Seq(Nat)
      BY <3>2
    <3> QED
      BY <3>1, <3>2, <3>3
  <2> QED
    BY <1>23, <2>3 DEF CommitItem, Merging, MergePC
<1>24. ASSUME CompleteTask PROVE TypeOK'
  BY <1>24, StatusTyped, Names DEF CompleteTask, Merging, MergePC
<1>25. ASSUME MarkSucceeded PROVE TypeOK'
  BY <1>25, PhaseTyped, Names DEF MarkSucceeded, MergeDone, Merging, MergePC
<1>26. ASSUME MarkPassed PROVE TypeOK'
  BY <1>26, OutcomeTyped, Names DEF MarkPassed, MergeDone, MergePC
<1>27. ASSUME RefuseItem PROVE TypeOK'
  BY <1>27, PhaseTyped, Names, ZenonT(60) DEF RefuseItem, Merging, MergePC
<1>28. ASSUME MarkFailed PROVE TypeOK'
  BY <1>28, OutcomeTyped, Names, ZenonT(60) DEF MarkFailed, Merging, MergePC, Reasons
<1>29. ASSUME ReloadMergedTask PROVE TypeOK'
  BY <1>29 DEF ReloadMergedTask, Merging, MergePC
<1>30. ASSUME FailMergedTask PROVE TypeOK'
  BY <1>30, StatusTyped, Names DEF FailMergedTask, Merging, MergeDone, MergePC
<1>31. ASSUME RequeueTask PROVE TypeOK'
  BY <1>31, StatusTyped, Names DEF RequeueTask, MergeDone, MergePC
<1>32. ASSUME NEW a \in Attempt, ApproveTaskOutput(a) PROVE TypeOK'
  <2>1. phase' \in [Attempt -> AttemptPhase \cup {"none"}]
    BY <1>32, PhaseTyped, Names DEF ApproveTaskOutput
  <2>2. /\ ctl'.pc \in {"enqueue", "reject_status"}
        /\ ctl' \in [pc : {"enqueue", "reject_status", "reject_task"},
                   attempt : Attempt, running : BOOLEAN]
    BY <1>32 DEF ApproveTaskOutput, NewRequest
  <2>3. exempt' \in SUBSET Tasks /\ requests' \in Nat
    <3>1. a[1] \in Tasks
      BY AttemptParts
    <3> QED
      BY <1>32, <3>1 DEF ApproveTaskOutput, NewRequest
  <2>4. reason' \in [Attempt -> Reasons]
    BY <1>32 DEF ApproveTaskOutput, Reasons
  <2> QED
    BY <1>32, <2>1, <2>2, <2>3, <2>4 DEF ApproveTaskOutput
<1>33. ASSUME NEW a \in Attempt, RejectTaskOutput(a) PROVE TypeOK'
  <2>1. phase' \in [Attempt -> AttemptPhase \cup {"none"}]
    BY <1>33, PhaseTyped, Names DEF RejectTaskOutput
  <2>2. /\ ctl'.pc \in {"enqueue", "reject_status"}
        /\ ctl' \in [pc : {"enqueue", "reject_status", "reject_task"},
                   attempt : Attempt, running : BOOLEAN]
    BY <1>33 DEF RejectTaskOutput, NewRequest
  <2>3. exempt' \in SUBSET Tasks /\ requests' \in Nat
    <3>1. a[1] \in Tasks
      BY AttemptParts
    <3> QED
      BY <1>33, <3>1 DEF RejectTaskOutput, NewRequest
  <2>4. reason' \in [Attempt -> Reasons]
    BY <1>33 DEF RejectTaskOutput, Reasons
  <2> QED
    BY <1>33, <2>1, <2>2, <2>3, <2>4 DEF RejectTaskOutput
<1>34. ASSUME EnqueueApproved PROVE TypeOK'
  BY <1>34 DEF EnqueueApproved, NoRequest
<1>35. ASSUME RejectAttempt PROVE TypeOK'
  <2>1. ctl \in [pc : {"enqueue", "reject_status", "reject_task"},
               attempt : Attempt, running : BOOLEAN]
    BY <1>35 DEF RejectAttempt, NoRequest
  <2>3. ctl' \in [pc : {"enqueue", "reject_status", "reject_task"},
                attempt : Attempt, running : BOOLEAN]
    BY <1>35, <2>1 DEF RejectAttempt
  <2>2. outcome' \in [Attempt -> AttemptStatus \cup {"none"}]
    BY <1>35, OutcomeTyped, Names DEF RejectAttempt
  <2> QED
    BY <1>35, <2>2, <2>3 DEF RejectAttempt
<1>36. ASSUME RejectTask PROVE TypeOK'
  <2>1. ctl.attempt \in Attempt
    BY <1>36 DEF RejectTask, NoRequest
  <2>2. status' \in [Tasks -> TaskStatus]
    BY <1>36, StatusTyped, Names DEF RejectTask
  <2> QED
    BY <1>36, <2>1, <2>2 DEF RejectTask
<1>37. ASSUME Crash PROVE TypeOK'
  BY <1>37 DEF Crash, MergeDone, MergePC, Stage
<1>38. ASSUME NEW t \in Tasks, CloseStalePhase(t) PROVE TypeOK'
  BY <1>38, PhaseTyped, Names DEF CloseStalePhase
<1>39. ASSUME CloseStaleStatus PROVE TypeOK'
  BY <1>39, OutcomeTyped, Names DEF CloseStaleStatus, Reasons
<1>40. ASSUME NEW t \in Tasks, RequeueStaleTask(t) PROVE TypeOK'
  BY <1>40, Names DEF RequeueStaleTask
<1>41. ASSUME FinishRecovery PROVE TypeOK'
  BY <1>41 DEF FinishRecovery
<1>42. ASSUME UNCHANGED vars PROVE TypeOK'
  BY <1>42 DEF vars
<1> QED
  BY <1>1, <1>2, <1>3, <1>4, <1>5, <1>6, <1>7, <1>8, <1>9, <1>10, <1>11, <1>12, <1>13, <1>14, <1>15, <1>16, <1>17, <1>18, <1>19, <1>20, <1>21, <1>22, <1>23, <1>24, <1>25, <1>26, <1>27, <1>28, <1>29, <1>30, <1>31, <1>32, <1>33, <1>34, <1>35, <1>36, <1>37, <1>38, <1>39, <1>40, <1>41, <1>42
  DEF Next, SchedulerStep, GoStep, ExpansionStep, FailStep, HandleStep, MergeStep, ServeRequest, RecoveryStep

(***************************************************************************)
(* Every table row and register of Pipeline keeps a value of its type.     *)
(***************************************************************************)
THEOREM TypeCorrect == Spec => []TypeOK
<1>1. Init => TypeOK
  BY PipelineAssumption, Names
  DEF Init, TypeOK, Stage, MergePC, Reasons, NothingMerging, NoRequest
<1> QED
  BY <1>1, TypeStep, PTL DEF Spec

-----------------------------------------------------------------------------

(* Every action that is not the scheduler's, a crash or the recovery. *)
Worker ==
  \/ \E t \in Tasks : WakeWaiter(t) \/ LatestRunningAttempt(t)
  \/ StartAttempt
  \/ \E a \in Attempt : GoStep(a)
  \/ MergeStep
  \/ \E a \in Attempt : ApproveTaskOutput(a) \/ RejectTaskOutput(a)
  \/ ServeRequest

LEMMA NextCases ==
  [Next]_vars => \/ \E t \in Tasks : Dispatch(t)
                 \/ CreateAttempt \/ Worker \/ Crash \/ RecoveryStep \/ UNCHANGED vars
BY DEF Next, Worker, SchedulerStep

(***************************************************************************)
(* What the workers leave alone.                                           *)
(***************************************************************************)
LEMMA GoLeaves ==
  ASSUME NEW a \in Attempt, GoStep(a)
  PROVE  UNCHANGED <<tries, disp, seen, mpc, item, control, process, commits>>
BY DEF GoStep, ExpansionStep, FailStep, HandleStep, Advance, StepFails, EnqueueMerge,
  RequestScopeExpansion, ParkForExpansion, ReloadAfterExpansion, ReloadAttempt, FailPhase,
  FailStatus, ReloadTask, FailTask, RefuseToHandle, RetryTask, EscalateTask,
  RequeueEscalated, BlockTask, control, process, rows, merger

LEMMA MergeLeaves ==
  ASSUME MergeStep
  PROVE  UNCHANGED <<tries, disp, seen, go, control, process>>
BY DEF MergeStep, TakeItem, CommitItem, CompleteTask, MarkSucceeded, MarkPassed, RefuseItem,
  MarkFailed, ReloadMergedTask, FailMergedTask, RequeueTask, control, process, rows

LEMMA WorkerLeaves == Worker => UNCHANGED <<tries, disp, process>>
<1> USE DEF rows, control, process, merger
<1>1. ASSUME NEW a \in Attempt, GoStep(a) PROVE UNCHANGED <<tries, disp, process>>
  BY <1>1, GoLeaves
<1>2. ASSUME MergeStep PROVE UNCHANGED <<tries, disp, process>>
  BY <1>2, MergeLeaves
<1>3. ASSUME ServeRequest PROVE UNCHANGED <<tries, disp, process>>
  BY <1>3 DEF ServeRequest, EnqueueApproved, RejectAttempt, RejectTask
<1> QED
  BY <1>1, <1>2, <1>3
  DEF Worker, WakeWaiter, LatestRunningAttempt, StartAttempt, ApproveTaskOutput, RejectTaskOutput

LEMMA RecoveryLeaves ==
  RecoveryStep =>
    /\ UNCHANGED <<tries, disp, seen, go, merger, control, commits>>
    /\ mode # "up"
BY DEF RecoveryStep, CloseStalePhase, CloseStaleStatus, RequeueStaleTask, FinishRecovery, rows

(***************************************************************************)
(* While the engine is not up only the recovery moves, or it dies again.   *)
(***************************************************************************)
LEMMA OnlyRecovery ==
  TypeOK /\ Quiet /\ mode # "up" /\ [Next]_vars => Crash \/ RecoveryStep \/ UNCHANGED vars
<1> SUFFICES ASSUME TypeOK, Quiet, mode # "up", Next PROVE Crash \/ RecoveryStep
  OBVIOUS
<1>1. ~SchedulerStep
  BY DEF SchedulerStep, Dispatch, CreateAttempt, Quiet
<1>2. ASSUME NEW a \in Attempt PROVE ~GoStep(a)
  BY DEF GoStep, ExpansionStep, FailStep, HandleStep, Advance, StepFails, EnqueueMerge,
    RequestScopeExpansion, ParkForExpansion, ReloadAfterExpansion, ReloadAttempt, FailPhase,
    FailStatus, ReloadTask, FailTask, RefuseToHandle, RetryTask, EscalateTask,
    RequeueEscalated, BlockTask, Quiet
<1>3. ~MergeStep
  BY DEF MergeStep, TakeItem, CommitItem, CompleteTask, MarkSucceeded, MarkPassed, RefuseItem,
    MarkFailed, ReloadMergedTask, FailMergedTask, RequeueTask, Quiet
<1>4. ~ServeRequest
  BY DEF ServeRequest, EnqueueApproved, RejectAttempt, RejectTask, Quiet
<1>5. ~StartAttempt /\ \A t \in Tasks : ~WakeWaiter(t) /\ ~LatestRunningAttempt(t)
  BY DEF StartAttempt, WakeWaiter, LatestRunningAttempt, Quiet
<1>6. \A a \in Attempt : ~ApproveTaskOutput(a) /\ ~RejectTaskOutput(a)
  BY DEF ApproveTaskOutput, RejectTaskOutput, NewRequest
<1> QED
  BY <1>1, <1>2, <1>3, <1>4, <1>5, <1>6 DEF Next

LEMMA QuietStep == TypeOK /\ Quiet /\ [Next]_vars => Quiet'
<1> SUFFICES ASSUME TypeOK, Quiet, [Next]_vars, mode' # "up" PROVE Quiet'
  BY DEF Quiet
<1>1. CASE Crash
  BY <1>1 DEF Crash, MergeDone, NoRequest, Quiet
<1>2. CASE RecoveryStep
  BY <1>2, RecoveryLeaves DEF Quiet, merger, control
<1>3. CASE UNCHANGED vars
  BY <1>3 DEF vars, merger, control, process, Quiet
<1>4. CASE mode = "up" /\ ~Crash /\ ~RecoveryStep /\ ~UNCHANGED vars
  BY <1>4, NextCases, WorkerLeaves DEF process, Dispatch, CreateAttempt
<1> QED
  BY <1>1, <1>2, <1>3, <1>4, OnlyRecovery

(***************************************************************************)
(* The number of attempts stays within its bound.                          *)
(***************************************************************************)
LEMMA BoundedStep == TypeOK /\ Bounded /\ [Next]_vars => Bounded'
<1> SUFFICES ASSUME TypeOK, Bounded, [Next]_vars PROVE Bounded'
  OBVIOUS
<1> USE PipelineAssumption
<1>1. ASSUME NEW t \in Tasks, Dispatch(t) PROVE Bounded'
  BY <1>1 DEF Dispatch, Bounded, TypeOK
<1>2. CASE CreateAttempt
  <2>1. disp \in Tasks /\ disp' = NoTask /\ tries' = [tries EXCEPT ![disp] = tries[disp] + 1]
    BY <1>2 DEF CreateAttempt, TypeOK
  <2>2. tries \in [Tasks -> Nat] /\ tries[disp] < MaxAttempts[disp]
    BY <2>1 DEF TypeOK, Bounded
  <2>3. ASSUME NEW t \in Tasks PROVE tries'[t] <= MaxAttempts[t]
    <3>1. tries[t] <= MaxAttempts[t] /\ MaxAttempts[t] \in Nat /\ tries[t] \in Nat
      BY <2>2 DEF Bounded
    <3>2. CASE t = disp
      BY <2>1, <2>2, <3>1, <3>2
    <3>3. CASE t # disp
      BY <2>1, <2>2, <3>1, <3>3
    <3> QED
      BY <3>2, <3>3
  <2> QED
    BY <2>1, <2>3 DEF Bounded
<1>3. CASE UNCHANGED <<tries, disp>>
  BY <1>3 DEF Bounded
<1>4. CASE Crash
  BY <1>4 DEF Crash, Bounded, rows
<1> QED
  BY <1>1, <1>2, <1>3, <1>4, NextCases, WorkerLeaves, RecoveryLeaves DEF vars, rows

(***************************************************************************)
(* The merge worker never works without an item.                           *)
(***************************************************************************)
LEMMA ItemStep == TypeOK /\ ItemHeld /\ [Next]_vars => ItemHeld'
<1> SUFFICES ASSUME TypeOK, ItemHeld, [Next]_vars PROVE ItemHeld'
  OBVIOUS
<1>1. ASSUME TakeItem PROVE ItemHeld'
  <2>1. Head(queue) \in [attempt : Attempt, files : BOOLEAN]
    BY <1>1, HeadAndTail DEF TakeItem, TypeOK
  <2> QED
    BY <1>1, <2>1 DEF TakeItem, ItemHeld
<1>2. ASSUME MergeStep, ~TakeItem PROVE ItemHeld'
  BY <1>2 DEF MergeStep, CommitItem, CompleteTask, MarkSucceeded, MarkPassed, RefuseItem,
    MarkFailed, ReloadMergedTask, FailMergedTask, RequeueTask, Merging, MergeDone, ItemHeld
<1>3. ASSUME UNCHANGED <<mpc, item>> PROVE ItemHeld'
  BY <1>3 DEF ItemHeld
<1>4. ASSUME Crash PROVE ItemHeld'
  BY <1>4 DEF Crash, MergeDone, ItemHeld
<1>5. ASSUME Worker, ~MergeStep PROVE UNCHANGED <<mpc, item>>
  BY <1>5, GoLeaves DEF Worker, WakeWaiter, LatestRunningAttempt, StartAttempt, ServeRequest,
    EnqueueApproved, RejectAttempt, RejectTask, ApproveTaskOutput, RejectTaskOutput, merger
<1> QED
  BY <1>1, <1>2, <1>3, <1>4, <1>5, NextCases, RecoveryLeaves
  DEF Dispatch, CreateAttempt, vars, merger

(***************************************************************************)
(* A step other than CreateAttempt moves every phase the way its table     *)
(* says, or not at all.                                                    *)
(***************************************************************************)
PhaseMoves ==
  \A b \in Attempt : phase'[b] = phase[b] \/ ValidPhaseTransition(phase[b], phase'[b])

LEMMA PhaseWrite ==
  ASSUME TypeOK, NEW x, NEW to, phase' = UpdateAttemptPhase(phase, x, to)
  PROVE  PhaseMoves
BY DEF TypeOK, PhaseMoves, UpdateAttemptPhase

LEMMA PhaseStep == TypeOK /\ [Next]_vars /\ ~CreateAttempt => PhaseMoves
<1> SUFFICES ASSUME TypeOK, [Next]_vars, ~CreateAttempt PROVE PhaseMoves
  OBVIOUS
<1>1. ASSUME UNCHANGED phase PROVE PhaseMoves
  BY <1>1 DEF PhaseMoves
<1>2. ASSUME NEW a \in Attempt, GoStep(a) PROVE PhaseMoves
  <2>1. CASE Advance(a)
    BY <2>1, PhaseWrite DEF Advance
  <2>2. CASE FailPhase(a)
    BY <2>2, PhaseWrite DEF FailPhase
  <2>3. CASE ~Advance(a) /\ ~FailPhase(a)
    <3>1. UNCHANGED phase
      BY <1>2, <2>3 DEF GoStep, ExpansionStep, FailStep, HandleStep, StepFails, EnqueueMerge,
        RequestScopeExpansion, ParkForExpansion, ReloadAfterExpansion, ReloadAttempt,
        FailStatus, ReloadTask, FailTask, RefuseToHandle, RetryTask, EscalateTask,
        RequeueEscalated, BlockTask, rows
    <3> QED
      BY <1>1, <3>1
  <2> QED
    BY <2>1, <2>2, <2>3
<1>3. ASSUME MergeStep PROVE PhaseMoves
  <2>1. CASE TakeItem
    BY <2>1, PhaseWrite DEF TakeItem
  <2>2. CASE MarkSucceeded
    BY <2>2, PhaseWrite DEF MarkSucceeded
  <2>3. CASE RefuseItem
    BY <2>3, PhaseWrite DEF RefuseItem
  <2>4. CASE ~TakeItem /\ ~MarkSucceeded /\ ~RefuseItem
    <3>1. UNCHANGED phase
      BY <1>3, <2>4 DEF MergeStep, CommitItem, CompleteTask, MarkPassed, MarkFailed,
        ReloadMergedTask, FailMergedTask, RequeueTask, rows
    <3> QED
      BY <1>1, <3>1
  <2> QED
    BY <2>1, <2>2, <2>3, <2>4
<1>4. ASSUME NEW a \in Attempt, ApproveTaskOutput(a) PROVE PhaseMoves
  BY <1>4, PhaseWrite DEF ApproveTaskOutput
<1>5. ASSUME NEW a \in Attempt, RejectTaskOutput(a) PROVE PhaseMoves
  BY <1>5, PhaseWrite DEF RejectTaskOutput
<1>6. ASSUME NEW t \in Tasks, CloseStalePhase(t) PROVE PhaseMoves
  BY <1>6, PhaseWrite DEF CloseStalePhase
<1>7. ASSUME Worker, \A a \in Attempt : ~GoStep(a), ~MergeStep,
             \A a \in Attempt : ~ApproveTaskOutput(a) /\ ~RejectTaskOutput(a)
      PROVE  UNCHANGED phase
  BY <1>7 DEF Worker, WakeWaiter, LatestRunningAttempt, StartAttempt, ServeRequest,
    EnqueueApproved, RejectAttempt, RejectTask, rows
<1>8. ASSUME RecoveryStep, \A t \in Tasks : ~CloseStalePhase(t) PROVE UNCHANGED phase
  BY <1>8 DEF RecoveryStep, CloseStaleStatus, RequeueStaleTask, FinishRecovery, rows
<1>9. ASSUME Crash \/ UNCHANGED vars \/ \E t \in Tasks : Dispatch(t) PROVE UNCHANGED phase
  BY <1>9 DEF Crash, vars, Dispatch, rows
<1> QED
  BY <1>1, <1>2, <1>3, <1>4, <1>5, <1>6, <1>7, <1>8, <1>9, NextCases

(***************************************************************************)
(* It moves the status of an attempt only when the phase is terminal.      *)
(***************************************************************************)
OutcomeMoves ==
  \A b \in Attempt :
    outcome'[b] = outcome[b]
      \/ (phase[b] \in TerminalPhase /\ ValidAttemptTransition(outcome[b], outcome'[b]))

LEMMA OutcomeWrite ==
  ASSUME TypeOK, NEW x, NEW to, phase[x] \in TerminalPhase,
         outcome' = UpdateAttemptStatus(outcome, x, to)
  PROVE  OutcomeMoves
BY DEF TypeOK, OutcomeMoves, UpdateAttemptStatus

LEMMA OutcomeStep == TypeOK /\ PhaseFirst /\ [Next]_vars /\ ~CreateAttempt => OutcomeMoves
<1> SUFFICES ASSUME TypeOK, PhaseFirst, [Next]_vars, ~CreateAttempt PROVE OutcomeMoves
  OBVIOUS
<1>1. ASSUME UNCHANGED outcome PROVE OutcomeMoves
  BY <1>1 DEF OutcomeMoves
<1>2. ASSUME NEW a \in Attempt, FailStatus(a) PROVE OutcomeMoves
  <2>1. phase[a] \in TerminalPhase
    BY <1>2 DEF FailStatus, PhaseFirst
  <2> QED
    BY <1>2, <2>1, OutcomeWrite DEF FailStatus
<1>3. ASSUME NEW a \in Attempt, GoStep(a), ~FailStatus(a) PROVE UNCHANGED outcome
  BY <1>3 DEF GoStep, ExpansionStep, FailStep, HandleStep, Advance, StepFails, EnqueueMerge,
    RequestScopeExpansion, ParkForExpansion, ReloadAfterExpansion, ReloadAttempt, FailPhase,
    ReloadTask, FailTask, RefuseToHandle, RetryTask, EscalateTask, RequeueEscalated,
    BlockTask, rows
<1>4. ASSUME MarkPassed \/ MarkFailed PROVE OutcomeMoves
  <2>1. phase[item.attempt] \in TerminalPhase
    BY <1>4 DEF MarkPassed, MarkFailed, PhaseFirst
  <2>2. CASE MarkPassed
    BY <2>1, <2>2, OutcomeWrite DEF MarkPassed
  <2>3. CASE MarkFailed
    BY <2>1, <2>3, OutcomeWrite DEF MarkFailed
  <2> QED
    BY <1>4, <2>2, <2>3
<1>5. ASSUME MergeStep, ~MarkPassed, ~MarkFailed PROVE UNCHANGED outcome
  BY <1>5 DEF MergeStep, TakeItem, CommitItem, CompleteTask, MarkSucceeded, RefuseItem,
    ReloadMergedTask, FailMergedTask, RequeueTask, rows
<1>6. ASSUME RejectAttempt PROVE OutcomeMoves
  <2>1. phase[ctl.attempt] \in TerminalPhase
    BY <1>6 DEF RejectAttempt, PhaseFirst
  <2> QED
    BY <1>6, <2>1, OutcomeWrite DEF RejectAttempt
<1>7. ASSUME CloseStaleStatus PROVE OutcomeMoves
  <2>1. phase[Latest(rtask)] \in TerminalPhase
    BY <1>7 DEF CloseStaleStatus, PhaseFirst
  <2> QED
    BY <1>7, <2>1, OutcomeWrite DEF CloseStaleStatus
<1>8. ASSUME Worker, \A a \in Attempt : ~GoStep(a), ~MergeStep, ~RejectAttempt
      PROVE  UNCHANGED outcome
  BY <1>8 DEF Worker, WakeWaiter, LatestRunningAttempt, StartAttempt, ServeRequest,
    EnqueueApproved, RejectTask, ApproveTaskOutput, RejectTaskOutput, rows
<1>9. ASSUME RecoveryStep, ~CloseStaleStatus PROVE UNCHANGED outcome
  BY <1>9 DEF RecoveryStep, CloseStalePhase, RequeueStaleTask, FinishRecovery, rows
<1>10. ASSUME Crash \/ UNCHANGED vars \/ \E t \in Tasks : Dispatch(t)
       PROVE  UNCHANGED outcome
  BY <1>10 DEF Crash, vars, Dispatch, rows
<1>11. RejectAttempt => Worker
  BY DEF Worker, ServeRequest
<1> QED
  BY <1>1, <1>2, <1>3, <1>4, <1>5, <1>6, <1>7, <1>8, <1>9, <1>10, <1>11, NextCases

LEMMA TriesKept == [Next]_vars /\ ~CreateAttempt => UNCHANGED tries
BY NextCases, WorkerLeaves, RecoveryLeaves DEF Dispatch, Crash, vars, rows

(* Terminal phases and empty rows stay as they are. *)
LEMMA PhaseLimits ==
  ASSUME NEW from, NEW to, ValidPhaseTransition(from, to)
  PROVE  from \notin TerminalPhase \cup {"none"} /\ to # "none"
BY DEF ValidPhaseTransition, NextPhase, TerminalPhase

LEMMA OutcomeLimits ==
  ASSUME NEW from, NEW to, ValidAttemptTransition(from, to)
  PROVE  from # "none" /\ to # "none"
BY DEF ValidAttemptTransition, AttemptStatus

(***************************************************************************)
(* The attempt that is being created fits, and nothing was in its row.     *)
(***************************************************************************)
LEMMA NewAttempt ==
  ASSUME TypeOK, Bounded, Rows, CreateAttempt, NEW new, new = <<disp, tries[disp] + 1>>
  PROVE  /\ new \in Attempt /\ disp \in Tasks
         /\ phase[new] = "none" /\ outcome[new] = "none"
         /\ phase' = [phase EXCEPT ![new] = "executing"]
         /\ outcome' = [outcome EXCEPT ![new] = "running"]
         /\ tries' = [tries EXCEPT ![disp] = tries[disp] + 1]
         /\ UNCHANGED <<go, merger, control, process>>
<1>1. disp \in Tasks /\ tries[disp] \in Nat /\ tries[disp] < MaxAttempts[disp]
  BY DEF CreateAttempt, TypeOK, Bounded
<1>2. new \in Attempt
  <2>1. MaxAttempts[disp] \in Nat
    BY <1>1, PipelineAssumption
  <2>2. tries[disp] + 1 \in Nat \ {0} /\ tries[disp] + 1 <= MaxAttempts[disp]
    BY <1>1, <2>1
  <2> QED
    BY <1>1, <2>2, AttemptMade
<1>3. ~(new[2] <= tries[new[1]])
  BY <1>1
<1>4. phase[new] = "none" /\ outcome[new] = "none"
  BY <1>2, <1>3 DEF Rows
<1> QED
  BY <1>1, <1>2, <1>4 DEF CreateAttempt

LEMMA RowsStep ==
  TypeOK /\ Bounded /\ Rows /\ PhaseFirst /\ [Next]_vars => Rows'
<1> SUFFICES ASSUME TypeOK, Bounded, Rows, PhaseFirst, [Next]_vars, NEW b \in Attempt
             PROVE  (/\ b[2] <= tries[b[1]] <=> phase[b] # "none"
                     /\ b[2] <= tries[b[1]] <=> outcome[b] # "none")'
  BY DEF Rows
<1>1. CASE ~CreateAttempt
  <2>1. PhaseMoves /\ OutcomeMoves /\ UNCHANGED tries
    BY <1>1, PhaseStep, OutcomeStep, TriesKept
  <2>2. phase'[b] # "none" <=> phase[b] # "none"
    BY <2>1, PhaseLimits DEF PhaseMoves
  <2>3. outcome'[b] # "none" <=> outcome[b] # "none"
    BY <2>1, OutcomeLimits DEF OutcomeMoves
  <2> QED
    BY <2>1, <2>2, <2>3 DEF Rows
<1>2. CASE CreateAttempt
  <2> DEFINE new == <<disp, tries[disp] + 1>>
  <2>1. /\ new \in Attempt /\ disp \in Tasks
        /\ phase' = [phase EXCEPT ![new] = "executing"]
        /\ outcome' = [outcome EXCEPT ![new] = "running"]
        /\ tries' = [tries EXCEPT ![disp] = tries[disp] + 1]
    BY <1>2, NewAttempt
  <2>2. tries[disp] \in Nat /\ b[1] \in Tasks /\ b[2] \in Nat /\ b = <<b[1], b[2]>>
    BY <2>1, AttemptParts DEF TypeOK
  <2>3. CASE b = new
    <3>1. b[2] <= tries'[b[1]]
      BY <2>1, <2>2, <2>3 DEF TypeOK
    <3>2. phase'[b] = "executing" /\ outcome'[b] = "running"
      BY <2>1, <2>3 DEF TypeOK
    <3> QED
      BY <3>1, <3>2
  <2>4. CASE b # new
    <3>1. b[2] <= tries'[b[1]] <=> b[2] <= tries[b[1]]
      BY <2>1, <2>2, <2>4 DEF TypeOK
    <3>2. phase'[b] = phase[b] /\ outcome'[b] = outcome[b]
      <4> HIDE DEF new
      <4> QED
        BY <2>1, <2>4 DEF TypeOK
    <3> QED
      BY <3>1, <3>2 DEF Rows
  <2> QED
    BY <2>3, <2>4
<1> QED
  BY <1>1, <1>2

(***************************************************************************)
(* Recovery closes an attempt that is there and running.                   *)
(***************************************************************************)
LEMMA StaleIsOpen ==
  ASSUME TypeOK, Bounded, Rows, PhaseFirst, NEW t \in Tasks, Stale(t), tries[t] > 0
  PROVE  /\ Latest(t) \in Attempt
         /\ ValidPhaseTransition(phase[Latest(t)], "failed")
         /\ outcome[Latest(t)] = "running"
<1>1. tries[t] \in Nat \ {0} /\ tries[t] <= MaxAttempts[t]
  BY DEF TypeOK, Bounded
<1>2. Latest(t) \in Attempt
  BY <1>1, AttemptMade DEF Latest
<1>3. Latest(t) \in AttemptsOf(t)
  BY <1>1 DEF Latest, AttemptsOf
<1>4. phase[Latest(t)] \notin TerminalPhase
  BY <1>3 DEF Stale
<1>5. phase[Latest(t)] # "none" /\ outcome[Latest(t)] # "none"
  <2>1. Latest(t)[2] <= tries[Latest(t)[1]]
    BY <1>1 DEF Latest
  <2> QED
    BY <1>2, <2>1 DEF Rows
<1>6. phase[Latest(t)] \in DOMAIN NextPhase
  BY <1>2, <1>4, <1>5 DEF TypeOK, AttemptPhase
<1>7. outcome[Latest(t)] = "running"
  BY <1>2, <1>4, <1>5 DEF PhaseFirst
<1> QED
  BY <1>2, <1>6, <1>7 DEF ValidPhaseTransition

(***************************************************************************)
(* PhaseFirst, apart from the creation of an attempt: nothing leaves a     *)
(* terminal phase, and whoever goes on to write a status has just found or *)
(* written one.                                                            *)
(***************************************************************************)
LEMMA FailStatusEntered ==
  ASSUME TypeOK, [Next]_vars, NEW b \in Attempt, go'[b] = "fail_status"
  PROVE  go[b] = "fail_status" \/ phase'[b] \in TerminalPhase
<1>1. ASSUME go' = go PROVE go[b] = "fail_status"
  BY <1>1
<1>2. ASSUME NEW a \in Attempt, GoStep(a)
      PROVE  go[b] = "fail_status" \/ phase'[b] \in TerminalPhase
  <2>1. CASE ReloadAttempt(a)
    BY <2>1 DEF ReloadAttempt, Goto, TypeOK, rows
  <2>2. CASE FailPhase(a)
    <3>1. CASE ValidPhaseTransition(phase[a], "failed")
      BY <2>2, <3>1 DEF FailPhase, Goto, TypeOK, UpdateAttemptPhase, TerminalPhase
    <3>2. CASE ~ValidPhaseTransition(phase[a], "failed")
      BY <2>2, <3>2 DEF FailPhase, Goto, TypeOK
    <3> QED
      BY <3>1, <3>2
  <2>3. CASE Advance(a)
    <3>1. NextPhase[go[a]] # "fail_status"
      BY <2>3, Names DEF Advance
    <3> QED
      BY <2>3, <3>1 DEF Advance, Goto, TypeOK
  <2>4. CASE ~ReloadAttempt(a) /\ ~FailPhase(a) /\ ~Advance(a)
    BY <1>2, <2>4 DEF GoStep, ExpansionStep, FailStep, HandleStep, StepFails, EnqueueMerge,
      RequestScopeExpansion, ParkForExpansion, ReloadAfterExpansion, FailStatus, ReloadTask,
      FailTask, RefuseToHandle, RetryTask, EscalateTask, RequeueEscalated, BlockTask, Goto,
      TypeOK
  <2> QED
    BY <2>1, <2>2, <2>3, <2>4
<1>3. ASSUME StartAttempt PROVE go[b] = "fail_status"
  BY <1>3 DEF StartAttempt, Goto, TypeOK
<1>4. ASSUME Crash PROVE FALSE
  BY <1>4 DEF Crash
<1>5. ASSUME Worker, \A a \in Attempt : ~GoStep(a), ~StartAttempt PROVE go' = go
  BY <1>5, MergeLeaves DEF Worker, WakeWaiter, LatestRunningAttempt, ServeRequest,
    EnqueueApproved, RejectAttempt, RejectTask, ApproveTaskOutput, RejectTaskOutput
<1> QED
  BY <1>1, <1>2, <1>3, <1>4, <1>5, NextCases, RecoveryLeaves DEF Dispatch, CreateAttempt, vars

LEMMA MergeStatusEntered ==
  ASSUME TypeOK, ItemHeld, [Next]_vars, mpc' \in {"pass", "mark_failed"}
  PROVE  \/ UNCHANGED <<mpc, item>>
         \/ item' = item /\ item.attempt \in Attempt /\ phase'[item.attempt] \in TerminalPhase
<1>1. ASSUME MarkSucceeded
      PROVE  /\ item' = item /\ item.attempt \in Attempt
             /\ phase'[item.attempt] \in TerminalPhase
  <2>1. item.attempt \in Attempt
    BY <1>1 DEF MarkSucceeded, ItemHeld
  <2>2. ValidPhaseTransition(phase[item.attempt], "succeeded") /\ item' = item
    BY <1>1 DEF MarkSucceeded, Merging, MergeDone
  <2> QED
    BY <1>1, <2>1, <2>2 DEF MarkSucceeded, UpdateAttemptPhase, TypeOK, TerminalPhase
<1>2. ASSUME RefuseItem
      PROVE  /\ item' = item /\ item.attempt \in Attempt
             /\ phase'[item.attempt] \in TerminalPhase
  <2>1. item.attempt \in Attempt
    BY <1>2 DEF RefuseItem, ItemHeld
  <2>2. ValidPhaseTransition(phase[item.attempt], "failed") /\ item' = item
    BY <1>2 DEF RefuseItem, Merging
  <2> QED
    BY <1>2, <2>1, <2>2 DEF RefuseItem, UpdateAttemptPhase, TypeOK, TerminalPhase
<1>3. ASSUME MergeStep, ~MarkSucceeded, ~RefuseItem PROVE FALSE
  BY <1>3 DEF MergeStep, TakeItem, CommitItem, CompleteTask, MarkPassed, MarkFailed,
    ReloadMergedTask, FailMergedTask, RequeueTask, Merging, MergeDone
<1>4. ASSUME Worker, ~MergeStep PROVE UNCHANGED <<mpc, item>>
  BY <1>4, GoLeaves DEF Worker, WakeWaiter, LatestRunningAttempt, StartAttempt, ServeRequest,
    EnqueueApproved, RejectAttempt, RejectTask, ApproveTaskOutput, RejectTaskOutput, merger
<1>5. ASSUME Crash PROVE FALSE
  BY <1>5 DEF Crash, MergeDone
<1> QED
  BY <1>1, <1>2, <1>3, <1>4, <1>5, NextCases, RecoveryLeaves
  DEF Dispatch, CreateAttempt, vars, merger

LEMMA RejectStatusEntered ==
  ASSUME TypeOK, Rows, [Next]_vars, ctl'.pc = "reject_status"
  PROVE  \/ ctl' = ctl
         \/ ctl'.attempt \in Attempt /\ phase'[ctl'.attempt] \in TerminalPhase
<1>1. ASSUME NEW a \in Attempt, RejectTaskOutput(a)
      PROVE  ctl'.attempt \in Attempt /\ phase'[ctl'.attempt] \in TerminalPhase
  <2>1. ctl'.attempt = a /\ a[2] <= tries[a[1]] /\ phase' = UpdateAttemptPhase(phase, a, "failed")
    BY <1>1 DEF RejectTaskOutput, NewRequest
  <2>2. phase[a] \in AttemptPhase
    BY <2>1 DEF Rows, TypeOK
  <2>3. phase'[a] \in TerminalPhase
    <3>1. CASE phase[a] \in TerminalPhase
      BY <2>1, <3>1, PhaseLimits DEF UpdateAttemptPhase
    <3>2. CASE phase[a] \in DOMAIN NextPhase
      BY <2>1, <3>2 DEF UpdateAttemptPhase, ValidPhaseTransition, TypeOK, TerminalPhase
    <3> QED
      BY <2>2, <3>1, <3>2 DEF AttemptPhase
  <2> QED
    BY <2>1, <2>3
<1>2. ASSUME NEW a \in Attempt, ApproveTaskOutput(a) PROVE FALSE
  BY <1>2 DEF ApproveTaskOutput, NewRequest
<1>3. ASSUME ServeRequest PROVE FALSE
  <2>1. CASE RejectAttempt
    <3>1. ctl \in [pc : {"enqueue", "reject_status", "reject_task"},
                  attempt : Attempt, running : BOOLEAN]
      BY <2>1 DEF RejectAttempt, NoRequest, TypeOK
    <3> QED
      BY <2>1, <3>1 DEF RejectAttempt
  <2>2. CASE EnqueueApproved \/ RejectTask
    BY <2>2 DEF EnqueueApproved, RejectTask, NoRequest
  <2> QED
    BY <1>3, <2>1, <2>2 DEF ServeRequest
<1>4. ASSUME Worker, ~ServeRequest,
             \A a \in Attempt : ~ApproveTaskOutput(a) /\ ~RejectTaskOutput(a)
      PROVE  ctl' = ctl
  BY <1>4, GoLeaves, MergeLeaves DEF Worker, WakeWaiter, LatestRunningAttempt, StartAttempt,
    control
<1>5. ASSUME Crash PROVE FALSE
  BY <1>5 DEF Crash, NoRequest
<1> QED
  BY <1>1, <1>2, <1>3, <1>4, <1>5, NextCases, RecoveryLeaves
  DEF Dispatch, CreateAttempt, vars, control

LEMMA CloseEntered ==
  ASSUME TypeOK, Quiet, [Next]_vars, mode' = "close"
  PROVE  UNCHANGED vars \/ \E t \in Tasks : CloseStalePhase(t)
<1>1. CASE mode = "up"
  <2>1. ~Crash /\ ~RecoveryStep
    BY <1>1, RecoveryLeaves DEF Crash
  <2> QED
    BY <1>1, <2>1, NextCases, WorkerLeaves DEF Dispatch, CreateAttempt, process
<1>2. CASE mode # "up"
  <2>1. ASSUME RecoveryStep, \A t \in Tasks : ~CloseStalePhase(t) PROVE FALSE
    BY <2>1 DEF RecoveryStep, CloseStaleStatus, RequeueStaleTask, FinishRecovery
  <2>2. ~Crash
    BY DEF Crash
  <2> QED
    BY <1>2, <2>1, <2>2, OnlyRecovery
<1> QED
  BY <1>1, <1>2

(* A terminal phase stays as it is. *)
LEMMA TerminalKept ==
  ASSUME TypeOK, Bounded, Rows, [Next]_vars, NEW b \in Attempt, phase[b] \in TerminalPhase
  PROVE  phase'[b] = phase[b]
<1>1. CASE ~CreateAttempt
  BY <1>1, PhaseStep, PhaseLimits DEF PhaseMoves
<1>2. CASE CreateAttempt
  <2> DEFINE new == <<disp, tries[disp] + 1>>
  <2>1. phase[new] = "none" /\ phase' = [phase EXCEPT ![new] = "executing"]
    BY <1>2, NewAttempt
  <2> HIDE DEF new
  <2>2. b # new
    BY <2>1 DEF TerminalPhase
  <2> QED
    BY <2>1, <2>2 DEF TypeOK
<1> QED
  BY <1>1, <1>2

LEMMA PhaseFirstStep ==
  TypeOK /\ Bounded /\ Quiet /\ ItemHeld /\ Rows /\ PhaseFirst /\ [Next]_vars => PhaseFirst'
<1> SUFFICES ASSUME TypeOK, Bounded, Quiet, ItemHeld, Rows, PhaseFirst, [Next]_vars
             PROVE  PhaseFirst'
  OBVIOUS
<1>1. ASSUME NEW b \in Attempt
      PROVE  outcome'[b] \in {"none", "running"} \/ phase'[b] \in TerminalPhase
  <2>1. CASE outcome'[b] = outcome[b]
    BY <2>1, TerminalKept DEF PhaseFirst
  <2>2. CASE ~CreateAttempt
    BY <2>1, <2>2, OutcomeStep, TerminalKept DEF OutcomeMoves
  <2>3. CASE CreateAttempt /\ outcome'[b] # outcome[b]
    <3> DEFINE new == <<disp, tries[disp] + 1>>
    <3>1. new \in Attempt /\ outcome' = [outcome EXCEPT ![new] = "running"]
      BY <2>3, NewAttempt
    <3> HIDE DEF new
    <3> QED
      BY <2>3, <3>1 DEF TypeOK
  <2> QED
    BY <2>1, <2>2, <2>3
<1>2. ASSUME NEW b \in Attempt, go'[b] = "fail_status" PROVE phase'[b] \in TerminalPhase
  BY <1>2, FailStatusEntered, TerminalKept DEF PhaseFirst
<1>3. ASSUME mpc' \in {"pass", "mark_failed"} PROVE phase'[item'.attempt] \in TerminalPhase
  <2>1. CASE UNCHANGED <<mpc, item>>
    <3>1. item.attempt \in Attempt /\ phase[item.attempt] \in TerminalPhase
      BY <1>3, <2>1 DEF ItemHeld, PhaseFirst
    <3> QED
      BY <2>1, <3>1, TerminalKept
  <2> QED
    BY <1>3, <2>1, MergeStatusEntered
<1>4. ASSUME ctl'.pc = "reject_status" PROVE phase'[ctl'.attempt] \in TerminalPhase
  <2>1. CASE ctl' = ctl
    <3>1. ctl.attempt \in Attempt
      BY <1>4, <2>1 DEF TypeOK, NoRequest
    <3>2. phase[ctl.attempt] \in TerminalPhase
      BY <1>4, <2>1 DEF PhaseFirst
    <3> QED
      BY <2>1, <3>1, <3>2, TerminalKept
  <2> QED
    BY <1>4, <2>1, RejectStatusEntered
<1>5. ASSUME mode' = "close" PROVE phase'[Latest(rtask)'] \in TerminalPhase
  <2>1. CASE UNCHANGED vars
    BY <1>5, <2>1 DEF vars, rows, process, Latest, PhaseFirst
  <2>2. ASSUME NEW t \in Tasks, CloseStalePhase(t)
        PROVE  phase'[Latest(rtask)'] \in TerminalPhase
    <3>1. Latest(t) \in Attempt /\ ValidPhaseTransition(phase[Latest(t)], "failed")
      BY <2>2, StaleIsOpen DEF CloseStalePhase
    <3>2. phase'[Latest(t)] = "failed"
      BY <2>2, <3>1 DEF CloseStalePhase, UpdateAttemptPhase, TypeOK
    <3>3. Latest(rtask)' = Latest(t)
      BY <2>2 DEF CloseStalePhase, Latest
    <3> QED
      BY <3>2, <3>3 DEF TerminalPhase
  <2> QED
    BY <1>5, <2>1, <2>2, CloseEntered
<1> QED
  BY <1>1, <1>2, <1>3, <1>4, <1>5 DEF PhaseFirst

(***************************************************************************)
(* What recovery closes was running, so that nothing refuses the write.    *)
(***************************************************************************)
LEMMA CloseAcceptedStep ==
  TypeOK /\ Bounded /\ Quiet /\ Rows /\ PhaseFirst /\ CloseAccepted /\ [Next]_vars
    => CloseAccepted'
<1> SUFFICES ASSUME TypeOK, Bounded, Quiet, Rows, PhaseFirst, CloseAccepted, [Next]_vars
             PROVE  CloseAccepted'
  OBVIOUS
<1>1. ASSUME mode' = "close" PROVE outcome'[Latest(rtask)'] = "running"
  <2>1. CASE UNCHANGED vars
    BY <1>1, <2>1 DEF vars, rows, process, Latest, CloseAccepted
  <2>2. ASSUME NEW t \in Tasks, CloseStalePhase(t)
        PROVE  outcome'[Latest(rtask)'] = "running"
    <3>1. outcome[Latest(t)] = "running"
      BY <2>2, StaleIsOpen DEF CloseStalePhase
    <3> QED
      BY <2>2, <3>1 DEF CloseStalePhase, Latest
  <2> QED
    BY <1>1, <2>1, <2>2, CloseEntered
<1>2. mode' # "refused"
  <2>1. ASSUME CloseStaleStatus PROVE mode' = "reset"
    BY <2>1 DEF CloseStaleStatus, CloseAccepted, ValidAttemptTransition, AttemptStatus
  <2>2. ASSUME RecoveryStep, ~CloseStaleStatus PROVE mode' # "refused"
    BY <2>2 DEF RecoveryStep, CloseStalePhase, RequeueStaleTask, FinishRecovery
  <2>3. ASSUME Crash PROVE mode' = "scan"
    BY <2>3 DEF Crash
  <2>4. ASSUME UNCHANGED mode PROVE mode' # "refused"
    BY <2>4 DEF CloseAccepted
  <2> QED
    BY <2>1, <2>2, <2>3, <2>4, NextCases, WorkerLeaves
    DEF Dispatch, CreateAttempt, vars, process
<1> QED
  BY <1>1, <1>2 DEF CloseAccepted

(***************************************************************************)
(* A task becomes done by CompleteTask alone, after its commit.            *)
(***************************************************************************)
(* A status write that is not to "done" makes no task done. *)
LEMMA NotDone ==
  ASSUME TypeOK, NEW x, NEW to, to # "done", status' = UpdateTaskStatus(status, x, to)
  PROVE  \A t \in Tasks : status'[t] = "done" => status[t] = "done"
BY DEF UpdateTaskStatus, TypeOK

NothingDone == \A t \in Tasks : status'[t] = "done" => status[t] = "done"

LEMMA DoneEntered == TypeOK /\ [Next]_vars /\ ~CompleteTask => NothingDone
<1> SUFFICES ASSUME TypeOK, [Next]_vars, ~CompleteTask PROVE NothingDone
  OBVIOUS
<1>1. ASSUME NEW x, NEW to, to # "done", status' = UpdateTaskStatus(status, x, to)
      PROVE  NothingDone
  BY <1>1, NotDone DEF NothingDone
<1>2. ASSUME UNCHANGED status PROVE NothingDone
  BY <1>2 DEF NothingDone
<1>3. ASSUME NEW t \in Tasks, Dispatch(t) PROVE NothingDone
  BY <1>1, <1>3 DEF Dispatch
<1>4. ASSUME NEW t \in Tasks, WakeWaiter(t) PROVE NothingDone
  BY <1>1, <1>4 DEF WakeWaiter
<1>5. ASSUME NEW a \in Attempt, GoStep(a) PROVE NothingDone
  <2>1. ASSUME ParkForExpansion(a) PROVE NothingDone
    BY <1>1, <2>1 DEF ParkForExpansion
  <2>2. ASSUME FailTask(a) PROVE NothingDone
    BY <1>1, <2>2 DEF FailTask
  <2>3. ASSUME RetryTask(a) \/ RequeueEscalated(a) PROVE NothingDone
    BY <1>1, <2>3 DEF RetryTask, RequeueEscalated
  <2>4. ASSUME BlockTask(a) PROVE NothingDone
    BY <1>1, <2>4 DEF BlockTask
  <2>5. CASE /\ ~ParkForExpansion(a) /\ ~FailTask(a) /\ ~RetryTask(a)
             /\ ~RequeueEscalated(a) /\ ~BlockTask(a)
    BY <1>2, <1>5, <2>5 DEF GoStep, ExpansionStep, FailStep, HandleStep, Advance, StepFails,
      EnqueueMerge, RequestScopeExpansion, ReloadAfterExpansion, ReloadAttempt, FailPhase,
      FailStatus, ReloadTask, RefuseToHandle, EscalateTask, rows
  <2> QED
    BY <2>1, <2>2, <2>3, <2>4, <2>5
<1>6. ASSUME MergeStep PROVE NothingDone
  <2>1. ASSUME FailMergedTask PROVE NothingDone
    BY <1>1, <2>1 DEF FailMergedTask
  <2>2. ASSUME RequeueTask PROVE NothingDone
    BY <1>1, <2>2 DEF RequeueTask
  <2>3. CASE ~FailMergedTask /\ ~RequeueTask
    BY <1>2, <1>6, <2>3 DEF MergeStep, TakeItem, CommitItem, MarkSucceeded, MarkPassed,
      RefuseItem, MarkFailed, ReloadMergedTask, rows
  <2> QED
    BY <2>1, <2>2, <2>3
<1>7. ASSUME ServeRequest PROVE NothingDone
  <2>1. ASSUME RejectTask PROVE NothingDone
    BY <1>1, <1>2, <2>1 DEF RejectTask
  <2> QED
    BY <1>2, <1>7, <2>1 DEF ServeRequest, EnqueueApproved, RejectAttempt, rows
<1>8. ASSUME RecoveryStep PROVE NothingDone
  <2>1. ASSUME NEW t \in Tasks, RequeueStaleTask(t) PROVE NothingDone
    BY <2>1 DEF RequeueStaleTask, NothingDone, TypeOK
  <2> QED
    BY <1>2, <1>8, <2>1 DEF RecoveryStep, CloseStalePhase, CloseStaleStatus, FinishRecovery,
      rows
<1>9. ASSUME Worker, \A t \in Tasks : ~WakeWaiter(t), \A a \in Attempt : ~GoStep(a),
             ~MergeStep, ~ServeRequest
      PROVE  UNCHANGED status
  BY <1>9 DEF Worker, LatestRunningAttempt, StartAttempt, ApproveTaskOutput, RejectTaskOutput,
    rows
<1>10. ASSUME CreateAttempt \/ Crash \/ UNCHANGED vars PROVE UNCHANGED status
  BY <1>10 DEF CreateAttempt, Crash, vars, rows
<1> QED
  BY <1>2, <1>3, <1>4, <1>5, <1>6, <1>7, <1>8, <1>9, <1>10, NextCases

(***************************************************************************)
(* A commit adds to the repository; nothing is ever taken out of it.       *)
(***************************************************************************)
LEMMA AppendIsSomething ==
  ASSUME NEW S, NEW s \in Seq(S), NEW x \in S
  PROVE  Append(s, x) # <<>>
<1>1. Len(Append(s, x)) = Len(s) + 1 /\ Len(s) \in Nat
  OBVIOUS
<1>2. Len(<<>>) = 0
  OBVIOUS
<1> QED
  BY <1>1, <1>2

LEMMA ItemCommitted ==
  ASSUME TypeOK, ItemHeld, CommitItem
  PROVE  /\ item.attempt[1] \in Tasks
         /\ \A t \in Tasks :
              commits'[t] # <<>> <=> commits[t] # <<>> \/ t = item.attempt[1]
<1>1. item.attempt[1] \in Tasks /\ item.attempt[2] \in Nat
  BY AttemptParts DEF CommitItem, ItemHeld
<1>2. commits[item.attempt[1]] \in Seq(Nat)
  BY <1>1 DEF TypeOK
<1>3. Append(commits[item.attempt[1]], item.attempt[2]) # <<>>
  BY <1>1, <1>2, AppendIsSomething
<1> QED
  BY <1>1, <1>3 DEF CommitItem, TypeOK

LEMMA CommitsKept ==
  TypeOK /\ ItemHeld /\ [Next]_vars => \A t \in Tasks : commits[t] # <<>> => commits'[t] # <<>>
<1> SUFFICES ASSUME TypeOK, ItemHeld, [Next]_vars, NEW t \in Tasks, commits[t] # <<>>
             PROVE  commits'[t] # <<>>
  OBVIOUS
<1>1. ASSUME CommitItem PROVE commits'[t] # <<>>
  BY <1>1, ItemCommitted
<1>2. ASSUME MergeStep, ~CommitItem PROVE UNCHANGED commits
  BY <1>2 DEF MergeStep, TakeItem, CompleteTask, MarkSucceeded, MarkPassed, RefuseItem,
    MarkFailed, ReloadMergedTask, FailMergedTask, RequeueTask
<1>3. ASSUME Worker, ~MergeStep PROVE UNCHANGED commits
  BY <1>3, GoLeaves DEF Worker, WakeWaiter, LatestRunningAttempt, StartAttempt, ServeRequest,
    EnqueueApproved, RejectAttempt, RejectTask, ApproveTaskOutput, RejectTaskOutput
<1> QED
  BY <1>1, <1>2, <1>3, NextCases, RecoveryLeaves DEF Dispatch, CreateAttempt, Crash, vars

LEMMA CompletedStep ==
  TypeOK /\ ItemHeld /\ Committed /\ [Next]_vars => CompletedIsCommitted'
<1> SUFFICES ASSUME TypeOK, ItemHeld, Committed, [Next]_vars, mpc' = "complete"
             PROVE  commits'[item'.attempt[1]] # <<>>
  BY DEF CompletedIsCommitted
<1>1. ASSUME CommitItem PROVE commits'[item'.attempt[1]] # <<>>
  BY <1>1, ItemCommitted DEF CommitItem, Merging
<1>2. ASSUME UNCHANGED <<mpc, item>> PROVE commits'[item'.attempt[1]] # <<>>
  <2>1. item.attempt[1] \in Tasks
    BY <1>2, AttemptParts DEF ItemHeld
  <2> QED
    BY <1>2, <2>1, CommitsKept DEF Committed, CompletedIsCommitted
<1>3. ASSUME MergeStep, ~CommitItem PROVE FALSE
  BY <1>3 DEF MergeStep, TakeItem, CompleteTask, MarkSucceeded, MarkPassed, RefuseItem,
    MarkFailed, ReloadMergedTask, FailMergedTask, RequeueTask, Merging, MergeDone
<1>4. ASSUME Worker, ~MergeStep PROVE UNCHANGED <<mpc, item>>
  BY <1>4, GoLeaves DEF Worker, WakeWaiter, LatestRunningAttempt, StartAttempt, ServeRequest,
    EnqueueApproved, RejectAttempt, RejectTask, ApproveTaskOutput, RejectTaskOutput, merger
<1>5. ASSUME Crash PROVE FALSE
  BY <1>5 DEF Crash, MergeDone
<1> QED
  BY <1>1, <1>2, <1>3, <1>4, <1>5, NextCases, RecoveryLeaves
  DEF Dispatch, CreateAttempt, vars, merger

LEMMA DoneStep == TypeOK /\ ItemHeld /\ Committed /\ [Next]_vars => DoneIsCommitted'
<1> SUFFICES ASSUME TypeOK, ItemHeld, Committed, [Next]_vars,
                    NEW t \in Tasks, status'[t] = "done"
             PROVE  commits'[t] # <<>>
  BY DEF DoneIsCommitted
<1>1. CASE CompleteTask
  <2>1. CASE t = item.attempt[1]
    BY <1>1, <2>1, CommitsKept DEF CompleteTask, Committed, CompletedIsCommitted
  <2>2. CASE t # item.attempt[1]
    <3>1. status[t] = "done"
      BY <1>1, <2>2 DEF CompleteTask, UpdateTaskStatus, TypeOK
    <3> QED
      BY <3>1, CommitsKept DEF Committed, DoneIsCommitted
  <2> QED
    BY <2>1, <2>2
<1>2. CASE ~CompleteTask
  BY <1>2, DoneEntered, CommitsKept DEF NothingDone, Committed, DoneIsCommitted
<1> QED
  BY <1>1, <1>2

-----------------------------------------------------------------------------
(* The two theorems. *)

LEMMA InitRecoverable == Init => Recoverable
<1> SUFFICES ASSUME Init PROVE Recoverable
  OBVIOUS
<1>1. Bounded /\ Quiet /\ ItemHeld
  <2>1. disp = NoTask /\ \A t \in Tasks : tries[t] = 0 /\ MaxAttempts[t] \in Nat
    BY PipelineAssumption DEF Init
  <2> QED
    BY <2>1 DEF Init, Bounded, Quiet, ItemHeld
<1>2. Rows
  <2> SUFFICES ASSUME NEW a \in Attempt
               PROVE  ~(a[2] <= tries[a[1]]) /\ phase[a] = "none" /\ outcome[a] = "none"
    BY DEF Rows
  <2>1. a[1] \in Tasks /\ a[2] \in Nat \ {0}
    BY AttemptParts
  <2> QED
    BY <2>1 DEF Init
<1>3. PhaseFirst /\ CloseAccepted
  BY DEF Init, PhaseFirst, CloseAccepted, NoRequest
<1> QED
  BY <1>1, <1>2, <1>3 DEF Recoverable

(***************************************************************************)
(* The closing of stale attempts is never refused: an attempt that Recover *)
(* finds with an open phase still has the status "running", whoever was    *)
(* writing when the process died.  Its later steps, the wait rows and the  *)
(* SRS, may still refuse the startup.                                      *)
(***************************************************************************)
THEOREM ClosingCorrect == Spec => []ClosingAccepted
<1>1. Init => Recoverable
  BY InitRecoverable
<1>2. TypeOK /\ Recoverable /\ [Next]_vars => Recoverable'
  BY BoundedStep, QuietStep, ItemStep, RowsStep, PhaseFirstStep, CloseAcceptedStep
  DEF Recoverable
<1>3. Recoverable => ClosingAccepted
  BY DEF Recoverable, CloseAccepted, ClosingAccepted
<1> QED
  BY <1>1, <1>2, <1>3, TypeCorrect, PTL DEF Spec

(***************************************************************************)
(* A task is done only if output of it was committed, for any number of    *)
(* requests, refused merges and crashes.                                   *)
(***************************************************************************)
THEOREM DoneCorrect == Spec => []DoneIsCommitted
<1>1. Init => ItemHeld /\ Committed
  BY DEF Init, ItemHeld, Committed, CompletedIsCommitted, DoneIsCommitted
<1>2. TypeOK /\ ItemHeld /\ Committed /\ [Next]_vars => (ItemHeld /\ Committed)'
  BY ItemStep, CompletedStep, DoneStep DEF Committed
<1>3. Committed => DoneIsCommitted
  BY DEF Committed
<1> QED
  BY <1>1, <1>2, <1>3, TypeCorrect, PTL DEF Spec

-----------------------------------------------------------------------------
(***************************************************************************)
(* An attempt nobody holds, and one a step does not touch.                 *)
(***************************************************************************)
LEMMA IdleIsSole ==
  ASSUME NEW b \in Attempt, ~InPlay(b)'
  PROVE  Sole(b)'
BY DEF InPlay, Queued, Busy, Working, Sole, LatestOnly, OneHolder, OnePlace, StatusKnown,
  PhaseKnown

LEMMA UntouchedIsSole ==
  ASSUME NEW b \in Attempt, Sole(b),
         go'[b] = go[b] \/ {go'[b], go[b]} \subseteq {"none", "parked"},
         status'[b[1]] = status[b[1]], phase'[b] = phase[b], tries'[b[1]] = tries[b[1]],
         disp' = b[1] => disp = b[1],
         Queued(b)' => Queued(b), OnePlace(b)',
         item'.attempt = b => item' = item /\ mpc' = mpc
  PROVE  Sole(b)'
<1> USE DEF Sole
<1>1. LatestOnly(b)'
  BY DEF LatestOnly, InPlay, Latest
<1>2. OneHolder(b)'
  BY DEF OneHolder, Busy
<1>3. StatusKnown(b)'
  BY DEF StatusKnown, Working
<1>4. PhaseKnown(b)'
  BY DEF PhaseKnown
<1> QED
  BY <1>1, <1>2, <1>3, <1>4

LEMMA SameQueue ==
  ASSUME queue' = queue, NEW b \in Attempt, Sole(b)
  PROVE  (Queued(b)' => Queued(b)) /\ OnePlace(b)'
BY DEF Queued, OnePlace, Sole, OneHolder

LEMMA LongerQueue ==
  ASSUME TypeOK, NEW x \in [attempt : Attempt, files : BOOLEAN], queue' = Append(queue, x),
         NEW b \in Attempt, Sole(b)
  PROVE  /\ x.attempt # b => (Queued(b)' => Queued(b))
         /\ x.attempt # b \/ ~Queued(b) => OnePlace(b)'
<1>1. queue \in Seq([attempt : Attempt, files : BOOLEAN])
  BY DEF TypeOK
<1>2. /\ Len(queue') = Len(queue) + 1 /\ Len(queue) \in Nat
      /\ \A i \in 1..Len(queue) : queue'[i] = queue[i]
      /\ queue'[Len(queue) + 1] = x
  BY <1>1
<1>3. \A i \in 1..Len(queue') : i \in 1..Len(queue) \/ i = Len(queue) + 1
  BY <1>2
<1>4. x.attempt # b => (Queued(b)' => Queued(b))
  BY <1>2, <1>3 DEF Queued
<1>5. x.attempt # b \/ ~Queued(b) => OnePlace(b)'
  BY <1>2, <1>3 DEF Queued, OnePlace, Sole, OneHolder
<1> QED
  BY <1>4, <1>5

LEMMA ShorterQueue ==
  ASSUME TypeOK, queue # <<>>, queue' = Tail(queue), NEW b \in Attempt, Sole(b)
  PROVE  /\ Queued(b)' => Queued(b) /\ Head(queue).attempt # b
         /\ OnePlace(b)'
         /\ Head(queue).attempt = b => Queued(b)
<1>1. queue \in Seq([attempt : Attempt, files : BOOLEAN])
  BY DEF TypeOK
<1>2. /\ Len(queue) \in Nat \ {0} /\ Len(queue') = Len(queue) - 1
      /\ \A i \in 1..Len(queue') : queue'[i] = queue[i + 1]
      /\ Head(queue) = queue[1]
  BY <1>1
<1>3. \A i \in 1..Len(queue') : i + 1 \in 1..Len(queue) /\ i + 1 # 1
  BY <1>2
<1>4. 1 \in 1..Len(queue)
  BY <1>2
<1>5. OnePlace(b)
  BY DEF Sole, OneHolder
<1>6. Queued(b)' => Queued(b) /\ Head(queue).attempt # b
  BY <1>2, <1>3, <1>4, <1>5 DEF Queued, OnePlace
<1>7. OnePlace(b)'
  <2> SUFFICES ASSUME NEW i \in 1..Len(queue'), NEW j \in 1..Len(queue'),
                      queue'[i].attempt = b, queue'[j].attempt = b
               PROVE  i = j
    BY DEF OnePlace
  <2>1. i + 1 = j + 1
    BY <1>2, <1>3, <1>5 DEF OnePlace
  <2> QED
    BY <2>1, <1>2
<1>8. Head(queue).attempt = b => Queued(b)
  BY <1>2, <1>4 DEF Queued
<1> QED
  BY <1>6, <1>7, <1>8

(***************************************************************************)
(* Who holds an attempt keeps its task from being dispatched or woken.     *)
(***************************************************************************)
LEMMA HeldStatus ==
  ASSUME TypeOK, Released, NEW b \in Attempt, Sole(b), InPlay(b)
  PROVE  status[b[1]] \in {"in_progress", "failed", "done"}
<1>1. CASE go[b] \notin {"none", "parked"}
  <2>1. go[b] \in Working \cup {"handle", "requeue"}
    BY <1>1 DEF TypeOK, Stage, Working
  <2> QED
    BY <2>1 DEF Sole, StatusKnown
<1>2. CASE Queued(b)
  BY <1>2 DEF Sole, StatusKnown
<1>3. CASE item.attempt = b
  <2>1. b # NoAttempt
    BY AttemptParts, PipelineAssumption DEF NoAttempt
  <2>2. mpc # "idle"
    BY <1>3, <2>1 DEF Released, NothingMerging
  <2>3. mpc \in Deciding \cup {"requeue", "succeed", "pass"}
    BY <2>2 DEF TypeOK, MergePC, Deciding
  <2> QED
    BY <1>3, <2>3 DEF Sole, StatusKnown
<1> QED
  BY <1>1, <1>2, <1>3 DEF InPlay

(* While the engine is not up nobody holds anything. *)
LEMMA DownIsIdle ==
  ASSUME Quiet, Released, mode # "up", NEW b \in Attempt
  PROVE  ~InPlay(b)
<1>1. b # NoAttempt
  BY AttemptParts, PipelineAssumption DEF NoAttempt
<1>2. item.attempt # b
  BY <1>1 DEF Quiet, Released, NothingMerging
<1>3. ~Queued(b)
  BY DEF Released, Queued
<1> QED
  BY <1>2, <1>3 DEF Quiet, InPlay

(* The other attempts of a task one of whose attempts is held. *)
LEMMA OthersIdle ==
  ASSUME NEW x \in Attempt, Sole(x), InPlay(x), NEW b \in Attempt, Sole(b), b # x,
         b[1] = x[1]
  PROVE  ~InPlay(b)
BY DEF Sole, LatestOnly, Latest

(***************************************************************************)
(* A step of the goroutine of x: its task's other attempts stay idle,      *)
(* those of other tasks are not touched.                                   *)
(***************************************************************************)
LEMMA GoWrites ==
  ASSUME TypeOK, NEW x \in Attempt, GoStep(x)
  PROVE  /\ \A b \in Attempt : b # x => go'[b] = go[b] /\ phase'[b] = phase[b]
         /\ \A t \in Tasks : t # x[1] => status'[t] = status[t]
         /\ exempt \subseteq exempt'
         /\ EnqueueMerge(x) \/ queue' = queue
<1> USE DEF TypeOK, Goto, rows, merger
<1>1. CASE Advance(x) \/ FailPhase(x)
  BY <1>1 DEF Advance, FailPhase, UpdateAttemptPhase
<1>2. CASE ParkForExpansion(x) \/ FailTask(x) \/ RetryTask(x) \/ RequeueEscalated(x) \/ BlockTask(x)
  BY <1>2 DEF ParkForExpansion, FailTask, RetryTask, RequeueEscalated, BlockTask,
    UpdateTaskStatus
<1>3. CASE ReloadAfterExpansion(x)
  BY <1>3 DEF ReloadAfterExpansion
<1>4. CASE StepFails(x) \/ RequestScopeExpansion(x) \/ EnqueueMerge(x)
  BY <1>4 DEF StepFails, RequestScopeExpansion, EnqueueMerge
<1>5. CASE ReloadAttempt(x) \/ FailStatus(x) \/ ReloadTask(x) \/ RefuseToHandle(x) \/ EscalateTask(x)
  BY <1>5 DEF ReloadAttempt, FailStatus, ReloadTask, RefuseToHandle, EscalateTask
<1> QED
  BY <1>1, <1>2, <1>3, <1>4, <1>5 DEF GoStep, ExpansionStep, FailStep, HandleStep

LEMMA GoOthers ==
  ASSUME TypeOK, NEW x \in Attempt, GoStep(x), NEW b \in Attempt, b # x,
         Sole(b), x[1] = b[1] => Sole(x)
  PROVE  Sole(b)'
<1>1. /\ go'[b] = go[b] /\ phase'[b] = phase[b]
      /\ b[1] # x[1] => status'[b[1]] = status[b[1]]
      /\ UNCHANGED <<tries, disp, mpc, item>>
  BY GoWrites, GoLeaves, AttemptParts
<1>2. (Queued(b)' => Queued(b)) /\ OnePlace(b)'
  <2>1. CASE queue' = queue
    BY <2>1, SameQueue
  <2>2. CASE EnqueueMerge(x)
    <3> DEFINE y == [attempt |-> x, files |-> TRUE]
    <3>1. y \in [attempt : Attempt, files : BOOLEAN] /\ y.attempt # b
      OBVIOUS
    <3>2. queue' = Append(queue, y)
      BY <2>2 DEF EnqueueMerge
    <3> HIDE DEF y
    <3> QED
      BY <3>1, <3>2, LongerQueue
  <2> QED
    BY <2>1, <2>2, GoWrites
<1>3. CASE b[1] # x[1] \/ UNCHANGED status
  BY <1>1, <1>2, <1>3, UntouchedIsSole
<1>4. CASE b[1] = x[1] /\ ~UNCHANGED status
  <2>1. InPlay(x)
    <3>1. go[x] \notin {"none", "parked"}
      BY <1>4 DEF GoStep, ExpansionStep, FailStep, HandleStep, Advance, StepFails, EnqueueMerge,
        RequestScopeExpansion, ParkForExpansion, ReloadAfterExpansion, ReloadAttempt, FailPhase,
        FailStatus, ReloadTask, FailTask, RefuseToHandle, RetryTask, EscalateTask,
        RequeueEscalated, BlockTask, rows
    <3> QED
      BY <3>1 DEF InPlay
  <2>2. ~InPlay(b)
    BY <1>4, <2>1, OthersIdle
  <2>3. ~InPlay(b)'
    BY <1>1, <1>2, <2>2 DEF InPlay
  <2> QED
    BY <2>3, IdleIsSole
<1> QED
  BY <1>3, <1>4

(* The goroutine's own attempt. *)
LEMMA GoOwn ==
  ASSUME TypeOK, NEW x \in Attempt, GoStep(x), Sole(x), x[1] \notin exempt'
  PROVE  Sole(x)'
<1>1. x[1] \in Tasks
  BY AttemptParts
<1>2. UNCHANGED <<tries, disp, mpc, item>>
  BY GoLeaves
<1>3. CASE ReloadAfterExpansion(x)
  <2>1. go[x] = "parked" /\ go'[x] = "none" /\ UNCHANGED <<status, phase, queue>>
    BY <1>3 DEF ReloadAfterExpansion, Goto, TypeOK, rows, merger
  <2> QED
    BY <1>2, <2>1, SameQueue, UntouchedIsSole
<1>4. CASE EnqueueMerge(x)
  <2> DEFINE y == [attempt |-> x, files |-> TRUE]
  <2>1. y \in [attempt : Attempt, files : BOOLEAN] /\ queue' = Append(queue, y)
    BY <1>4 DEF EnqueueMerge
  <2> HIDE DEF y
  <2>2. go[x] = "queued_for_merge" /\ go'[x] = "none" /\ UNCHANGED <<status, phase>>
    BY <1>4 DEF EnqueueMerge, Goto, TypeOK, rows
  <2>3. Busy(x) /\ InPlay(x)
    BY <2>2 DEF Busy, InPlay
  <2>4. ~Queued(x) /\ item.attempt # x
    BY <2>3 DEF Sole, OneHolder
  <2>5. OnePlace(x)'
    BY <2>1, <2>4, LongerQueue
  <2>6. status[x[1]] = "in_progress" /\ phase[x] = "queued_for_merge"
    BY <2>2 DEF Sole, StatusKnown, PhaseKnown, Working
  <2>7. LatestOnly(x)' /\ OneHolder(x)'
    BY <1>2, <2>2, <2>3, <2>4, <2>5 DEF Sole, LatestOnly, Latest, OneHolder, Busy
  <2>8. StatusKnown(x)' /\ PhaseKnown(x)'
    BY <1>2, <2>2, <2>4, <2>6 DEF StatusKnown, PhaseKnown, Working
  <2> QED
    BY <2>7, <2>8 DEF Sole
<1>5. CASE ~ReloadAfterExpansion(x) /\ ~EnqueueMerge(x)
  <2>1. go[x] \notin {"none", "parked"}
    BY <1>5 DEF GoStep, ExpansionStep, FailStep, HandleStep, Advance, StepFails,
      RequestScopeExpansion, ParkForExpansion, ReloadAttempt, FailPhase, FailStatus,
      ReloadTask, FailTask, RefuseToHandle, RetryTask, EscalateTask, RequeueEscalated, BlockTask
  <2>2. ~Queued(x) /\ item.attempt # x /\ queue' = queue
    BY <1>5, <2>1, GoWrites DEF Sole, OneHolder, Busy
  <2>3. ~Queued(x)' /\ OnePlace(x)'
    BY <2>2, SameQueue
  <2>4. LatestOnly(x)' /\ OneHolder(x)'
    BY <1>2, <2>1, <2>2, <2>3 DEF Sole, LatestOnly, Latest, OneHolder, InPlay
  <2>5. /\ go'[x] \in Working => status'[x[1]] = "in_progress"
        /\ go'[x] \in {"handle", "requeue"} => status'[x[1]] = "failed"
        /\ go'[x] = "queued_for_merge" => phase'[x] = "queued_for_merge"
    <3> USE DEF Sole, StatusKnown, Working, Goto, TypeOK, rows
    <3>1. CASE Advance(x)
      <4>1. status[x[1]] = "in_progress" /\ UNCHANGED status
        BY <3>1 DEF Advance
      <4>2. NextPhase[go[x]] \in Working
        BY <3>1, Names DEF Advance
      <4>3. go'[x] \in Working
        BY <3>1, <4>2 DEF Advance
      <4>4. go'[x] = "queued_for_merge" => phase'[x] = "queued_for_merge"
        BY <3>1, <4>2 DEF Advance, UpdateAttemptPhase
      <4> QED
        BY <4>1, <4>3, <4>4
    <3>2. CASE StepFails(x) \/ RequestScopeExpansion(x)
      BY <3>2 DEF StepFails, RequestScopeExpansion
    <3>3. CASE ParkForExpansion(x)
      BY <1>1, <3>3 DEF ParkForExpansion, UpdateTaskStatus
    <3>4. CASE ReloadAttempt(x) \/ FailPhase(x) \/ FailStatus(x)
      BY <3>4 DEF ReloadAttempt, FailPhase, FailStatus
    <3>5. CASE ReloadTask(x)
      BY <3>5 DEF ReloadTask
    <3>6. CASE FailTask(x)
      BY <1>1, <3>6 DEF FailTask, UpdateTaskStatus
    <3>7. CASE RefuseToHandle(x) \/ RetryTask(x) \/ RequeueEscalated(x) \/ BlockTask(x)
      BY <3>7 DEF RefuseToHandle, RetryTask, RequeueEscalated, BlockTask
    <3>8. CASE EscalateTask(x)
      BY <3>8 DEF EscalateTask
    <3> QED
      BY <1>5, <3>1, <3>2, <3>3, <3>4, <3>5, <3>6, <3>7, <3>8
      DEF GoStep, ExpansionStep, FailStep, HandleStep
  <2>6. StatusKnown(x)' /\ PhaseKnown(x)'
    BY <1>2, <2>2, <2>3, <2>5 DEF StatusKnown, PhaseKnown
  <2> QED
    BY <2>4, <2>6 DEF Sole
<1> QED
  BY <1>3, <1>4, <1>5

(***************************************************************************)
(* The merge worker takes an item off the queue...                         *)
(***************************************************************************)
LEMMA TakeKeeps ==
  ASSUME TypeOK, TakeItem, NEW b \in Attempt, Sole(b)
  PROVE  Sole(b)'
<1>1. /\ queue # <<>> /\ queue' = Tail(queue) /\ item' = Head(queue) /\ mpc' = "apply"
      /\ phase' = UpdateAttemptPhase(phase, Head(queue).attempt, "merging")
      /\ UNCHANGED <<tries, disp, status, go>>
  BY DEF TakeItem
<1>2. /\ Queued(b)' => Queued(b) /\ Head(queue).attempt # b
      /\ OnePlace(b)'
      /\ Head(queue).attempt = b => Queued(b)
  BY <1>1, ShorterQueue
<1>3. CASE Head(queue).attempt = b
  <2>1. Queued(b) /\ ~Queued(b)' /\ item'.attempt = b
    BY <1>1, <1>2, <1>3
  <2>2. status[b[1]] = "in_progress" /\ phase[b] = "queued_for_merge" /\ ~Busy(b)
    BY <2>1 DEF Sole, StatusKnown, PhaseKnown, OneHolder
  <2>3. phase'[b] = "merging"
    <3>1. ValidPhaseTransition("queued_for_merge", "merging")
      BY DEF ValidPhaseTransition, NextPhase
    <3> QED
      BY <1>1, <1>3, <2>2, <3>1 DEF UpdateAttemptPhase, TypeOK
  <2>4. LatestOnly(b)' /\ OneHolder(b)'
    BY <1>1, <1>2, <2>1, <2>2 DEF Sole, LatestOnly, Latest, OneHolder, InPlay, Busy
  <2>5. StatusKnown(b)' /\ PhaseKnown(b)'
    BY <1>1, <2>1, <2>2, <2>3 DEF StatusKnown, PhaseKnown, Busy, Working
  <2> QED
    BY <2>4, <2>5 DEF Sole
<1>4. CASE Head(queue).attempt # b
  <2>1. phase'[b] = phase[b]
    BY <1>1, <1>4 DEF UpdateAttemptPhase, TypeOK
  <2> QED
    BY <1>1, <1>2, <1>4, <2>1, UntouchedIsSole
<1> QED
  BY <1>3, <1>4

(* ...and works on that item alone. *)
LEMMA MergeWrites ==
  ASSUME TypeOK, ItemHeld, MergeStep, ~TakeItem
  PROVE  /\ item.attempt \in Attempt
         /\ \A b \in Attempt : b # item.attempt => phase'[b] = phase[b]
         /\ \A t \in Tasks : t # item.attempt[1] => status'[t] = status[t]
         /\ queue' = queue /\ item' \in {item, NothingMerging}
<1> USE DEF TypeOK, Merging, MergeDone, rows
<1>1. mpc # "idle"
  BY DEF MergeStep, CommitItem, CompleteTask, MarkSucceeded, MarkPassed, RefuseItem, MarkFailed,
    ReloadMergedTask, FailMergedTask, RequeueTask
<1>2. item.attempt \in Attempt
  BY <1>1 DEF ItemHeld
<1>3. CASE MarkSucceeded \/ RefuseItem
  BY <1>2, <1>3 DEF MarkSucceeded, RefuseItem, UpdateAttemptPhase
<1>4. CASE CompleteTask \/ FailMergedTask \/ RequeueTask
  BY <1>2, <1>4 DEF CompleteTask, FailMergedTask, RequeueTask, UpdateTaskStatus
<1>5. CASE CommitItem \/ MarkPassed \/ MarkFailed \/ ReloadMergedTask
  BY <1>2, <1>5 DEF CommitItem, MarkPassed, MarkFailed, ReloadMergedTask
<1> QED
  BY <1>3, <1>4, <1>5 DEF MergeStep

LEMMA MergeOthers ==
  ASSUME TypeOK, ItemHeld, MergeStep, ~TakeItem, NEW b \in Attempt, b # item.attempt,
         Sole(b), item.attempt[1] = b[1] => Sole(item.attempt)
  PROVE  Sole(b)'
<1>1. /\ item.attempt \in Attempt /\ phase'[b] = phase[b]
      /\ item.attempt[1] # b[1] => status'[b[1]] = status[b[1]]
      /\ queue' = queue /\ UNCHANGED <<tries, disp, go>>
  BY MergeWrites, MergeLeaves, AttemptParts
<1>2. item'.attempt # b
  <2>1. b # NoAttempt
    BY AttemptParts, PipelineAssumption DEF NoAttempt
  <2> QED
    BY <2>1, MergeWrites DEF NothingMerging
<1>3. (Queued(b)' => Queued(b)) /\ OnePlace(b)'
  BY <1>1, SameQueue
<1>4. CASE b[1] # item.attempt[1]
  BY <1>1, <1>2, <1>3, <1>4, UntouchedIsSole
<1>5. CASE b[1] = item.attempt[1]
  <2>1. ~InPlay(b)
    <3>1. InPlay(item.attempt)
      BY DEF InPlay
    <3> QED
      BY <1>1, <1>5, <3>1, OthersIdle
  <2>2. ~InPlay(b)'
    BY <1>1, <1>2, <1>3, <2>1 DEF InPlay
  <2> QED
    BY <2>2, IdleIsSole
<1> QED
  BY <1>4, <1>5

LEMMA MergeOwn ==
  ASSUME TypeOK, ItemHeld, MergeStep, ~TakeItem, NEW x \in Attempt, x = item.attempt, Sole(x)
  PROVE  Sole(x)'
<1>1. x[1] \in Tasks /\ x # NoAttempt
  BY AttemptParts, PipelineAssumption DEF NoAttempt
<1>2. queue' = queue /\ UNCHANGED <<tries, disp, go>>
  BY MergeWrites, MergeLeaves
<1>3. ~Busy(x) /\ ~Queued(x)
  BY DEF Sole, OneHolder
<1>4. ~Busy(x)' /\ ~Queued(x)' /\ OnePlace(x)'
  BY <1>2, <1>3, SameQueue DEF Busy
<1>5. CASE item' = NothingMerging
  <2>1. ~InPlay(x)'
    BY <1>1, <1>4, <1>5 DEF InPlay, Busy, NothingMerging
  <2> QED
    BY <2>1, IdleIsSole
<1>6. CASE item' = item /\ item # NothingMerging
  <2>1. LatestOnly(x)' /\ OneHolder(x)'
    BY <1>2, <1>4, <1>6 DEF Sole, LatestOnly, Latest, OneHolder, InPlay
  <2>2. /\ mpc' \in Deciding => status'[x[1]] = "in_progress"
        /\ mpc' = "requeue" => status'[x[1]] = "failed"
        /\ mpc' \in {"succeed", "pass"} => status'[x[1]] = "done"
        /\ phase'[x] \notin {"none", "executing"}
        /\ mpc' # "apply"
    <3> USE <1>6 DEF Sole, StatusKnown, PhaseKnown, Deciding, Merging, MergeDone, TypeOK, rows
    <3>1. CASE CommitItem
      BY <3>1 DEF CommitItem
    <3>2. CASE CompleteTask
      <4>1. status[x[1]] = "in_progress" /\ ValidTaskTransition("in_progress", "done")
        BY <3>2 DEF CompleteTask, ValidTaskTransition, TaskMoves
      <4> QED
        BY <1>1, <3>2, <4>1 DEF CompleteTask, UpdateTaskStatus
    <3>3. CASE MarkSucceeded
      BY <3>3 DEF MarkSucceeded, UpdateAttemptPhase
    <3>4. CASE MarkPassed
      BY <3>4 DEF MarkPassed
    <3>5. CASE RefuseItem
      BY <3>5 DEF RefuseItem, UpdateAttemptPhase
    <3>6. CASE MarkFailed
      BY <3>6 DEF MarkFailed
    <3>7. CASE ReloadMergedTask
      BY <3>7 DEF ReloadMergedTask
    <3>8. CASE FailMergedTask
      <4>1. status[x[1]] = "in_progress" /\ ValidTaskTransition("in_progress", "failed")
        BY <3>8 DEF FailMergedTask, ValidTaskTransition, TaskMoves
      <4> QED
        BY <1>1, <3>8, <4>1 DEF FailMergedTask, UpdateTaskStatus
    <3>9. CASE RequeueTask
      BY <3>9 DEF RequeueTask
    <3> QED
      BY <3>1, <3>2, <3>3, <3>4, <3>5, <3>6, <3>7, <3>8, <3>9 DEF MergeStep
  <2>3. StatusKnown(x)' /\ PhaseKnown(x)'
    BY <1>4, <1>6, <2>2 DEF StatusKnown, PhaseKnown, Busy, Working
  <2> QED
    BY <2>1, <2>3 DEF Sole
<1> QED
  BY <1>5, <1>6, MergeWrites

(***************************************************************************)
(* Idle hands are empty, recovered rows are in progress.                   *)
(***************************************************************************)
LEMMA ExemptKept == TypeOK /\ [Next]_vars => exempt \subseteq exempt'
<1> SUFFICES ASSUME TypeOK, [Next]_vars PROVE exempt \subseteq exempt'
  OBVIOUS
<1>1. ASSUME MergeStep PROVE exempt' = exempt
  BY <1>1 DEF MergeStep, TakeItem, CommitItem, CompleteTask, MarkSucceeded, MarkPassed,
    RefuseItem, MarkFailed, ReloadMergedTask, FailMergedTask, RequeueTask
<1>2. ASSUME Worker, \A a \in Attempt : ~GoStep(a), ~MergeStep PROVE exempt \subseteq exempt'
  BY <1>2 DEF Worker, WakeWaiter, LatestRunningAttempt, StartAttempt, ServeRequest,
    EnqueueApproved, RejectAttempt, RejectTask, ApproveTaskOutput, RejectTaskOutput, NewRequest
<1>3. ASSUME RecoveryStep PROVE exempt' = exempt
  BY <1>3 DEF RecoveryStep, CloseStalePhase, CloseStaleStatus, RequeueStaleTask, FinishRecovery
<1> QED
  BY <1>1, <1>2, <1>3, GoWrites, NextCases DEF Dispatch, CreateAttempt, Crash, vars

LEMMA ReleasedStep == TypeOK /\ Quiet /\ Released /\ [Next]_vars => Released'
<1> SUFFICES ASSUME TypeOK, Quiet, Released, [Next]_vars PROVE Released'
  OBVIOUS
<1> USE DEF Released
<1>1. CASE Crash
  BY <1>1 DEF Crash, MergeDone, NoRequest
<1>2. CASE RecoveryStep
  BY <1>2, RecoveryLeaves, ExemptKept DEF merger, control
<1>3. CASE UNCHANGED vars
  BY <1>3 DEF vars, merger, control, process
<1>4. CASE mode = "up" /\ ~Crash /\ ~RecoveryStep /\ ~UNCHANGED vars
  <2>1. mode' = "up"
    BY <1>4, NextCases, WorkerLeaves DEF process, Dispatch, CreateAttempt
  <2>2. mpc' = "idle" => item' = NothingMerging
    <3>1. ASSUME MergeStep PROVE mpc' = "idle" => item' = NothingMerging
      BY <3>1 DEF MergeStep, TakeItem, CommitItem, CompleteTask, MarkSucceeded, MarkPassed,
        RefuseItem, MarkFailed, ReloadMergedTask, FailMergedTask, RequeueTask, Merging, MergeDone
    <3>2. ASSUME Worker, ~MergeStep PROVE UNCHANGED <<mpc, item>>
      BY <3>2, GoLeaves DEF Worker, WakeWaiter, LatestRunningAttempt, StartAttempt,
        ServeRequest, EnqueueApproved, RejectAttempt, RejectTask, ApproveTaskOutput,
        RejectTaskOutput, merger
    <3> QED
      BY <1>4, <3>1, <3>2, NextCases DEF Dispatch, CreateAttempt, merger
  <2>3. ctl'.pc # "idle" => ctl'.attempt[1] \in exempt'
    <3>1. CASE ctl' = ctl
      BY <3>1, ExemptKept
    <3>2. ASSUME NEW a \in Attempt, ApproveTaskOutput(a) \/ RejectTaskOutput(a)
          PROVE  ctl'.attempt[1] \in exempt'
      BY <3>2 DEF ApproveTaskOutput, RejectTaskOutput, NewRequest
    <3>3. ASSUME ServeRequest
          PROVE  ctl'.pc # "idle" => ctl'.attempt[1] \in exempt'
      <4>1. CASE EnqueueApproved \/ RejectTask
        BY <4>1 DEF EnqueueApproved, RejectTask, NoRequest
      <4>2. CASE RejectAttempt
        <5>1. ctl.pc = "reject_status" /\ ctl' = [ctl EXCEPT !.pc = "reject_task"]
              /\ exempt' = exempt
          BY <4>2 DEF RejectAttempt
        <5>2. ctl'.attempt = ctl.attempt
          BY <5>1 DEF TypeOK, NoRequest
        <5> QED
          BY <5>1, <5>2
      <4> QED
        BY <3>3, <4>1, <4>2 DEF ServeRequest
    <3>4. ASSUME Worker, ~ServeRequest,
                 \A a \in Attempt : ~ApproveTaskOutput(a) /\ ~RejectTaskOutput(a)
          PROVE  ctl' = ctl
      BY <3>4, GoLeaves, MergeLeaves DEF Worker, WakeWaiter, LatestRunningAttempt, StartAttempt,
        control
    <3> QED
      BY <1>4, <3>1, <3>2, <3>3, <3>4, NextCases DEF Dispatch, CreateAttempt, control
  <2> QED
    BY <2>1, <2>2, <2>3
<1>5. CASE mode # "up"
  BY <1>1, <1>2, <1>3, <1>5, OnlyRecovery
<1> QED
  BY <1>1, <1>2, <1>3, <1>4, <1>5

LEMMA RequeuesStep ==
  TypeOK /\ Quiet /\ RequeuesRunning /\ [Next]_vars => RequeuesRunning'
<1> SUFFICES ASSUME TypeOK, Quiet, RequeuesRunning, [Next]_vars PROVE RequeuesRunning'
  OBVIOUS
<1> USE DEF RequeuesRunning
<1>1. CASE Crash
  BY <1>1 DEF Crash
<1>2. CASE RecoveryStep
  <2>1. ASSUME NEW t \in Tasks, CloseStalePhase(t) PROVE RequeuesRunning'
    BY <2>1 DEF CloseStalePhase, Stale
  <2>2. ASSUME CloseStaleStatus PROVE RequeuesRunning'
    BY <2>2 DEF CloseStaleStatus
  <2>3. ASSUME NEW t \in Tasks, RequeueStaleTask(t) PROVE RequeuesRunning'
    BY <2>3 DEF RequeueStaleTask, FinishRecovery
  <2>4. CASE FinishRecovery
    BY <2>4 DEF FinishRecovery
  <2> QED
    BY <1>2, <2>1, <2>2, <2>3, <2>4 DEF RecoveryStep
<1>3. CASE UNCHANGED vars
  BY <1>3 DEF vars, rows, process
<1>4. CASE mode = "up" /\ ~Crash /\ ~RecoveryStep /\ ~UNCHANGED vars
  BY <1>4, NextCases, WorkerLeaves DEF process, Dispatch, CreateAttempt
<1> QED
  BY <1>1, <1>2, <1>3, <1>4, OnlyRecovery

(***************************************************************************)
(* Every step of every actor leaves the undisturbed attempts in order.     *)
(***************************************************************************)
LEMMA DispatchKeeps ==
  ASSUME TypeOK, Released, NEW t \in Tasks, Dispatch(t) \/ WakeWaiter(t),
         NEW b \in Attempt, Sole(b)
  PROVE  Sole(b)'
<1>1. /\ UNCHANGED <<go, phase, tries, queue, mpc, item>>
      /\ t # b[1] => status'[b[1]] = status[b[1]] /\ (disp' = b[1] => disp = b[1])
      /\ status[t] \in {"queued", "waiting_on_lock"}
  <2>1. status' = [status EXCEPT ![t] = status'[t]]
    BY DEF Dispatch, WakeWaiter, UpdateTaskStatus, TypeOK
  <2>2. b[1] \in Tasks
    BY AttemptParts
  <2>3. t # b[1] => status'[b[1]] = status[b[1]]
    BY <2>1, <2>2 DEF TypeOK
  <2> QED
    BY <2>3 DEF Dispatch, WakeWaiter, merger
<1>2. (Queued(b)' => Queued(b)) /\ OnePlace(b)'
  BY <1>1, SameQueue
<1>3. CASE t = b[1]
  <2>1. ~InPlay(b)
    BY <1>1, <1>3, HeldStatus
  <2>2. ~InPlay(b)'
    BY <1>1, <1>2, <2>1 DEF InPlay
  <2> QED
    BY <2>2, IdleIsSole
<1>4. CASE t # b[1]
  BY <1>1, <1>2, <1>4, UntouchedIsSole
<1> QED
  BY <1>3, <1>4

LEMMA CreateKeeps ==
  ASSUME TypeOK, Bounded, Rows, CreateAttempt, NEW b \in Attempt, Sole(b)
  PROVE  Sole(b)'
<1> DEFINE new == <<disp, tries[disp] + 1>>
<1>1. /\ phase[new] = "none" /\ phase' = [phase EXCEPT ![new] = "executing"]
      /\ new[1] = disp /\ tries' = [tries EXCEPT ![disp] = tries[disp] + 1]
      /\ UNCHANGED <<go, merger, control, process>>
  BY NewAttempt
<1>2. UNCHANGED <<status, queue, mpc, item, go>> /\ disp' = NoTask
  BY <1>1 DEF CreateAttempt, merger
<1>3. (Queued(b)' => Queued(b)) /\ OnePlace(b)'
  BY <1>2, SameQueue
<1>4. CASE b[1] = disp
  <2>1. ~InPlay(b)
    BY <1>4 DEF Sole, LatestOnly
  <2>2. ~InPlay(b)'
    BY <1>2, <1>3, <2>1 DEF InPlay
  <2> QED
    BY <2>2, IdleIsSole
<1>5. CASE b[1] # disp
  <2> HIDE DEF new
  <2>1. b # new /\ b[1] \in Tasks
    BY <1>1, <1>5, AttemptParts
  <2>2. phase'[b] = phase[b] /\ tries'[b[1]] = tries[b[1]]
    BY <1>1, <1>5, <2>1 DEF TypeOK
  <2>3. disp' # b[1]
    BY <1>2, <2>1, PipelineAssumption
  <2> QED
    BY <1>2, <1>3, <2>2, <2>3, UntouchedIsSole
<1> QED
  BY <1>4, <1>5

LEMMA StartKeeps ==
  ASSUME TypeOK, StartAttempt, NEW b \in Attempt, Sole(b), b[1] \notin exempt'
  PROVE  Sole(b)'
<1>1. UNCHANGED <<status, phase, tries, disp, queue, mpc, item>>
  BY DEF StartAttempt, rows, merger
<1>2. (Queued(b)' => Queued(b)) /\ OnePlace(b)'
  BY <1>1, SameQueue
<1>3. CASE go'[b] = go[b]
  BY <1>1, <1>2, <1>3, UntouchedIsSole
<1>4. CASE go'[b] # go[b]
  <2>1. b = seen /\ go[b] = "none" /\ go'[b] = "executing"
    BY <1>4 DEF StartAttempt, Goto, TypeOK
  <2>2. ~StaleStart(b)
    BY <2>1 DEF StartAttempt
  <2>3. status[b[1]] = "in_progress" /\ phase[b] = "executing" /\ b = Latest(b[1])
        /\ disp # b[1]
    BY <2>2 DEF StaleStart, Startable
  <2>4. ~Queued(b) /\ item.attempt # b
    BY <2>3 DEF Sole, PhaseKnown
  <2>5. LatestOnly(b)' /\ OneHolder(b)'
    BY <1>1, <1>2, <2>3, <2>4 DEF LatestOnly, Latest, OneHolder
  <2>6. StatusKnown(b)' /\ PhaseKnown(b)'
    BY <1>1, <1>2, <2>1, <2>3, <2>4 DEF StatusKnown, PhaseKnown
  <2> QED
    BY <2>5, <2>6 DEF Sole
<1> QED
  BY <1>3, <1>4

LEMMA RequestKeeps ==
  ASSUME TypeOK, NEW x \in Attempt, ApproveTaskOutput(x) \/ RejectTaskOutput(x),
         NEW b \in Attempt, Sole(b), b[1] \notin exempt'
  PROVE  Sole(b)'
<1>1. UNCHANGED <<status, tries, disp, go, queue, mpc, item>>
  BY DEF ApproveTaskOutput, RejectTaskOutput, merger
<1>2. b # x
  BY DEF ApproveTaskOutput, RejectTaskOutput, NewRequest
<1>3. phase'[b] = phase[b]
  BY <1>2 DEF ApproveTaskOutput, RejectTaskOutput, UpdateAttemptPhase, TypeOK
<1> QED
  BY <1>1, <1>3, SameQueue, UntouchedIsSole

LEMMA ServeKeeps ==
  ASSUME TypeOK, Released, ServeRequest, NEW b \in Attempt, Sole(b), b[1] \notin exempt
  PROVE  Sole(b)'
<1>1. UNCHANGED <<phase, tries, disp, go, mpc, item>>
  BY DEF ServeRequest, EnqueueApproved, RejectAttempt, RejectTask, rows, merger
<1>2. ctl.attempt \in Attempt /\ ctl.attempt[1] # b[1] /\ ctl.attempt[1] \in Tasks
  <2>1. ctl.pc # "idle" /\ ctl.attempt \in Attempt
    BY DEF ServeRequest, EnqueueApproved, RejectAttempt, RejectTask, TypeOK, NoRequest
  <2> QED
    BY <2>1, AttemptParts DEF Released
<1>3. status'[b[1]] = status[b[1]]
  <2>1. CASE RejectTask
    <3>1. \/ status' = status
          \/ status' = UpdateTaskStatus(status, ctl.attempt[1], "failed")
      BY <2>1 DEF RejectTask
    <3>2. b[1] \in Tasks
      BY AttemptParts
    <3> QED
      BY <1>2, <3>1, <3>2 DEF UpdateTaskStatus, TypeOK
  <2>2. CASE ~RejectTask
    BY <2>2 DEF ServeRequest, EnqueueApproved, RejectAttempt, rows
  <2> QED
    BY <2>1, <2>2
<1>4. CASE EnqueueApproved
  <2> DEFINE y == [attempt |-> ctl.attempt, files |-> FALSE]
  <2>1. y \in [attempt : Attempt, files : BOOLEAN] /\ y.attempt # b
    BY <1>2
  <2>2. queue' = Append(queue, y)
    BY <1>4 DEF EnqueueApproved
  <2> HIDE DEF y
  <2>3. (Queued(b)' => Queued(b)) /\ OnePlace(b)'
    BY <2>1, <2>2, LongerQueue
  <2> QED
    BY <1>1, <1>3, <2>3, UntouchedIsSole
<1>5. CASE ~EnqueueApproved
  <2>1. queue' = queue
    BY <1>5 DEF ServeRequest, RejectAttempt, RejectTask, merger
  <2> QED
    BY <1>1, <1>3, <2>1, SameQueue, UntouchedIsSole
<1> QED
  BY <1>4, <1>5

LEMMA DownKeeps ==
  ASSUME Quiet', Released', mode' # "up", NEW b \in Attempt
  PROVE  Sole(b)'
<1>1. b # NoAttempt
  BY AttemptParts, PipelineAssumption DEF NoAttempt
<1>2. item'.attempt # b
  BY <1>1 DEF Quiet, Released, NothingMerging
<1>3. ~Queued(b)'
  BY DEF Released, Queued
<1>4. ~InPlay(b)'
  BY <1>2, <1>3 DEF Quiet, InPlay
<1> QED
  BY <1>4, IdleIsSole

LEMMA UndisturbedStep ==
  /\ TypeOK /\ Bounded /\ Quiet /\ ItemHeld /\ Rows /\ Released /\ Undisturbed
  /\ [Next]_vars
  => Undisturbed'
<1> SUFFICES ASSUME TypeOK, Bounded, Quiet, ItemHeld, Rows, Released, Undisturbed,
                    [Next]_vars, NEW b \in Attempt, b[1] \notin exempt'
             PROVE  Sole(b)'
  BY DEF Undisturbed
<1>1. \A x \in Attempt : x[1] = b[1] => Sole(x) /\ x[1] \notin exempt
  BY ExemptKept DEF Undisturbed
<1>2. Sole(b)
  BY <1>1
<1>3. ASSUME NEW x \in Attempt, GoStep(x) PROVE Sole(b)'
  BY <1>1, <1>2, <1>3, GoOthers, GoOwn
<1>4. CASE MergeStep
  <2>1. CASE TakeItem
    BY <1>2, <2>1, TakeKeeps
  <2>2. CASE ~TakeItem
    <3>1. item.attempt \in Attempt
      BY <1>4, <2>2, MergeWrites
    <3> QED
      BY <1>1, <1>2, <1>4, <2>2, <3>1, MergeOthers, MergeOwn
  <2> QED
    BY <2>1, <2>2
<1>5. ASSUME NEW t \in Tasks, Dispatch(t) \/ WakeWaiter(t) PROVE Sole(b)'
  BY <1>2, <1>5, DispatchKeeps
<1>6. CASE CreateAttempt
  BY <1>2, <1>6, CreateKeeps
<1>7. CASE StartAttempt
  BY <1>2, <1>7, StartKeeps
<1>8. ASSUME NEW x \in Attempt, ApproveTaskOutput(x) \/ RejectTaskOutput(x) PROVE Sole(b)'
  BY <1>2, <1>8, RequestKeeps
<1>9. CASE ServeRequest
  BY <1>1, <1>2, <1>9, ServeKeeps
<1>10. CASE Crash
  <2>1. mode' # "up" /\ Quiet' /\ Released'
    BY <1>10, QuietStep, ReleasedStep DEF Crash
  <2> QED
    BY <2>1, DownKeeps
<1>11. CASE RecoveryStep
  <2>1. ~InPlay(b)
    BY <1>11, RecoveryLeaves, DownIsIdle
  <2>2. ~InPlay(b)'
    BY <1>11, <2>1, RecoveryLeaves DEF InPlay, Queued, merger
  <2> QED
    BY <2>2, IdleIsSole
<1>12. ASSUME UNCHANGED vars \/ \E t \in Tasks : LatestRunningAttempt(t) PROVE Sole(b)'
  <2>1. UNCHANGED <<go, status, phase, tries, disp, queue, item, mpc>>
    BY <1>12 DEF vars, LatestRunningAttempt, rows, merger
  <2> QED
    BY <1>2, <2>1, SameQueue, UntouchedIsSole
<1> QED
  BY <1>3, <1>4, <1>5, <1>6, <1>7, <1>8, <1>9, <1>10, <1>11, <1>12, NextCases DEF Worker

(***************************************************************************)
(* A task that is done stays so.                                           *)
(***************************************************************************)
LEMMA DoneFixed ==
  ASSUME TypeOK, NEW x, NEW to, status' = UpdateTaskStatus(status, x, to),
         NEW t \in Tasks, status[t] = "done"
  PROVE  status'[t] = "done"
<1>1. ~ValidTaskTransition("done", to)
  BY DEF ValidTaskTransition, TaskMoves
<1> QED
  BY <1>1 DEF UpdateTaskStatus, TypeOK

LEMMA DoneKept ==
  ASSUME TypeOK, RequeuesRunning, [Next]_vars, NEW t \in Tasks, status[t] = "done"
  PROVE  status'[t] = "done"
<1>1. ASSUME UNCHANGED status PROVE status'[t] = "done"
  BY <1>1
<1>2. ASSUME NEW x \in Tasks, Dispatch(x) \/ WakeWaiter(x) PROVE status'[t] = "done"
  BY <1>2, DoneFixed DEF Dispatch, WakeWaiter
<1>3. ASSUME NEW a \in Attempt, GoStep(a) PROVE status'[t] = "done"
  <2>1. CASE ParkForExpansion(a) \/ FailTask(a)
    BY <2>1, DoneFixed DEF ParkForExpansion, FailTask
  <2>2. CASE RetryTask(a) \/ RequeueEscalated(a) \/ BlockTask(a)
    BY <2>2, DoneFixed DEF RetryTask, RequeueEscalated, BlockTask
  <2>3. CASE /\ ~ParkForExpansion(a) /\ ~FailTask(a) /\ ~RetryTask(a)
             /\ ~RequeueEscalated(a) /\ ~BlockTask(a)
    BY <1>1, <1>3, <2>3 DEF GoStep, ExpansionStep, FailStep, HandleStep, Advance, StepFails,
      EnqueueMerge, RequestScopeExpansion, ReloadAfterExpansion, ReloadAttempt, FailPhase,
      FailStatus, ReloadTask, RefuseToHandle, EscalateTask, rows
  <2> QED
    BY <2>1, <2>2, <2>3
<1>4. ASSUME MergeStep PROVE status'[t] = "done"
  <2>1. CASE CompleteTask \/ FailMergedTask \/ RequeueTask
    BY <2>1, DoneFixed DEF CompleteTask, FailMergedTask, RequeueTask
  <2>2. CASE ~CompleteTask /\ ~FailMergedTask /\ ~RequeueTask
    BY <1>1, <1>4, <2>2 DEF MergeStep, TakeItem, CommitItem, MarkSucceeded, MarkPassed,
      RefuseItem, MarkFailed, ReloadMergedTask, rows
  <2> QED
    BY <2>1, <2>2
<1>5. ASSUME ServeRequest PROVE status'[t] = "done"
  <2>1. CASE RejectTask
    BY <2>1, DoneFixed DEF RejectTask
  <2>2. CASE ~RejectTask
    BY <1>5, <2>2 DEF ServeRequest, EnqueueApproved, RejectAttempt, rows
  <2> QED
    BY <2>1, <2>2
<1>6. ASSUME RecoveryStep PROVE status'[t] = "done"
  <2>1. ASSUME NEW x \in Tasks, RequeueStaleTask(x) PROVE status'[t] = "done"
    <3>1. status[x] = "in_progress"
      BY <2>1 DEF RequeueStaleTask, RequeuesRunning, Stale
    <3> QED
      BY <2>1, <3>1 DEF RequeueStaleTask, TypeOK
  <2>2. CASE \A x \in Tasks : ~RequeueStaleTask(x)
    BY <1>6, <2>2 DEF RecoveryStep, CloseStalePhase, CloseStaleStatus, FinishRecovery, rows
  <2> QED
    BY <2>1, <2>2
<1>7. ASSUME Worker, \A x \in Tasks : ~WakeWaiter(x), \A a \in Attempt : ~GoStep(a),
             ~MergeStep, ~ServeRequest
      PROVE  UNCHANGED status
  BY <1>7 DEF Worker, LatestRunningAttempt, StartAttempt, ApproveTaskOutput, RejectTaskOutput,
    rows
<1>8. ASSUME CreateAttempt \/ Crash \/ UNCHANGED vars PROVE UNCHANGED status
  BY <1>8 DEF CreateAttempt, Crash, vars, rows
<1> QED
  BY <1>1, <1>2, <1>3, <1>4, <1>5, <1>6, <1>7, <1>8, NextCases

(***************************************************************************)
(* What a step commits, and what pays for it.                              *)
(***************************************************************************)
LEMMA OnlyCommitItem ==
  ASSUME [Next]_vars, ~CommitItem
  PROVE  UNCHANGED commits
<1>1. ASSUME MergeStep PROVE UNCHANGED commits
  BY <1>1 DEF MergeStep, TakeItem, CompleteTask, MarkSucceeded, MarkPassed, RefuseItem,
    MarkFailed, ReloadMergedTask, FailMergedTask, RequeueTask
<1>2. ASSUME Worker, ~MergeStep PROVE UNCHANGED commits
  BY <1>2, GoLeaves DEF Worker, WakeWaiter, LatestRunningAttempt, StartAttempt, ServeRequest,
    EnqueueApproved, RejectAttempt, RejectTask, ApproveTaskOutput, RejectTaskOutput
<1> QED
  BY <1>1, <1>2, NextCases, RecoveryLeaves DEF Dispatch, CreateAttempt, Crash, vars

LEMMA CommitIsCurrent ==
  ASSUME TypeOK, ItemHeld, Undisturbed, CommitItem, item.attempt[1] \notin exempt
  PROVE  /\ item.attempt \in Attempt /\ item.attempt = Latest(item.attempt[1])
         /\ status[item.attempt[1]] = "in_progress"
         /\ phase[item.attempt] = "merging"
<1>1. mpc = "apply" /\ item.attempt \in Attempt
  BY DEF CommitItem, ItemHeld
<1>2. Sole(item.attempt)
  BY <1>1 DEF Undisturbed
<1> QED
  BY <1>1, <1>2 DEF Sole, LatestOnly, InPlay, StatusKnown, PhaseKnown, Deciding

LEMMA SettledKept ==
  ASSUME TypeOK, RequeuesRunning, ItemHeld, Undisturbed, [Next]_vars, ~Crash,
         NEW t \in Tasks \ exempt, Settled(t)
  PROVE  Settled(t)'
<1>1. CASE status[t] = "done"
  BY <1>1, DoneKept DEF Settled
<1>2. CASE mpc = "complete" /\ item.attempt[1] = t
  <2>1. status[t] = "in_progress"
    BY <1>2 DEF ItemHeld, Undisturbed, Sole, StatusKnown, Deciding
  <2>2. CASE CompleteTask
    <3>1. ValidTaskTransition("in_progress", "done")
      BY DEF ValidTaskTransition, TaskMoves
    <3> QED
      BY <1>2, <2>1, <2>2, <3>1 DEF CompleteTask, UpdateTaskStatus, TypeOK, Settled
  <2>3. ASSUME MergeStep, ~CompleteTask PROVE FALSE
    BY <1>2, <2>3 DEF MergeStep, TakeItem, CommitItem, MarkSucceeded, MarkPassed, RefuseItem,
      MarkFailed, ReloadMergedTask, FailMergedTask, RequeueTask
  <2>4. ASSUME Worker, ~MergeStep PROVE UNCHANGED <<mpc, item>>
    BY <2>4, GoLeaves DEF Worker, WakeWaiter, LatestRunningAttempt, StartAttempt, ServeRequest,
      EnqueueApproved, RejectAttempt, RejectTask, ApproveTaskOutput, RejectTaskOutput, merger
  <2>5. CASE UNCHANGED <<mpc, item>>
    BY <1>2, <2>5 DEF Settled
  <2> QED
    BY <2>2, <2>3, <2>4, <2>5, NextCases, RecoveryLeaves
    DEF Dispatch, CreateAttempt, vars, merger
<1> QED
  BY <1>1, <1>2 DEF Settled

LEMMA CommitsPaidStep ==
  /\ TypeOK /\ RequeuesRunning /\ ItemHeld /\ Undisturbed /\ CommitsPaid /\ [Next]_vars
  => CommitsPaid'
<1> SUFFICES ASSUME TypeOK, RequeuesRunning, ItemHeld, Undisturbed, CommitsPaid, [Next]_vars,
                    NEW t \in Tasks, t \notin exempt'
             PROVE  Len(commits'[t]) <= crashes' + (IF Settled(t)' THEN 1 ELSE 0)
  BY DEF CommitsPaid
<1>1. /\ t \in Tasks \ exempt /\ crashes \in Nat /\ Len(commits[t]) \in Nat
      /\ Len(commits[t]) <= crashes + (IF Settled(t) THEN 1 ELSE 0)
  BY ExemptKept DEF CommitsPaid, TypeOK
<1>2. CASE CommitItem /\ item.attempt[1] = t
  <2>1. status[t] = "in_progress" /\ item.attempt[2] \in Nat
    BY <1>1, <1>2, CommitIsCurrent, AttemptParts
  <2>2. ~Settled(t) /\ mpc' = "complete" /\ item' = item /\ crashes' = crashes
    BY <1>2, <2>1 DEF CommitItem, Merging, Settled, process
  <2>3. commits[t] \in Seq(Nat) /\ commits'[t] = Append(commits[t], item.attempt[2])
    BY <1>1, <1>2 DEF CommitItem, TypeOK
  <2>4. Len(commits'[t]) = Len(commits[t]) + 1
    BY <2>1, <2>3
  <2>5. Settled(t)'
    BY <1>2, <2>2 DEF Settled
  <2> QED
    BY <1>1, <2>2, <2>4, <2>5
<1>3. CASE ~(CommitItem /\ item.attempt[1] = t)
  <2>1. commits'[t] = commits[t]
    BY <1>1, <1>3, OnlyCommitItem DEF CommitItem, TypeOK
  <2>2. CASE Crash
    <3>1. crashes' = crashes + 1
      BY <2>2 DEF Crash
    <3> QED
      BY <1>1, <2>1, <3>1
  <2>3. CASE ~Crash
    <3>1. crashes' = crashes
      BY <2>3, NextCases, WorkerLeaves
      DEF Dispatch, CreateAttempt, RecoveryStep, CloseStalePhase, CloseStaleStatus,
        RequeueStaleTask, FinishRecovery, vars, process
    <3> QED
      BY <1>1, <2>1, <2>3, <3>1, SettledKept
  <2> QED
    BY <2>2, <2>3
<1> QED
  BY <1>2, <1>3

-----------------------------------------------------------------------------
(* The theorems. *)

LEMMA InitOrderly == Init => Orderly
<1> SUFFICES ASSUME Init PROVE Orderly
  OBVIOUS
<1>1. TypeOK
  BY PipelineAssumption, Names DEF Init, TypeOK, Stage, MergePC, Reasons, NothingMerging, NoRequest
<1>2. Released /\ RequeuesRunning
  BY DEF Init, Released, RequeuesRunning, NoRequest
<1>3. ASSUME NEW a \in Attempt PROVE Sole(a)
  <2>1. go[a] = "none" /\ Len(queue) = 0 /\ item.attempt = NoAttempt
    BY DEF Init, NothingMerging
  <2>2. a # NoAttempt
    BY AttemptParts, PipelineAssumption DEF NoAttempt
  <2>3. ~Queued(a) /\ OnePlace(a)
    BY <2>1 DEF Queued, OnePlace
  <2> QED
    BY <2>1, <2>2, <2>3
    DEF Sole, LatestOnly, OneHolder, StatusKnown, PhaseKnown, InPlay, Busy, Working
<1>4. CommitsPaid
  BY DEF Init, CommitsPaid, Settled
<1> QED
  BY <1>1, <1>2, <1>3, <1>4, InitRecoverable DEF Orderly, Undisturbed

LEMMA OrderlyStep == Orderly /\ [Next]_vars => Orderly'
<1> SUFFICES ASSUME Orderly, [Next]_vars PROVE Orderly'
  OBVIOUS
<1> USE DEF Orderly
<1>1. Recoverable'
  BY BoundedStep, QuietStep, ItemStep, RowsStep, PhaseFirstStep, CloseAcceptedStep
  DEF Recoverable
<1>2. TypeOK'
  BY TypeStep
<1> QED
  BY <1>1, <1>2, ReleasedStep, RequeuesStep, UndisturbedStep, CommitsPaidStep DEF Recoverable

(***************************************************************************)
(* Of a task neither the orchestrator nor a stale start has disturbed,     *)
(* only the latest attempt is ever worked on, and none while the next is   *)
(* being created.                                                          *)
(***************************************************************************)
THEOREM OneAttemptInPlay == Spec => []OneInPlay
<1>1. Orderly => OneInPlay
  BY DEF Orderly, Undisturbed, Sole, LatestOnly, OneInPlay
<1> QED
  BY <1>1, InitOrderly, OrderlyStep, PTL DEF Spec

(***************************************************************************)
(* The merge queue commits the latest attempt of such a task, approved and *)
(* with the task still in progress.                                        *)
(***************************************************************************)
THEOREM CommitsCurrent == Spec => CommitsAreCurrent
<1> DEFINE Current ==
      \A t \in Tasks \ exempt :
        commits'[t] # commits[t] =>
          /\ status[t] = "in_progress"
          /\ item.attempt = Latest(t)
          /\ phase[Latest(t)] = "merging"
<1>1. Orderly /\ [Next]_vars => Current
  <2> SUFFICES ASSUME Orderly, [Next]_vars, NEW t \in Tasks \ exempt, commits'[t] # commits[t]
               PROVE  /\ status[t] = "in_progress"
                      /\ item.attempt = Latest(t)
                      /\ phase[Latest(t)] = "merging"
    OBVIOUS
  <2>1. CommitItem
    BY OnlyCommitItem
  <2>2. item.attempt[1] = t
    BY <2>1 DEF CommitItem, Orderly, TypeOK
  <2> QED
    BY <2>1, <2>2, CommitIsCurrent DEF Orderly, Recoverable
<1>2. Orderly /\ [Next]_vars => [Current]_vars
  BY <1>1
<1> QED
  BY <1>2, InitOrderly, OrderlyStep, PTL DEF Spec, CommitsAreCurrent

(***************************************************************************)
(* It commits such a task once, and once more for each restart at most.    *)
(***************************************************************************)
THEOREM CommittedOncePerRestart == Spec => []CommittedOnce
<1>1. Orderly => CommittedOnce
  <2> SUFFICES ASSUME Orderly, NEW t \in Tasks \ exempt
               PROVE  Len(commits[t]) <= 1 + crashes
    BY DEF CommittedOnce
  <2>1. /\ crashes \in Nat /\ Len(commits[t]) \in Nat
        /\ Len(commits[t]) <= crashes + (IF Settled(t) THEN 1 ELSE 0)
    BY DEF Orderly, TypeOK, CommitsPaid
  <2> QED
    BY <2>1
<1> QED
  BY <1>1, InitOrderly, OrderlyStep, PTL DEF Spec

-----------------------------------------------------------------------------
(* The attempts of a task can be counted. *)

LEMMA NumbersFinite ==
  ASSUME NEW t, NEW n \in Nat
  PROVE  IsFiniteSet({t} \X (1..n))
<1> DEFINE S == {t} \X (1..n)
           f == [a \in S |-> a[2]]
<1>1. f \in Injection(S, 1..n)
  <2>1. \A a \in S : a[2] \in 1..n /\ a = <<t, a[2]>>
    OBVIOUS
  <2> QED
    BY <2>1 DEF Injection, IsInjective
<1>2. IsFiniteSet(1..n)
  BY FS_Interval
<1> HIDE DEF S, f
<1>3. IsFiniteSet(S)
  BY <1>1, <1>2, FS_Injection
<1> QED
  BY <1>3 DEF S

LEMMA FailedCounted ==
  ASSUME TypeOK, NEW t \in Tasks, NEW x
  PROVE  IsFiniteSet(FailedAt(t, x)) /\ Cardinality(FailedAt(t, x)) \in Nat
<1>1. IsFiniteSet(AttemptsOf(t))
  BY NumbersFinite DEF AttemptsOf, TypeOK
<1>2. FailedAt(t, x) \in SUBSET AttemptsOf(t)
  BY DEF FailedAt
<1>3. IsFiniteSet(FailedAt(t, x))
  BY <1>1, <1>2, FS_Subset
<1> QED
  BY <1>3, FS_CardinalityType

(* They are those with a row. *)
LEMMA AttemptsMade ==
  ASSUME TypeOK, Bounded, NEW t \in Tasks
  PROVE  /\ AttemptsOf(t) \subseteq Attempt
         /\ \A b \in Attempt : b[1] = t => (b \in AttemptsOf(t) <=> b[2] <= tries[t])
         /\ \A b \in AttemptsOf(t) : b[1] = t
         /\ tries[t] # 0 => Latest(t) \in AttemptsOf(t)
<1>1. tries[t] \in Nat /\ tries[t] <= MaxAttempts[t] /\ MaxAttempts[t] \in Nat
  BY PipelineAssumption DEF TypeOK, Bounded
<1>2. ASSUME NEW b \in AttemptsOf(t) PROVE b \in Attempt /\ b[1] = t
  <2>1. PICK n \in 1..tries[t] : b = <<t, n>>
    BY DEF AttemptsOf
  <2>2. n \in Nat \ {0} /\ n <= MaxAttempts[t]
    BY <1>1
  <2> QED
    BY <2>1, <2>2, AttemptMade
<1>3. ASSUME NEW b \in Attempt, b[1] = t PROVE b \in AttemptsOf(t) <=> b[2] <= tries[t]
  <2>1. b[2] \in Nat \ {0} /\ b = <<t, b[2]>>
    BY <1>3, AttemptParts
  <2> QED
    BY <1>1, <2>1 DEF AttemptsOf
<1>4. tries[t] # 0 => Latest(t) \in AttemptsOf(t)
  BY <1>1 DEF Latest, AttemptsOf
<1> QED
  BY <1>2, <1>3, <1>4

(* An attempt somebody holds is the latest of its task, and its task is not *)
(* being dispatched.                                                        *)
LEMMA HeldIsLatest ==
  ASSUME TypeOK, Bounded, Rows, NEW b \in Attempt, Sole(b), InPlay(b)
  PROVE  /\ b = Latest(b[1]) /\ disp # b[1] /\ b[1] \in Tasks
         /\ tries[b[1]] # 0 /\ b \in AttemptsOf(b[1]) /\ b[2] = tries[b[1]]
<1>1. b = Latest(b[1]) /\ disp # b[1] /\ b[1] \in Tasks /\ b[2] \in Nat \ {0}
  BY AttemptParts DEF Sole, LatestOnly
<1>2. b[2] = tries[b[1]]
  BY <1>1 DEF Latest
<1> QED
  BY <1>1, <1>2, AttemptsMade

-----------------------------------------------------------------------------
(* Failures are over: an attempt that failed by itself is not taken up      *)
(* again.                                                                   *)

LEMMA FailureKept ==
  ASSUME TypeOK, TypeOK', NEW b \in Attempt, FailureOver(b),
         tries[b[1]] <= tries'[b[1]],
         \/ go'[b] = go[b] \/ go'[b] = "none"
         \/ go'[b] = "executing" /\ outcome[b] = "running",
         reason'[b] = reason[b],
         outcome'[b] = "running" => outcome[b] = "running",
         Queued(b)' => Queued(b) \/ reason[b] # "pipeline",
         item'.attempt = b => item.attempt = b \/ reason[b] # "pipeline"
  PROVE  FailureOver(b)'
<1>1. b[1] \in Tasks /\ b[2] \in Nat
  BY AttemptParts
<1>2. tries[b[1]] \in Nat /\ tries'[b[1]] \in Nat
  BY <1>1 DEF TypeOK
<1>3. reason'[b] # "none" => b[2] <= tries'[b[1]]
  BY <1>1, <1>2 DEF FailureOver
<1> QED
  BY <1>3 DEF FailureOver

(* A step of the goroutine touches the row of its own attempt only. *)
LEMMA GoRows ==
  ASSUME TypeOK, NEW x \in Attempt, GoStep(x)
  PROVE  /\ \A b \in Attempt : b # x => outcome'[b] = outcome[b] /\ reason'[b] = reason[b]
         /\ ~ReloadTask(x) => reason' = reason
         /\ ~FailStatus(x) => outcome' = outcome
         /\ ~EscalateTask(x) => tier' = tier
         /\ atier' = atier
<1> USE DEF rows
<1>1. CASE ReloadTask(x)
  BY <1>1 DEF ReloadTask, TypeOK, FailStatus, EscalateTask
<1>2. CASE FailStatus(x)
  BY <1>2 DEF FailStatus, UpdateAttemptStatus, TypeOK, ReloadTask, EscalateTask
<1>3. CASE EscalateTask(x)
  BY <1>3 DEF EscalateTask
<1>4. CASE HandleStep(x) /\ ~EscalateTask(x)
  BY <1>4 DEF HandleStep, RefuseToHandle, RetryTask, RequeueEscalated, BlockTask
<1>5. CASE ReloadAttempt(x) \/ FailPhase(x) \/ FailTask(x)
  BY <1>5 DEF ReloadAttempt, FailPhase, FailTask
<1>6. CASE Advance(x) \/ StepFails(x) \/ ExpansionStep(x) \/ EnqueueMerge(x)
  BY <1>6 DEF Advance, StepFails, ExpansionStep, RequestScopeExpansion, ParkForExpansion,
    ReloadAfterExpansion, EnqueueMerge
<1> QED
  BY <1>1, <1>2, <1>3, <1>4, <1>5, <1>6 DEF GoStep, FailStep

LEMMA GoOthersOver ==
  ASSUME TypeOK, TypeOK', NEW x \in Attempt, GoStep(x), NEW b \in Attempt, b # x,
         Sole(b), FailureOver(b)
  PROVE  FailureOver(b)'
<1>1. /\ go'[b] = go[b] /\ outcome'[b] = outcome[b] /\ reason'[b] = reason[b]
      /\ UNCHANGED <<tries, item>>
  BY GoWrites, GoRows, GoLeaves
<1>2. Queued(b)' => Queued(b)
  <2>1. CASE queue' = queue
    BY <2>1, SameQueue
  <2>2. CASE EnqueueMerge(x)
    <3> DEFINE y == [attempt |-> x, files |-> TRUE]
    <3>1. y \in [attempt : Attempt, files : BOOLEAN] /\ y.attempt # b
      OBVIOUS
    <3>2. queue' = Append(queue, y)
      BY <2>2 DEF EnqueueMerge
    <3> HIDE DEF y
    <3> QED
      BY <3>1, <3>2, LongerQueue
  <2> QED
    BY <2>1, <2>2, GoWrites
<1>3. tries[b[1]] <= tries'[b[1]]
  BY <1>1, AttemptParts DEF TypeOK
<1> QED
  BY <1>1, <1>2, <1>3, FailureKept

(* The goroutine's own attempt, stage by stage. *)
LEMMA GoOwnOver ==
  ASSUME TypeOK, TypeOK', Bounded, Rows, NEW x \in Attempt, GoStep(x), x[1] \notin exempt',
         Sole(x), FailureOver(x)
  PROVE  FailureOver(x)'
<1> USE DEF Goto, TypeOK, rows
<1>1. UNCHANGED <<tries, item>>
  BY GoLeaves
<1>2. CASE EnqueueMerge(x)
  BY <1>1, <1>2 DEF EnqueueMerge, FailureOver
<1>3. CASE ReloadAfterExpansion(x)
  <2>1. /\ go[x] = "parked" /\ go'[x] = "none"
        /\ UNCHANGED <<reason, outcome, queue>>
    BY <1>3 DEF ReloadAfterExpansion, merger
  <2> QED
    BY <1>1, <2>1 DEF FailureOver
<1>4. CASE ~EnqueueMerge(x) /\ ~ReloadAfterExpansion(x)
  <2>1. Busy(x) /\ InPlay(x)
    BY <1>4 DEF GoStep, ExpansionStep, FailStep, HandleStep, Advance, StepFails,
      RequestScopeExpansion, ParkForExpansion, ReloadAttempt, FailPhase, FailStatus,
      ReloadTask, FailTask, RefuseToHandle, RetryTask, EscalateTask, RequeueEscalated,
      BlockTask, Busy, InPlay
  <2>2. /\ queue' = queue /\ ~Queued(x) /\ item'.attempt # x
        /\ ~Queued(x)'
    BY <1>1, <1>4, <2>1, GoWrites, SameQueue DEF Sole, OneHolder
  <2>3. x[2] <= tries'[x[1]]
    BY <1>1, <2>1, HeldIsLatest
  <2>4. /\ reason'[x] = "pipeline" =>
             outcome'[x] # "running" /\ go'[x] \in {"none", "fail_task", "handle", "requeue"}
        /\ go'[x] \in {"fail_task", "handle", "requeue"} => reason'[x] = "pipeline"
        /\ go'[x] = "reload_task" => outcome'[x] # "running"
    <3>1. CASE Advance(x)
      <4>1. /\ go'[x] \in {"validating", "reviewing", "awaiting_orchestrator_gate",
                           "queued_for_merge", "fail"}
            /\ UNCHANGED <<reason, outcome>>
        BY <3>1, Names DEF Advance
      <4>2. go[x] \notin {"none", "fail_task", "handle", "requeue"}
        BY <3>1 DEF Advance
      <4> QED
        BY <4>1, <4>2 DEF FailureOver
    <3>2. CASE StepFails(x) \/ RequestScopeExpansion(x) \/ ParkForExpansion(x)
      BY <3>2 DEF StepFails, RequestScopeExpansion, ParkForExpansion, FailureOver
    <3>3. CASE ReloadAttempt(x) \/ FailPhase(x)
      BY <3>3 DEF ReloadAttempt, FailPhase, FailureOver
    <3>4. CASE FailStatus(x)
      BY <3>4 DEF FailStatus, UpdateAttemptStatus, FailureOver
    <3>5. CASE ReloadTask(x)
      BY <3>5 DEF ReloadTask, FailureOver
    <3>6. CASE FailTask(x) \/ EscalateTask(x)
      BY <3>6 DEF FailTask, EscalateTask, FailureOver
    <3>7. CASE RefuseToHandle(x) \/ RetryTask(x) \/ RequeueEscalated(x) \/ BlockTask(x)
      BY <3>7 DEF RefuseToHandle, RetryTask, RequeueEscalated, BlockTask, FailureOver
    <3> QED
      BY <1>4, <3>1, <3>2, <3>3, <3>4, <3>5, <3>6, <3>7
      DEF GoStep, ExpansionStep, FailStep, HandleStep
  <2> QED
    BY <2>2, <2>3, <2>4 DEF FailureOver
<1> QED
  BY <1>2, <1>3, <1>4

(* The merge worker closes an item with another reason. *)
LEMMA MergeOver ==
  ASSUME TypeOK, TypeOK', Bounded, Rows, PhaseFirst, ItemHeld, MergeStep,
         NEW b \in Attempt, Sole(b), FailureOver(b)
  PROVE  FailureOver(b)'
<1>1. UNCHANGED <<tries, go>> /\ tries[b[1]] <= tries'[b[1]]
  BY MergeLeaves, AttemptParts DEF TypeOK
<1>2. outcome'[b] = "running" => outcome[b] = "running"
  <2>1. OutcomeMoves
    BY OutcomeStep DEF MergeStep, Next, TakeItem, CommitItem, CompleteTask, MarkSucceeded,
      MarkPassed, RefuseItem, MarkFailed, ReloadMergedTask, FailMergedTask, RequeueTask,
      CreateAttempt, rows
  <2> QED
    BY <2>1 DEF OutcomeMoves, ValidAttemptTransition
<1>3. CASE TakeItem
  <2>1. /\ queue # <<>> /\ queue' = Tail(queue) /\ item' = Head(queue)
        /\ UNCHANGED <<reason, outcome>>
    BY <1>3 DEF TakeItem
  <2>2. Queued(b)' => Queued(b)
    BY <2>1, ShorterQueue
  <2>3. item'.attempt = b => reason[b] # "pipeline"
    BY <2>1, ShorterQueue DEF FailureOver
  <2> QED
    BY <1>1, <2>1, <2>2, <2>3, FailureKept
<1>4. CASE ~TakeItem
  <2>1. queue' = queue /\ item' \in {item, NothingMerging} /\ b # NoAttempt
    BY <1>4, MergeWrites, AttemptParts, PipelineAssumption DEF NoAttempt
  <2>2. (Queued(b)' => Queued(b)) /\ (item'.attempt = b => item.attempt = b)
    BY <2>1, SameQueue DEF NothingMerging
  <2>3. CASE reason'[b] = reason[b]
    BY <1>1, <1>2, <2>2, <2>3, FailureKept
  <2>4. CASE reason'[b] # reason[b]
    <3>1. MarkFailed
      BY <1>4, <2>4 DEF MergeStep, CommitItem, CompleteTask, MarkSucceeded, MarkPassed,
        RefuseItem, ReloadMergedTask, FailMergedTask, RequeueTask, rows
    <3>2. item.attempt = b /\ reason'[b] = "merge"
      BY <2>4, <3>1 DEF MarkFailed, TypeOK
    <3>3. b[2] = tries[b[1]] /\ ~Busy(b)
      BY <3>2, HeldIsLatest DEF InPlay, Sole, OneHolder
    <3>4. b[2] <= tries'[b[1]]
      BY <1>1, <3>3, AttemptParts
    <3> QED
      BY <1>1, <3>2, <3>3, <3>4 DEF FailureOver, Busy
  <2> QED
    BY <2>3, <2>4
<1> QED
  BY <1>3, <1>4

(* A new attempt has failed in no way. *)
LEMMA CreateOver ==
  ASSUME TypeOK, TypeOK', Bounded, Rows, CreateAttempt, NEW b \in Attempt, Sole(b),
         FailureOver(b)
  PROVE  FailureOver(b)'
<1> DEFINE new == <<disp, tries[disp] + 1>>
<1>1. /\ outcome' = [outcome EXCEPT ![new] = "running"] /\ disp \in Tasks /\ new \in Attempt
      /\ new[1] = disp /\ new[2] = tries[disp] + 1
      /\ tries' = [tries EXCEPT ![disp] = tries[disp] + 1]
      /\ UNCHANGED <<go, merger, control, process>>
  BY NewAttempt
<1>2. UNCHANGED <<go, reason, queue, item>>
  BY <1>1 DEF CreateAttempt, merger
<1>3. b[1] \in Tasks /\ tries[b[1]] \in Nat /\ tries[b[1]] <= tries'[b[1]]
  BY <1>1, AttemptParts DEF TypeOK
<1>4. Queued(b)' => Queued(b)
  BY <1>2, SameQueue
<1> HIDE DEF new
<1>5. CASE b # new
  <2>1. outcome'[b] = outcome[b]
    BY <1>1, <1>5 DEF TypeOK
  <2> QED
    BY <1>2, <1>3, <1>4, <2>1, FailureKept
<1>6. CASE b = new
  <2>1. reason[b] = "none"
    BY <1>1, <1>3, <1>6 DEF FailureOver
  <2>2. go[b] \in {"none", "parked"}
    BY <1>1, <1>6 DEF Sole, LatestOnly, InPlay
  <2> QED
    BY <1>2, <2>1, <2>2 DEF FailureOver
<1> QED
  BY <1>5, <1>6

(* What the recovery closes was still running. *)
LEMMA RecoveryOver ==
  ASSUME TypeOK, TypeOK', Bounded, Quiet, CloseAccepted, RecoveryStep,
         NEW b \in Attempt, Sole(b), FailureOver(b), ClosesLatest(b[1])
  PROVE  FailureOver(b)'
<1>1. UNCHANGED <<tries, go, queue, item>> /\ go[b] = "none"
  BY RecoveryLeaves DEF merger, Quiet
<1>2. tries[b[1]] <= tries'[b[1]] /\ (Queued(b)' => Queued(b))
  BY <1>1, AttemptParts, SameQueue DEF TypeOK
<1>3. CASE CloseStaleStatus
  <2>1. b = Latest(rtask) => b[2] <= tries[b[1]]
    BY AttemptParts DEF Latest, TypeOK
  <2>2. CASE reason'[b] = reason[b]
    <3>1. outcome'[b] = "running" => outcome[b] = "running"
      BY <1>3 DEF CloseStaleStatus, UpdateAttemptStatus, TypeOK
    <3> QED
      BY <1>1, <1>2, <2>2, <3>1, FailureKept
  <2>3. CASE reason'[b] # reason[b]
    <3>1. b = Latest(rtask) /\ reason'[b] = "restart"
      BY <1>3, <2>3 DEF CloseStaleStatus, TypeOK
    <3> QED
      BY <1>1, <2>1, <3>1 DEF FailureOver
  <2> QED
    BY <2>2, <2>3
<1>4. CASE ~CloseStaleStatus
  <2>1. UNCHANGED <<reason, outcome>>
    BY <1>4 DEF RecoveryStep, CloseStalePhase, RequeueStaleTask, FinishRecovery, rows
  <2> QED
    BY <1>1, <1>2, <2>1, FailureKept
<1> QED
  BY <1>3, <1>4

LEMMA FailuresOverStep ==
  Orderly /\ FailuresOver /\ PolicyKept /\ [Next]_vars => FailuresOver'
<1> SUFFICES ASSUME Orderly, FailuresOver, PolicyKept, [Next]_vars,
                    NEW b \in Attempt, b[1] \notin exempt'
             PROVE  FailureOver(b)'
  BY DEF FailuresOver
<1>1. TypeOK /\ TypeOK'
  BY TypeStep DEF Orderly
<1>2. Bounded /\ Quiet /\ ItemHeld /\ Rows /\ PhaseFirst /\ CloseAccepted /\ Released
  BY DEF Orderly, Recoverable
<1>3. b[1] \in Tasks \ exempt
  BY <1>1, ExemptKept, AttemptParts
<1>4. Sole(b) /\ FailureOver(b) /\ ClosesLatest(b[1])
  <2>1. Sole(b)
    BY <1>3 DEF Orderly, Undisturbed
  <2>2. FailureOver(b)
    BY <1>3 DEF FailuresOver
  <2>3. ClosesLatest(b[1])
    BY <1>3 DEF PolicyKept, Policy
  <2> QED
    BY <2>1, <2>2, <2>3
<1>5. tries[b[1]] <= tries[b[1]]
  <2>1. tries \in [Tasks -> Nat]
    BY <1>1 DEF TypeOK
  <2> QED
    BY <1>3, <2>1
<1>6. ASSUME NEW x \in Attempt, GoStep(x) PROVE FailureOver(b)'
  BY <1>1, <1>2, <1>4, <1>6, GoOthersOver, GoOwnOver
<1>7. CASE MergeStep
  BY <1>1, <1>2, <1>4, <1>7, MergeOver
<1>8. CASE CreateAttempt
  BY <1>1, <1>2, <1>4, <1>8, CreateOver
<1>9. CASE RecoveryStep
  BY <1>1, <1>2, <1>4, <1>9, RecoveryOver
<1>10. CASE Crash
  <2>1. /\ go'[b] = "none" /\ UNCHANGED <<tries, reason, outcome>>
        /\ queue' = <<>> /\ item' = NothingMerging
    BY <1>10 DEF Crash, MergeDone, rows
  <2>2. ~Queued(b)' /\ item'.attempt # b
    BY <2>1, AttemptParts, PipelineAssumption DEF Queued, NothingMerging, NoAttempt
  <2> QED
    BY <1>1, <1>4, <1>5, <2>1, <2>2, FailureKept
<1>11. CASE StartAttempt
  <2>1. UNCHANGED <<tries, reason, outcome, queue, item>>
    BY <1>11 DEF StartAttempt, rows, merger
  <2>2. go'[b] = go[b] \/ (go'[b] = "executing" /\ outcome[b] = "running")
    <3> SUFFICES ASSUME go'[b] # go[b] PROVE go'[b] = "executing" /\ outcome[b] = "running"
      OBVIOUS
    <3>1. b = seen /\ go[b] = "none" /\ go'[b] = "executing"
      BY <1>1, <1>11 DEF StartAttempt, Goto, TypeOK
    <3>2. ~StaleStart(b)
      BY <1>11, <3>1 DEF StartAttempt
    <3> QED
      BY <3>1, <3>2 DEF StaleStart, Startable
  <2> QED
    BY <1>1, <1>4, <1>5, <2>1, <2>2, SameQueue, FailureKept
<1>12. ASSUME NEW t \in Tasks, Dispatch(t) \/ WakeWaiter(t) PROVE FailureOver(b)'
  <2>1. UNCHANGED <<tries, reason, outcome, queue, item, go>>
    BY <1>12 DEF Dispatch, WakeWaiter, merger
  <2> QED
    BY <1>1, <1>4, <1>5, <2>1, SameQueue, FailureKept
<1>13. ASSUME UNCHANGED vars \/ \E t \in Tasks : LatestRunningAttempt(t)
       PROVE  FailureOver(b)'
  <2>1. UNCHANGED <<tries, reason, outcome, queue, item, go>>
    BY <1>13 DEF vars, LatestRunningAttempt, rows, merger
  <2> QED
    BY <1>1, <1>4, <1>5, <2>1, SameQueue, FailureKept
<1>14. ASSUME NEW x \in Attempt, ApproveTaskOutput(x) \/ RejectTaskOutput(x)
       PROVE  FailureOver(b)'
  <2>1. /\ UNCHANGED <<tries, outcome, queue, item, go>>
        /\ reason'[b] = reason[b]
    BY <1>1, <1>14 DEF ApproveTaskOutput, RejectTaskOutput, NewRequest, merger, TypeOK
  <2> QED
    BY <1>1, <1>4, <1>5, <2>1, SameQueue, FailureKept
<1>15. CASE ServeRequest
  <2>1. UNCHANGED <<tries, reason, go, item>>
    BY <1>15 DEF ServeRequest, EnqueueApproved, RejectAttempt, RejectTask, rows, merger
  <2>2. outcome'[b] = "running" => outcome[b] = "running"
    BY <1>1, <1>15 DEF ServeRequest, EnqueueApproved, RejectAttempt, RejectTask, rows,
      UpdateAttemptStatus, TypeOK
  <2>3. Queued(b)' => Queued(b)
    <3>1. CASE EnqueueApproved
      <4> DEFINE y == [attempt |-> ctl.attempt, files |-> FALSE]
      <4>1. ctl.pc # "idle" /\ queue' = Append(queue, y)
        BY <3>1 DEF EnqueueApproved
      <4>2. ctl.attempt \in Attempt /\ ctl.attempt[1] # b[1]
        BY <1>1, <1>2, <1>3, <4>1 DEF TypeOK, NoRequest, Released
      <4>3. y \in [attempt : Attempt, files : BOOLEAN] /\ y.attempt # b
        BY <4>2
      <4> HIDE DEF y
      <4> QED
        BY <1>1, <1>4, <4>1, <4>3, LongerQueue
    <3>2. CASE ~EnqueueApproved
      BY <1>4, <1>15, <3>2, SameQueue DEF ServeRequest, RejectAttempt, RejectTask, merger
    <3> QED
      BY <3>1, <3>2
  <2> QED
    BY <1>1, <1>4, <1>5, <2>1, <2>2, <2>3, FailureKept
<1> QED
  BY <1>6, <1>7, <1>8, <1>9, <1>10, <1>11, <1>12, <1>13, <1>14, <1>15, NextCases DEF Worker

-----------------------------------------------------------------------------
(* The policy, from the rows of one task.                                   *)

(* A step that leaves the rows of the task alone, and does not put it on    *)
(* its way to another attempt.                                              *)
SameRows(t) ==
  /\ tries'[t] = tries[t] /\ tier'[t] = tier[t]
  /\ \A b \in AttemptsOf(t) :
       /\ atier'[b] = atier[b]
       /\ reason'[b] = "pipeline" <=> reason[b] = "pipeline"

LEMMA SameFailures ==
  ASSUME NEW t, SameRows(t)
  PROVE  \A x : FailedAt(t, x)' = FailedAt(t, x)
BY DEF SameRows, FailedAt, AttemptsOf

LEMMA PolicyFrame ==
  ASSUME TypeOK, Bounded, NEW t \in Tasks, Policy(t), SameRows(t),
         \A b \in AttemptsOf(t) : go'[b] = "requeue" => go[b] = "requeue",
         RoomLeft(t)', ClosesLatest(t)'
  PROVE  Policy(t)'
<1>1. AttemptsOf(t)' = AttemptsOf(t) /\ Latest(t)' = Latest(t)
  BY DEF SameRows, AttemptsOf, Latest
<1>2. TierBound(t)'
  BY SameFailures DEF Policy, TierBound
<1>3. TiersRise(t)'
  BY <1>1 DEF SameRows, Policy, TiersRise
<1>4. TierCurrent(t)'
  <2>1. SUFFICES ASSUME tries'[t] > 0, reason'[Latest(t)'] # "pipeline"
                 PROVE  atier'[Latest(t)'] = tier'[t]
    BY DEF TierCurrent
  <2>2. tries[t] > 0 /\ tries[t] # 0
    BY <2>1 DEF SameRows, TypeOK
  <2>3. Latest(t) \in AttemptsOf(t)
    BY <2>2, AttemptsMade
  <2> QED
    BY <1>1, <2>1, <2>2, <2>3 DEF SameRows, Policy, TierCurrent
<1> QED
  BY <1>2, <1>3, <1>4 DEF Policy

(* The task stays closed, or was open already. *)
LEMMA RoomKept ==
  ASSUME NEW t \in Tasks, Policy(t), SameRows(t), Open(t)' => Open(t)
  PROVE  RoomLeft(t)'
BY SameFailures DEF SameRows, Policy, RoomLeft

(* A step that is none of those that write the policy's rows of the task.   *)
Apart(t) ==
  /\ ~(CreateAttempt /\ disp = t)
  /\ \A a \in Attempt : a[1] = t => ~EscalateTask(a) /\ ~ReloadTask(a)

LEMMA GoRequeues ==
  ASSUME TypeOK, NEW x \in Attempt, GoStep(x), ~EscalateTask(x)
  PROVE  go'[x] # "requeue"
<1> USE DEF Goto, TypeOK
<1>1. CASE Advance(x)
  BY <1>1, Names DEF Advance
<1>2. CASE ExpansionStep(x) \/ StepFails(x) \/ EnqueueMerge(x)
  BY <1>2 DEF ExpansionStep, RequestScopeExpansion, ParkForExpansion, ReloadAfterExpansion,
    StepFails, EnqueueMerge
<1>3. CASE FailStep(x)
  BY <1>3 DEF FailStep, ReloadAttempt, FailPhase, FailStatus, ReloadTask, FailTask
<1>4. CASE HandleStep(x)
  BY <1>4 DEF HandleStep, RefuseToHandle, RetryTask, RequeueEscalated, BlockTask
<1> QED
  BY <1>1, <1>2, <1>3, <1>4 DEF GoStep

(* What such a step leaves of the row of an attempt of the task. *)
SameRow(b) ==
  /\ b[2] <= tries[b[1]] => atier'[b] = atier[b]
  /\ reason'[b] = "pipeline" <=> reason[b] = "pipeline"
  /\ go'[b] = "requeue" => go[b] = "requeue"

LEMMA ApartRow ==
  ASSUME Orderly, FailuresOver, [Next]_vars, NEW b \in Attempt, b[1] \notin exempt',
         Apart(b[1])
  PROVE  SameRow(b)
<1>1. TypeOK /\ Bounded /\ Quiet /\ ItemHeld /\ Rows /\ CloseAccepted
  BY DEF Orderly, Recoverable
<1>2. b[1] \in Tasks \ exempt
  BY <1>1, ExemptKept, AttemptParts
<1>3. FailureOver(b)
  BY <1>2 DEF FailuresOver
<1>4. ASSUME NEW x \in Attempt, GoStep(x) PROVE SameRow(b)
  <2>1. UNCHANGED <<tries, atier>>
    BY <1>1, <1>4, GoLeaves, GoRows
  <2>2. CASE x = b
    <3>1. ~EscalateTask(x) /\ ~ReloadTask(x)
      BY <2>2 DEF Apart
    <3> QED
      BY <1>1, <1>4, <2>1, <2>2, <3>1, GoRows, GoRequeues DEF SameRow
  <2>3. CASE x # b
    <3>1. go'[b] = go[b] /\ reason'[b] = reason[b]
      BY <1>1, <1>4, <2>3, GoWrites, GoRows
    <3> QED
      BY <2>1, <3>1 DEF SameRow
  <2> QED
    BY <2>2, <2>3
<1>5. CASE MergeStep
  <2>1. UNCHANGED <<tries, tier, atier, go>>
    BY <1>5, MergeLeaves DEF MergeStep, TakeItem, CommitItem, CompleteTask, MarkSucceeded,
      MarkPassed, RefuseItem, MarkFailed, ReloadMergedTask, FailMergedTask, RequeueTask, rows
  <2>2. CASE MarkFailed
    <3>1. item.attempt = b => reason[b] # "pipeline"
      BY <1>3 DEF FailureOver
    <3>2. reason'[b] = reason[b] \/ (item.attempt = b /\ reason'[b] = "merge")
      BY <1>1, <2>2 DEF MarkFailed, TypeOK
    <3> QED
      BY <2>1, <3>1, <3>2 DEF SameRow
  <2>3. CASE ~MarkFailed
    <3>1. UNCHANGED reason
      BY <1>5, <2>3 DEF MergeStep, TakeItem, CommitItem, CompleteTask, MarkSucceeded,
        MarkPassed, RefuseItem, ReloadMergedTask, FailMergedTask, RequeueTask, rows
    <3> QED
      BY <2>1, <3>1 DEF SameRow
  <2> QED
    BY <2>2, <2>3
<1>6. CASE CreateAttempt
  <2> DEFINE new == <<disp, tries[disp] + 1>>
  <2>1. /\ disp \in Tasks /\ disp # b[1] /\ new[1] = disp
        /\ tries' = [tries EXCEPT ![disp] = tries[disp] + 1]
        /\ atier' = [atier EXCEPT ![new] = tier[disp]]
        /\ UNCHANGED <<tier, reason, go>>
    BY <1>1, <1>6, NewAttempt DEF CreateAttempt, Apart
  <2> HIDE DEF new
  <2> QED
    BY <1>1, <1>2, <2>1 DEF SameRow, TypeOK
<1>7. CASE RecoveryStep
  <2>1. UNCHANGED <<tries, tier, atier, go>>
    BY <1>7, RecoveryLeaves DEF RecoveryStep, CloseStalePhase, CloseStaleStatus,
      RequeueStaleTask, FinishRecovery, rows
  <2>2. CASE CloseStaleStatus
    <3>1. outcome[Latest(rtask)] = "running"
      BY <1>1, <2>2 DEF CloseStaleStatus, CloseAccepted
    <3>2. b = Latest(rtask) => reason[b] # "pipeline"
      BY <1>3, <3>1 DEF FailureOver
    <3>3. reason'[b] = reason[b] \/ (b = Latest(rtask) /\ reason'[b] = "restart")
      BY <1>1, <2>2 DEF CloseStaleStatus, TypeOK
    <3> QED
      BY <2>1, <3>2, <3>3 DEF SameRow
  <2>3. CASE ~CloseStaleStatus
    <3>1. UNCHANGED reason
      BY <1>7, <2>3 DEF RecoveryStep, CloseStalePhase, RequeueStaleTask, FinishRecovery, rows
    <3> QED
      BY <2>1, <3>1 DEF SameRow
  <2> QED
    BY <2>2, <2>3
<1>8. CASE Crash
  BY <1>8 DEF Crash, rows, SameRow
<1>9. CASE StartAttempt
  <2>1. UNCHANGED rows /\ (go'[b] = go[b] \/ go'[b] = "executing")
    BY <1>1, <1>9 DEF StartAttempt, Goto, TypeOK
  <2> QED
    BY <2>1 DEF SameRow, rows
<1>10. ASSUME NEW x \in Tasks, Dispatch(x) \/ WakeWaiter(x) \/ LatestRunningAttempt(x)
       PROVE  SameRow(b)
  BY <1>10 DEF Dispatch, WakeWaiter, LatestRunningAttempt, rows, SameRow
<1>11. ASSUME NEW x \in Attempt, ApproveTaskOutput(x) \/ RejectTaskOutput(x)
       PROVE  SameRow(b)
  <2>1. UNCHANGED <<tries, tier, atier, go>> /\ reason'[b] = reason[b]
    BY <1>1, <1>11 DEF ApproveTaskOutput, RejectTaskOutput, NewRequest, TypeOK
  <2> QED
    BY <2>1 DEF SameRow
<1>12. CASE ServeRequest
  BY <1>12 DEF ServeRequest, EnqueueApproved, RejectAttempt, RejectTask, rows, SameRow
<1>13. CASE UNCHANGED vars
  BY <1>13 DEF vars, rows, SameRow
<1> QED
  BY <1>4, <1>5, <1>6, <1>7, <1>8, <1>9, <1>10, <1>11, <1>12, <1>13, NextCases DEF Worker

LEMMA ApartTask ==
  ASSUME TypeOK, Bounded, Rows, [Next]_vars, NEW t \in Tasks, Apart(t)
  PROVE  tries'[t] = tries[t] /\ tier'[t] = tier[t]
<1>1. ASSUME NEW x \in Attempt, EscalateTask(x) PROVE tier'[t] = tier[t]
  BY <1>1 DEF EscalateTask, Apart, TypeOK
<1>2. ASSUME NEW x \in Attempt, GoStep(x) PROVE tier'[t] = tier[t]
  BY <1>1, <1>2, GoRows
<1>3. CASE MergeStep
  BY <1>3, MergeLeaves DEF MergeStep, TakeItem, CommitItem, CompleteTask, MarkSucceeded,
    MarkPassed, RefuseItem, MarkFailed, ReloadMergedTask, FailMergedTask, RequeueTask, rows
<1>4. CASE Worker /\ ~MergeStep /\ \A x \in Attempt : ~GoStep(x)
  BY <1>4 DEF Worker, WakeWaiter, LatestRunningAttempt, StartAttempt, ServeRequest,
    EnqueueApproved, RejectAttempt, RejectTask, ApproveTaskOutput, RejectTaskOutput, rows
<1>5. CASE RecoveryStep
  BY <1>5 DEF RecoveryStep, CloseStalePhase, CloseStaleStatus, RequeueStaleTask,
    FinishRecovery, rows
<1>6. tier'[t] = tier[t]
  BY <1>2, <1>3, <1>4, <1>5, NextCases DEF Dispatch, CreateAttempt, Crash, vars, rows
<1>7. tries'[t] = tries[t]
  <2>1. CASE CreateAttempt
    <3>1. disp \in Tasks /\ disp # t /\ tries' = [tries EXCEPT ![disp] = tries[disp] + 1]
      BY <2>1, NewAttempt DEF Apart
    <3> QED
      BY <3>1 DEF TypeOK
  <2>2. CASE ~CreateAttempt
    BY <2>2, TriesKept
  <2> QED
    BY <2>1, <2>2
<1> QED
  BY <1>6, <1>7

LEMMA ApartRows ==
  ASSUME Orderly, FailuresOver, [Next]_vars, NEW t \in Tasks, t \notin exempt', Apart(t)
  PROVE  /\ SameRows(t)
         /\ \A b \in AttemptsOf(t) : go'[b] = "requeue" => go[b] = "requeue"
<1>1. TypeOK /\ Bounded /\ Rows
  BY DEF Orderly, Recoverable
<1>2. ASSUME NEW b \in AttemptsOf(t) PROVE SameRow(b) /\ b[2] <= tries[b[1]]
  <2>1. b \in Attempt /\ b[1] = t /\ b[2] <= tries[t]
    BY <1>1, AttemptsMade
  <2> QED
    BY <2>1, ApartRow
<1>3. tries'[t] = tries[t] /\ tier'[t] = tier[t]
  BY <1>1, ApartTask
<1> QED
  BY <1>2, <1>3 DEF SameRow, SameRows

LEMMA RankTyped == \A x \in Tier : Rank[x] \in Nat
BY DEF Tier, Rank

(* Whoever makes a closed task open again asks the retry policy.            *)
Reopens(t) == \E a \in Attempt : a[1] = t /\ (RetryTask(a) \/ RequeueEscalated(a))

LEMMA WriteOpens ==
  ASSUME TypeOK, NEW x, NEW to, status' = UpdateTaskStatus(status, x, to), NEW t \in Tasks,
         x # t \/ to \notin {"queued", "waiting_on_lock"}
  PROVE  status'[t] \in {"queued", "waiting_on_lock"} => status'[t] = status[t]
BY DEF UpdateTaskStatus, TypeOK

LEMMA ClosedKept ==
  ASSUME Orderly, FailuresOver, [Next]_vars, NEW t \in Tasks, t \notin exempt',
         Policy(t), SameRows(t), ~Open(t), ~Reopens(t)
  PROVE  ~Open(t)'
<1>1. TypeOK /\ Bounded /\ Quiet /\ ItemHeld /\ Rows
  BY DEF Orderly, Recoverable
<1>2. /\ status[t] \notin {"queued", "waiting_on_lock"} /\ disp # t
      /\ tries[t] # 0 /\ reason[Latest(t)] = "pipeline"
  BY DEF Open
<1>3. Latest(t) \in AttemptsOf(t) /\ Latest(t) \in Attempt /\ Latest(t)[1] = t
  BY <1>1, <1>2, AttemptsMade
<1>4. t \in Tasks \ exempt
  BY <1>1, ExemptKept
<1>5. /\ item.attempt # Latest(t)
      /\ go[Latest(t)] \in {"none", "fail_task", "handle", "requeue"}
  BY <1>2, <1>3, <1>4 DEF FailuresOver, FailureOver
<1>6. \A b \in Attempt : b[1] = t /\ InPlay(b) => b = Latest(t)
  BY <1>1, <1>4, HeldIsLatest DEF Orderly, Undisturbed
<1>7. tries'[t] # 0 /\ reason'[Latest(t)'] = "pipeline"
  BY <1>2, <1>3 DEF SameRows, Latest
<1> DEFINE Shut == status'[t] \notin {"queued", "waiting_on_lock"} /\ disp' # t
<1>8. ASSUME UNCHANGED <<status, disp>> PROVE Shut
  BY <1>2, <1>8
<1>9. ASSUME NEW x, NEW to, status' = UpdateTaskStatus(status, x, to), disp' # t,
             x # t \/ to \notin {"queued", "waiting_on_lock"}
      PROVE  Shut
  BY <1>1, <1>2, <1>9, WriteOpens
<1> SUFFICES Shut
  BY <1>7 DEF Open
<1> HIDE DEF Shut
<1>10. ASSUME NEW x \in Tasks, Dispatch(x) \/ WakeWaiter(x) PROVE Shut
  BY <1>2, <1>9, <1>10 DEF Dispatch, WakeWaiter
<1>11. ASSUME NEW x \in Attempt, GoStep(x) PROVE Shut
  <2>1. disp' # t
    BY <1>2, <1>11, GoLeaves
  <2>2. CASE ParkForExpansion(x)
    <3>1. go[x] = "expanding" /\ status' = UpdateTaskStatus(status, x[1], "waiting_on_lock")
      BY <2>2 DEF ParkForExpansion
    <3>2. x[1] # t
      BY <1>5, <1>6, <3>1 DEF InPlay
    <3> QED
      BY <1>9, <2>1, <3>1, <3>2
  <2>3. CASE RetryTask(x) \/ RequeueEscalated(x)
    <3>1. x[1] # t
      BY <2>3 DEF Reopens
    <3> QED
      BY <1>9, <2>1, <2>3, <3>1 DEF RetryTask, RequeueEscalated
  <2>4. CASE FailTask(x) \/ BlockTask(x)
    BY <1>9, <2>1, <2>4 DEF FailTask, BlockTask
  <2>5. CASE Advance(x) \/ StepFails(x) \/ EnqueueMerge(x)
    BY <1>8, <2>5 DEF Advance, StepFails, EnqueueMerge, rows
  <2>6. CASE RequestScopeExpansion(x) \/ ReloadAfterExpansion(x)
    BY <1>8, <2>6 DEF RequestScopeExpansion, ReloadAfterExpansion, rows
  <2>7. CASE ReloadAttempt(x) \/ FailPhase(x) \/ FailStatus(x) \/ ReloadTask(x)
    BY <1>8, <2>7 DEF ReloadAttempt, FailPhase, FailStatus, ReloadTask, rows
  <2>8. CASE RefuseToHandle(x) \/ EscalateTask(x)
    BY <1>8, <2>8 DEF RefuseToHandle, EscalateTask, rows
  <2> QED
    BY <1>11, <2>2, <2>3, <2>4, <2>5, <2>6, <2>7, <2>8
    DEF GoStep, ExpansionStep, FailStep, HandleStep
<1>12. CASE MergeStep
  <2>1. disp' # t
    BY <1>2, <1>12, MergeLeaves
  <2>2. CASE RequeueTask
    <3>1. item.attempt \in Attempt /\ status' = UpdateTaskStatus(status, item.attempt[1], "queued")
      BY <1>1, <2>2 DEF RequeueTask, ItemHeld
    <3>2. item.attempt[1] # t
      BY <1>5, <1>6, <3>1 DEF InPlay
    <3> QED
      BY <1>9, <2>1, <3>1, <3>2
  <2>3. CASE CompleteTask \/ FailMergedTask
    BY <1>9, <2>1, <2>3 DEF CompleteTask, FailMergedTask
  <2>4. CASE TakeItem \/ CommitItem \/ MarkSucceeded \/ MarkPassed
    BY <1>8, <2>4 DEF TakeItem, CommitItem, MarkSucceeded, MarkPassed, rows
  <2>5. CASE RefuseItem \/ MarkFailed \/ ReloadMergedTask
    BY <1>8, <2>5 DEF RefuseItem, MarkFailed, ReloadMergedTask, rows
  <2> QED
    BY <1>12, <2>2, <2>3, <2>4, <2>5 DEF MergeStep
<1>13. CASE CreateAttempt
  BY <1>2, <1>13, PipelineAssumption DEF CreateAttempt, Shut
<1>14. CASE ServeRequest
  <2>1. CASE RejectTask
    BY <1>2, <1>8, <1>9, <2>1 DEF RejectTask
  <2>2. CASE ~RejectTask
    BY <1>8, <1>14, <2>2 DEF ServeRequest, EnqueueApproved, RejectAttempt, rows
  <2> QED
    BY <2>1, <2>2
<1>15. CASE RecoveryStep
  <2>1. disp' # t
    BY <1>2, <1>15, RecoveryLeaves
  <2>2. ASSUME NEW x \in Tasks, RequeueStaleTask(x) PROVE Shut
    <3>1. x # t
      BY <1>2, <2>2 DEF RequeueStaleTask, Policy, ClosesLatest
    <3> QED
      BY <1>1, <1>2, <2>1, <2>2, <3>1 DEF RequeueStaleTask, Shut, TypeOK
  <2>3. CASE \A x \in Tasks : ~RequeueStaleTask(x)
    BY <1>8, <1>15, <2>3 DEF RecoveryStep, CloseStalePhase, CloseStaleStatus, FinishRecovery, rows
  <2> QED
    BY <2>2, <2>3
<1>16. CASE Crash
  BY <1>2, <1>16, PipelineAssumption DEF Crash, rows, Shut
<1>17. ASSUME \/ UNCHANGED vars \/ StartAttempt
              \/ \E x \in Tasks : LatestRunningAttempt(x)
              \/ \E x \in Attempt : ApproveTaskOutput(x) \/ RejectTaskOutput(x)
       PROVE  Shut
  BY <1>8, <1>17 DEF vars, rows, StartAttempt, LatestRunningAttempt, ApproveTaskOutput,
    RejectTaskOutput
<1> QED
  BY <1>10, <1>11, <1>12, <1>13, <1>14, <1>15, <1>16, <1>17, NextCases DEF Worker

(* The recovery requeues a task with its latest attempt closed as one of    *)
(* the past.                                                                *)
LEMMA ClosesKept ==
  ASSUME Orderly, [Next]_vars, NEW t \in Tasks, t \notin exempt', Policy(t), SameRows(t)
  PROVE  ClosesLatest(t)'
<1> SUFFICES ASSUME mode' \in {"close", "reset"}, rtask' = t
             PROVE  tries[t] > 0 /\ (mode' = "reset" => reason'[Latest(t)] # "pipeline")
  BY DEF ClosesLatest, SameRows, Latest
<1>1. TypeOK /\ Bounded /\ Quiet
  BY DEF Orderly, Recoverable
<1>2. CASE UNCHANGED <<mode, rtask>>
  <2>1. tries[t] > 0 /\ (mode = "reset" => reason[Latest(t)] # "pipeline")
    BY <1>2 DEF Policy, ClosesLatest
  <2>2. tries[t] # 0
    BY <1>1, <2>1 DEF TypeOK
  <2>3. Latest(t) \in AttemptsOf(t)
    BY <1>1, <2>2, AttemptsMade
  <2> QED
    BY <1>2, <2>1, <2>3 DEF SameRows
<1>3. ASSUME NEW x \in Tasks, CloseStalePhase(x)
      PROVE  tries[t] > 0 /\ (mode' = "reset" => reason'[Latest(t)] # "pipeline")
  BY <1>3 DEF CloseStalePhase
<1>4. CASE CloseStaleStatus
  <2>1. tries[t] > 0
    BY <1>4 DEF CloseStaleStatus, Policy, ClosesLatest
  <2>2. tries[t] # 0
    BY <1>1, <2>1 DEF TypeOK
  <2>3. Latest(t) \in Attempt
    BY <1>1, <2>2, AttemptsMade
  <2>4. reason'[Latest(t)] = "restart"
    BY <1>1, <1>4, <2>3 DEF CloseStaleStatus, TypeOK
  <2> QED
    BY <2>1, <2>4
<1>5. CASE RecoveryStep
  BY <1>2, <1>3, <1>4, <1>5 DEF RecoveryStep, RequeueStaleTask, FinishRecovery
<1>6. CASE Crash
  BY <1>6 DEF Crash
<1>7. CASE Worker \/ CreateAttempt \/ UNCHANGED vars \/ \E x \in Tasks : Dispatch(x)
  BY <1>2, <1>7, WorkerLeaves DEF CreateAttempt, vars, Dispatch, process
<1> QED
  BY <1>5, <1>6, <1>7, NextCases

(* Most steps. *)
LEMMA ApartKeeps ==
  ASSUME Orderly, FailuresOver, [Next]_vars, NEW t \in Tasks, t \notin exempt', Policy(t),
         Apart(t), ~Reopens(t)
  PROVE  Policy(t)'
<1>1. TypeOK /\ Bounded
  BY DEF Orderly, Recoverable
<1>2. SameRows(t)
  BY ApartRows
<1>3. RoomLeft(t)'
  BY <1>2, ClosedKept, RoomKept
<1>4. ClosesLatest(t)'
  BY <1>2, ClosesKept
<1> QED
  BY <1>1, <1>2, <1>3, <1>4, ApartRows, PolicyFrame

(* A retry finds fewer attempts at the tier than it allows, an escalation   *)
(* none at all.                                                             *)
LEMMA ReopenKeeps ==
  ASSUME Orderly, FailuresOver, [Next]_vars, NEW t \in Tasks, t \notin exempt', Policy(t),
         Apart(t), Reopens(t)
  PROVE  Policy(t)'
<1>1. TypeOK /\ Bounded /\ Rows
  BY DEF Orderly, Recoverable
<1>2. SameRows(t)
  BY ApartRows
<1>3. PICK a \in Attempt : a[1] = t /\ (RetryTask(a) \/ RequeueEscalated(a))
  BY DEF Reopens
<1>4. Cardinality(FailedAt(t, tier[t])) < MaxRetriesPerTier
  <2>1. CASE RetryTask(a)
    <3> DEFINE S == {b \in AttemptsOf(t) : atier[b] = tier[t]}
    <3>1. Cardinality(S) < MaxRetriesPerTier
      BY <1>3, <2>1 DEF RetryTask, MayRetry, AttemptsAtCurrentTier
    <3>2. IsFiniteSet(AttemptsOf(t))
      BY <1>1, NumbersFinite DEF AttemptsOf, TypeOK
    <3>3. S \in SUBSET AttemptsOf(t) /\ FailedAt(t, tier[t]) \in SUBSET S
      BY DEF FailedAt
    <3> HIDE DEF S
    <3>4. IsFiniteSet(S) /\ Cardinality(S) \in Nat
      BY <3>2, <3>3, FS_Subset, FS_CardinalityType
    <3>5. Cardinality(FailedAt(t, tier[t])) <= Cardinality(S)
      BY <3>3, <3>4, FS_Subset
    <3> QED
      BY <1>1, <3>1, <3>4, <3>5, FailedCounted, PipelineAssumption
  <2>2. CASE RequeueEscalated(a)
    <3>1. go[a] = "requeue"
      BY <2>2 DEF RequeueEscalated
    <3>2. InPlay(a) /\ Sole(a)
      BY <1>1, <1>3, <3>1, ExemptKept DEF InPlay, Orderly, Undisturbed
    <3>3. a \in AttemptsOf(t)
      BY <1>1, <1>3, <3>2, HeldIsLatest
    <3>4. \A b \in AttemptsOf(t) : Rank[atier[b]] < Rank[tier[t]]
      BY <3>1, <3>3 DEF Policy, TiersRise
    <3>5. Rank[tier[t]] \in Nat
      BY <1>1, RankTyped DEF TypeOK
    <3>6. FailedAt(t, tier[t]) = {}
      BY <3>4, <3>5 DEF FailedAt
    <3> QED
      BY <3>6, FS_EmptySet, PipelineAssumption
  <2> QED
    BY <1>3, <2>1, <2>2
<1>5. RoomLeft(t)'
  BY <1>2, <1>4, SameFailures DEF RoomLeft, SameRows
<1>6. ClosesLatest(t)'
  BY <1>2, ClosesKept
<1> QED
  BY <1>1, <1>2, <1>5, <1>6, ApartRows, PolicyFrame

(* A new attempt has failed in no way, and is at the tier of its task.      *)
LEMMA CreateKeepsPolicy ==
  ASSUME Orderly, FailuresOver, CreateAttempt, NEW t \in Tasks, t \notin exempt, disp = t,
         Policy(t)
  PROVE  Policy(t)'
<1> DEFINE new == <<t, tries[t] + 1>>
<1>1. TypeOK /\ Bounded /\ Rows /\ Quiet
  BY DEF Orderly, Recoverable
<1>2. /\ new \in Attempt /\ new[1] = t /\ new[2] = tries[t] + 1
      /\ tries' = [tries EXCEPT ![t] = tries[t] + 1]
      /\ UNCHANGED <<go, merger, control, process>>
  BY <1>1, NewAttempt
<1>3. /\ UNCHANGED <<tier, reason>> /\ atier' = [atier EXCEPT ![new] = tier[t]]
  BY DEF CreateAttempt
<1>4. tries[t] \in Nat /\ tries'[t] = tries[t] + 1
  BY <1>1, <1>2 DEF TypeOK
<1>5. Latest(t)' = new /\ AttemptsOf(t)' = AttemptsOf(t) \cup {new} /\ new \notin AttemptsOf(t)
  BY <1>4 DEF Latest, AttemptsOf
<1>6. AttemptsOf(t) \subseteq Attempt
  BY <1>1, AttemptsMade
<1> HIDE DEF new
<1>7. atier'[new] = tier[t] /\ \A b \in AttemptsOf(t) : atier'[b] = atier[b]
  BY <1>1, <1>2, <1>3, <1>5, <1>6 DEF TypeOK
<1>8. reason[new] = "none"
  BY <1>2, <1>4 DEF FailuresOver, FailureOver
<1>9. \A x : FailedAt(t, x)' = FailedAt(t, x)
  BY <1>3, <1>5, <1>7, <1>8 DEF FailedAt
<1>10. TierBound(t)'
  BY <1>9 DEF Policy, TierBound
<1>11. RoomLeft(t)'
  BY <1>3, <1>9 DEF Policy, RoomLeft, Open
<1>12. TiersRise(t)'
  <2>1. \A b \in AttemptsOf(t)' : go[b] # "requeue"
    BY <1>1, <1>2, <1>5, <1>6, HeldIsLatest, AttemptsMade DEF Orderly, Undisturbed, InPlay
  <2>2. tier[t] \in Tier
    BY <1>1 DEF TypeOK
  <2>3. Rank[tier[t]] \in Nat
    BY <2>2, RankTyped
  <2> QED
    BY <1>2, <1>3, <1>5, <1>7, <2>1, <2>2, <2>3 DEF Policy, TiersRise
<1>13. TierCurrent(t)'
  BY <1>3, <1>5, <1>7 DEF TierCurrent
<1>14. ClosesLatest(t)'
  <2>1. mode = "up" /\ mode' = mode
    BY <1>1, <1>2, PipelineAssumption DEF Quiet, process
  <2> QED
    BY <2>1 DEF ClosesLatest
<1> QED
  BY <1>10, <1>11, <1>12, <1>13, <1>14 DEF Policy

(* An attempt that fails takes the room that was left for it.               *)
LEMMA FailKeepsPolicy ==
  ASSUME Orderly, FailuresOver, NEW a \in Attempt, ReloadTask(a), a[1] \notin exempt,
         Policy(a[1])
  PROVE  Policy(a[1])'
<1> DEFINE t == a[1]
<1>1. TypeOK /\ Bounded /\ Rows /\ Quiet
  BY DEF Orderly, Recoverable
<1>2. go[a] = "reload_task" /\ Sole(a) /\ InPlay(a)
  BY <1>1, AttemptParts DEF ReloadTask, Orderly, Undisturbed, InPlay
<1>3. t \in Tasks /\ a = Latest(t) /\ disp # t /\ tries[t] # 0 /\ a \in AttemptsOf(t)
  BY <1>1, <1>2, HeldIsLatest
<1>4. AttemptsOf(t) \subseteq Attempt
  BY <1>1, <1>3, AttemptsMade
<1>5. /\ UNCHANGED <<status, tries, tier, atier, disp, process>>
      /\ reason' = [reason EXCEPT ![a] = "pipeline"]
      /\ go' = [go EXCEPT ![a] = IF status[t] = "in_progress" THEN "fail_task" ELSE "handle"]
  BY DEF ReloadTask, Goto
<1>6. reason[a] # "pipeline" /\ status[t] = "in_progress" /\ mode = "up"
  BY <1>1, <1>2 DEF FailuresOver, FailureOver, Sole, StatusKnown, Working, Quiet
<1>7. Policy(t)
  OBVIOUS
<1> HIDE DEF t
<1>8. atier[a] = tier[t] /\ Cardinality(FailedAt(t, tier[t])) < MaxRetriesPerTier
  <2>1. tries[t] > 0
    BY <1>1, <1>3 DEF TypeOK
  <2> QED
    BY <1>3, <1>6, <1>7, <2>1 DEF Policy, TierCurrent, RoomLeft, Open
<1>9. AttemptsOf(t)' = AttemptsOf(t) /\ Latest(t)' = a
  BY <1>3, <1>5 DEF AttemptsOf, Latest
<1>10. /\ reason'[a] = "pipeline"
       /\ \A b \in AttemptsOf(t) : b # a => reason'[b] = reason[b]
       /\ \A b \in AttemptsOf(t) : go'[b] = "requeue" => go[b] = "requeue"
  BY <1>1, <1>4, <1>5 DEF TypeOK
<1>11. TierBound(t)'
  <2> SUFFICES ASSUME NEW x \in Tier
               PROVE  Cardinality(FailedAt(t, x)') <= MaxRetriesPerTier
    BY DEF TierBound
  <2>1. IsFiniteSet(FailedAt(t, x)) /\ Cardinality(FailedAt(t, x)) \in Nat
    BY <1>1, <1>3, FailedCounted
  <2>2. CASE x = tier[t]
    <3>1. FailedAt(t, x)' = FailedAt(t, x) \cup {a}
      <4>1. a \in AttemptsOf(t)' /\ atier' = atier /\ atier[a] = x /\ reason'[a] = "pipeline"
        BY <1>3, <1>5, <1>8, <1>9, <1>10, <2>2
      <4>2. FailedAt(t, x)' = {b \in AttemptsOf(t)' : atier'[b] = x /\ reason'[b] = "pipeline"}
        BY DEF FailedAt
      <4>3. FailedAt(t, x) = {b \in AttemptsOf(t) : atier[b] = x /\ reason[b] = "pipeline"}
        BY DEF FailedAt
      <4>4. \A b \in AttemptsOf(t) : b # a => reason'[b] = reason[b]
        BY <1>10
      <4> QED
        BY <1>9, <4>1, <4>2, <4>3, <4>4
    <3>2. Cardinality(FailedAt(t, x) \cup {a}) <= Cardinality(FailedAt(t, x)) + 1
      <4> DEFINE failed == FailedAt(t, x)
      <4> HIDE DEF failed
      <4>1. IsFiniteSet(failed) /\ Cardinality(failed) \in Nat
        BY <2>1 DEF failed
      <4>2. \/ Cardinality(failed \cup {a}) = Cardinality(failed)
            \/ Cardinality(failed \cup {a}) = Cardinality(failed) + 1
        BY <4>1, FS_AddElement, Zenon
      <4>3. Cardinality(failed \cup {a}) <= Cardinality(failed) + 1
        BY <4>1, <4>2
      <4> QED
        BY <4>3 DEF failed
    <3>3. Cardinality(FailedAt(t, x) \cup {a}) \in Nat
      BY <2>1, FS_AddElement, FS_CardinalityType
    <3> QED
      BY <1>8, <2>1, <2>2, <3>1, <3>2, <3>3, PipelineAssumption
  <2>3. CASE x # tier[t]
    <3>1. FailedAt(t, x)' = FailedAt(t, x)
      BY <1>5, <1>8, <1>9, <1>10, <2>3 DEF FailedAt
    <3> QED
      BY <1>7, <3>1 DEF Policy, TierBound
  <2> QED
    BY <2>2, <2>3
<1>12. RoomLeft(t)'
  BY <1>3, <1>5, <1>6, <1>9, <1>10 DEF RoomLeft, Open
<1>13. TiersRise(t)'
  BY <1>5, <1>7, <1>9, <1>10 DEF Policy, TiersRise
<1>14. TierCurrent(t)'
  BY <1>9, <1>10 DEF TierCurrent
<1>15. ClosesLatest(t)'
  BY <1>5, <1>6 DEF ClosesLatest, process
<1> QED
  BY <1>11, <1>12, <1>13, <1>14, <1>15 DEF Policy, t

(* An escalation raises the tier above that of every attempt.               *)
LEMMA TierRaised ==
  ASSUME NEW x \in DOMAIN TierEscalation
  PROVE  Rank[TierEscalation[x]] = Rank[x] + 1
BY DEF TierEscalation, Rank

LEMMA EscalateKeepsPolicy ==
  ASSUME Orderly, FailuresOver, NEW a \in Attempt, EscalateTask(a), a[1] \notin exempt,
         Policy(a[1])
  PROVE  Policy(a[1])'
<1> DEFINE t == a[1]
<1>1. TypeOK /\ Bounded /\ Rows /\ Quiet
  BY DEF Orderly, Recoverable
<1>2. go[a] = "handle" /\ status[t] = "failed" /\ tier[t] \in DOMAIN TierEscalation
  BY DEF EscalateTask, MayEscalate
<1>3. Sole(a) /\ InPlay(a)
  BY <1>1, <1>2, AttemptParts DEF Orderly, Undisturbed, InPlay
<1>4. t \in Tasks /\ a = Latest(t) /\ disp # t /\ tries[t] # 0 /\ a \in AttemptsOf(t)
  BY <1>1, <1>3, HeldIsLatest
<1>5. /\ UNCHANGED <<status, tries, atier, reason, disp, process>>
      /\ tier' = [tier EXCEPT ![t] = TierEscalation[@]]
  BY DEF EscalateTask
<1>6. reason[a] = "pipeline" /\ mode = "up"
  BY <1>1, <1>2 DEF FailuresOver, FailureOver, Quiet
<1>7. Policy(t)
  OBVIOUS
<1> HIDE DEF t
<1>8. AttemptsOf(t)' = AttemptsOf(t) /\ Latest(t)' = a
  BY <1>4, <1>5 DEF AttemptsOf, Latest
<1>9. \A x : FailedAt(t, x)' = FailedAt(t, x)
  BY <1>5, <1>8 DEF FailedAt
<1>10. TierBound(t)'
  BY <1>7, <1>9 DEF Policy, TierBound
<1>11. RoomLeft(t)'
  BY <1>2, <1>4, <1>5, <1>6, <1>8 DEF RoomLeft, Open
<1>12. TiersRise(t)'
  <2>1. Rank[tier'[t]] = Rank[tier[t]] + 1
    BY <1>1, <1>2, <1>4, <1>5, TierRaised DEF TypeOK
  <2>2. \A b \in AttemptsOf(t) : Rank[atier[b]] <= Rank[tier[t]]
    BY <1>7 DEF Policy, TiersRise
  <2>3. \A b \in AttemptsOf(t) : Rank[atier[b]] \in Int
    BY <1>7, RankTyped DEF Policy, TiersRise
  <2>4. Rank[tier[t]] \in Nat
    BY <1>1, <1>4, RankTyped DEF TypeOK
  <2>5. \A b \in AttemptsOf(t) : atier[b] \in Tier
    BY <1>7 DEF Policy, TiersRise
  <2> QED
    BY <1>5, <1>8, <2>5, <2>1, <2>2, <2>3, <2>4 DEF TiersRise
<1>13. TierCurrent(t)'
  BY <1>5, <1>6, <1>8 DEF TierCurrent
<1>14. ClosesLatest(t)'
  BY <1>5, <1>6 DEF ClosesLatest, process
<1> QED
  BY <1>10, <1>11, <1>12, <1>13, <1>14 DEF Policy, t

LEMMA PolicyStep == Orderly /\ FailuresOver /\ PolicyKept /\ [Next]_vars => PolicyKept'
<1> SUFFICES ASSUME Orderly, FailuresOver, PolicyKept, [Next]_vars,
                    NEW t \in Tasks, t \notin exempt'
             PROVE  Policy(t)'
  BY DEF PolicyKept
<1>1. t \notin exempt /\ Policy(t)
  BY ExemptKept DEF Orderly, PolicyKept
<1>2. CASE CreateAttempt /\ disp = t
  BY <1>1, <1>2, CreateKeepsPolicy
<1>3. ASSUME NEW a \in Attempt, a[1] = t, EscalateTask(a) \/ ReloadTask(a)
      PROVE  Policy(t)'
  BY <1>1, <1>3, FailKeepsPolicy, EscalateKeepsPolicy
<1>4. CASE Apart(t)
  BY <1>1, <1>4, ApartKeeps, ReopenKeeps
<1> QED
  BY <1>2, <1>3, <1>4 DEF Apart

(***************************************************************************)
(* Whatever the merges, the lock waits and the restarts do to the shared   *)
(* counter, no more than MaxRetriesPerTier attempts of a task nobody has   *)
(* disturbed fail by themselves at one tier.                               *)
(***************************************************************************)
THEOREM RetriesCorrect == Spec => []RetriesBounded
<1>1. Init => RetryInv
  <2> SUFFICES ASSUME Init PROVE FailuresOver /\ PolicyKept
    BY InitOrderly DEF RetryInv
  <2>1. FailuresOver
    BY DEF Init, FailuresOver, FailureOver
  <2>2. ASSUME NEW t \in Tasks PROVE Policy(t)
    <3>1. AttemptsOf(t) = {} /\ tries[t] = 0
      BY DEF Init, AttemptsOf
    <3>2. \A x : Cardinality(FailedAt(t, x)) = 0
      BY <3>1, FS_EmptySet DEF FailedAt
    <3> QED
      BY <3>1, <3>2, PipelineAssumption
      DEF Init, Policy, TierBound, RoomLeft, TiersRise, TierCurrent, ClosesLatest
  <2> QED
    BY <2>1, <2>2 DEF PolicyKept
<1>2. RetryInv /\ [Next]_vars => RetryInv'
  BY OrderlyStep, FailuresOverStep, PolicyStep DEF RetryInv
<1>3. RetryInv => RetriesBounded
  BY DEF RetryInv, PolicyKept, Policy, TierBound, FailedAt, RetriesBounded
<1> QED
  BY <1>1, <1>2, <1>3, PTL DEF Spec

=============================================================================
