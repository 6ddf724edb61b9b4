--------------------------- MODULE Scheduler_proofs ---------------------------
(***************************************************************************)
(* Scheduler: types, the registers of its actors, dependencies and the     *)
(* concurrency limit; then the write-set locks: what is worked on holds    *)
(* its locks, no lock is orphaned, the lock table implements LockTable,    *)
(* and the engine starts on a clean database.                              *)
(***************************************************************************)
EXTENDS SchedulerInv, TLAPS, FiniteSetTheorems

(***************************************************************************)
(* A status write that goes through the table leaves a status table.       *)
(***************************************************************************)
LEMMA UpdateTyped ==
  ASSUME NEW s \in [Tasks -> TaskStatus], NEW t, NEW to \in TaskStatus
  PROVE  UpdateTaskStatus(s, t, to) \in [Tasks -> TaskStatus]
BY DEF UpdateTaskStatus

(***************************************************************************)
(* Every step of every actor keeps the tables and the workers' registers   *)
(* well formed.                                                            *)
(***************************************************************************)
LEMMA TypeStep == TypeOK /\ [Next]_vars => TypeOK'
<1> SUFFICES ASSUME TypeOK, [Next]_vars PROVE TypeOK'
  OBVIOUS
<1> USE SchedulerAssumption DEF TypeOK, TaskStatus, AttemptState, SchedulerPC,
      HoldingPC, ReleasedPC, Goals
<1>1. ASSUME NEW t \in Tasks, AddTaskTargetFile(t) PROVE TypeOK'
  BY <1>1 DEF AddTaskTargetFile, tables, sched, work, process
<1>2. ASSUME TickRun PROVE TypeOK'
  <2>1. Cardinality({t \in Tasks : status[t] = "in_progress"}) \in Nat
    BY FS_Subset, FS_CardinalityType
  <2> QED
    BY <1>2, <2>1 DEF TickRun, tables, sched, work, process
<1>3. ASSUME FindReadyTasks PROVE TypeOK'
  BY <1>3 DEF FindReadyTasks, tables, sched, work, process
<1>4. ASSUME NEW t \in Tasks, TryDispatch(t) PROVE TypeOK'
  <2>1. RowKeys(t) \in SUBSET Keys
    BY DEF RowKeys
  <2> QED
    BY <1>4, <2>1 DEF TryDispatch, tables, sched, work, process
<1>5. ASSUME EndTick PROVE TypeOK'
  BY <1>5 DEF EndTick, tables, sched, work, process
<1>6. ASSUME TryAcquireLocks PROVE TypeOK'
  BY <1>6 DEF TryAcquireLocks, tables, sched, work, process, Claim
<1>7. ASSUME MoveToWaitingOnLock PROVE TypeOK'
  <2>1. status' \in [Tasks -> TaskStatus]
    BY <1>7, UpdateTyped DEF MoveToWaitingOnLock
  <2> QED
    BY <1>7, <2>1 DEF MoveToWaitingOnLock, NextTask, work, process
<1>8. ASSUME AddLockWait PROVE TypeOK'
  BY <1>8 DEF AddLockWait, tables, sched, work, process, NextTask
<1>9. ASSUME Dispatch PROVE TypeOK'
  BY <1>9, UpdateTyped DEF Dispatch, tables, sched, work, process
<1>10. ASSUME DispatchFails PROVE TypeOK'
  BY <1>10 DEF DispatchFails, tables, sched, work, process
<1>11. ASSUME CreateAttempt PROVE TypeOK'
  <2>1. wlatest' \in [W -> BOOLEAN]
    BY <1>11 DEF CreateAttempt
  <2>2. attempt' \in [Tasks -> AttemptState]
    BY <1>11 DEF CreateAttempt
  <2>3. slots' \in Int /\ tries' \in Nat
    BY <1>11 DEF CreateAttempt
  <2>4. /\ spc' \in SchedulerPC /\ stask' \in Tasks \cup {NoTask}
        /\ skeys' \in SUBSET Keys
    BY <1>11 DEF CreateAttempt, NextTask
  <2> QED
    BY <1>11, <2>1, <2>2, <2>3, <2>4, Zenon DEF CreateAttempt
<1>12. ASSUME UndoDispatch PROVE TypeOK'
  BY <1>12 DEF UndoDispatch, tables, sched, work, process, NextTask, Without
<1>13. ASSUME NEW w \in W, NEW t \in Tasks, StartAttempt(w, t) PROVE TypeOK'
  BY <1>13 DEF StartAttempt, tables, sched, work, process, Goto
<1>14. ASSUME NEW w \in W, FinishExecution(w) PROVE TypeOK'
  BY <1>14 DEF FinishExecution, tables, sched, work, process, Goto, SetAttempt
<1>15. ASSUME NEW w \in W, GiveUp(w) PROVE TypeOK'
  BY <1>15 DEF GiveUp, tables, sched, work, process, Goto
<1>16. ASSUME NEW w \in W, NEW F \in Expansions, RequestScopeExpansion(w, F) PROVE TypeOK'
  <2> DEFINE ks == {ExpansionKey[f] : f \in F}
  <2>1. ks \subseteq Keys /\ F \in SUBSET Files
    OBVIOUS
  <2>2. Claim(wtask[w], ks) \in [Keys -> Tasks \cup {NoTask}]
    BY DEF Claim
  <2>3. lock' = lock \/ lock' = Claim(wtask[w], ks)
    BY <1>16 DEF RequestScopeExpansion
  <2>4. wfiles' = wfiles \/ wfiles' = [wfiles EXCEPT ![w] = F]
    BY <1>16 DEF RequestScopeExpansion
  <2>5. Goto(w, "closing") \/ Goto(w, "xadd") \/ Goto(w, "xpark")
    BY <1>16 DEF RequestScopeExpansion
  <2>6. wpc' \in [W -> {"idle"} \cup HoldingPC \cup ReleasedPC]
    BY <2>5 DEF Goto
  <2>7. lock' \in [Keys -> Tasks \cup {NoTask}]
    BY <2>2, <2>3
  <2>8. wfiles' \in [W -> SUBSET Files]
    BY <2>1, <2>4
  <2> QED
    BY <1>16, <2>6, <2>7, <2>8 DEF RequestScopeExpansion, sched, process
<1>17. ASSUME NEW w \in W, AddExpandedTarget(w) PROVE TypeOK'
  <2>1. CASE wfiles[w] = {}
    BY <1>17, <2>1 DEF AddExpandedTarget, Goto, sched, process
  <2>2. CASE wfiles[w] # {}
    <3>1. PICK f \in wfiles[w] :
            \/ /\ Goto(w, "closing")
               /\ wfiles' = [wfiles EXCEPT ![w] = {}]
               /\ target' = target
            \/ /\ target' = [target EXCEPT ![wtask[w]] = @ \cup {<<f, ExpansionKey[f]>>}]
               /\ wfiles' = [wfiles EXCEPT ![w] = @ \ {f}]
               /\ wpc' = wpc
      BY <1>17, <2>2 DEF AddExpandedTarget
    <3>2. {<<f, ExpansionKey[f]>>} \in SUBSET (Files \X Keys)
      BY <3>1
    <3>3. target' \in [Tasks -> SUBSET (Files \X Keys)]
      <4>1. CASE target' = target
        BY <4>1
      <4>2. CASE target' = [target EXCEPT ![wtask[w]] = @ \cup {<<f, ExpansionKey[f]>>}]
        BY <3>2, <4>2
      <4> QED
        BY <3>1, <4>1, <4>2
    <3>4. wfiles' \in [W -> SUBSET Files]
      <4>1. CASE wfiles' = [wfiles EXCEPT ![w] = {}]
        BY <4>1
      <4>2. CASE wfiles' = [wfiles EXCEPT ![w] = @ \ {f}]
        BY <4>2
      <4> QED
        BY <3>1, <4>1, <4>2
    <3>5. wpc' \in [W -> {"idle"} \cup HoldingPC \cup ReleasedPC]
      BY <3>1 DEF Goto
    <3> QED
      BY <1>17, <3>3, <3>4, <3>5 DEF AddExpandedTarget, sched, process
  <2> QED
    BY <2>1, <2>2
<1>18. ASSUME NEW w \in W, ParkForExpansion(w) PROVE TypeOK'
  <2>1. status' \in [Tasks -> TaskStatus]
    BY <1>18, UpdateTyped DEF ParkForExpansion
  <2> QED
    BY <1>18, <2>1 DEF ParkForExpansion, Goto, sched, process
<1>19. ASSUME NEW w \in W, AddExpansionWait(w) PROVE TypeOK'
  <2>1. {ExpansionKey[f] : f \in wfiles[w]} \in SUBSET Keys
    OBVIOUS
  <2>2. wait' \in [Tasks -> SUBSET Keys]
    BY <1>19, <2>1 DEF AddExpansionWait
  <2>3. Goto(w, "xreload") \/ Goto(w, "closing")
    BY <1>19 DEF AddExpansionWait
  <2>4. wpc' \in [W -> {"idle"} \cup HoldingPC \cup ReleasedPC]
    BY <2>3 DEF Goto
  <2> QED
    BY <1>19, <2>2, <2>4 DEF AddExpansionWait, sched, process
<1>20. ASSUME NEW w \in W, ReloadAfterExpansion(w) PROVE TypeOK'
  <2>1. Goto(w, "release") \/ Goto(w, "run")
    BY <1>20 DEF ReloadAfterExpansion
  <2>2. wpc' \in [W -> {"idle"} \cup HoldingPC \cup ReleasedPC]
    BY <2>1 DEF Goto
  <2>3. goal' \in [W -> Goals]
    BY <1>20 DEF ReloadAfterExpansion
  <2> QED
    BY <1>20, <2>2, <2>3 DEF ReloadAfterExpansion, tables, sched, process
<1>21. ASSUME NEW w \in W, CloseAttempt(w) PROVE TypeOK'
  BY <1>21 DEF CloseAttempt, tables, sched, work, process, Goto, SetAttempt
<1>22. ASSUME NEW w \in W, FailTask(w) PROVE TypeOK'
  BY <1>22 DEF FailTask, tables, sched, work, process, Goto
<1>23. ASSUME NEW w \in W, MergeCommitted(w) PROVE TypeOK'
  BY <1>23 DEF MergeCommitted, tables, sched, work, process, Goto
<1>24. ASSUME NEW w \in W, MergeFailed(w) PROVE TypeOK'
  BY <1>24 DEF MergeFailed, tables, sched, work, process, Goto, SetAttempt
<1>25. ASSUME NEW w \in W, ReleaseTaskLocks(w) PROVE TypeOK'
  BY <1>25 DEF ReleaseTaskLocks, tables, sched, work, process, Goto, Without
<1>26. ASSUME NEW w \in W, ScanWaiters(w) PROVE TypeOK'
  BY <1>26 DEF ScanWaiters, tables, sched, work, process, Goto
<1>27. ASSUME NEW w \in W, CheckWaiter(w) PROVE TypeOK'
  <2>1. CASE todo[w] = {}
    BY <1>27, <2>1 DEF CheckWaiter, Goto, tables, sched, process
  <2>2. CASE todo[w] # {}
    <3>1. PICK p \in todo[w] :
            /\ todo' = [todo EXCEPT ![w] = @ \ {p}]
            /\ \/ Goto(w, "requeue") /\ cur' = [cur EXCEPT ![w] = p[1]]
               \/ UNCHANGED <<wpc, cur>>
      BY <1>27, <2>2 DEF CheckWaiter
    <3>2. p[1] \in Tasks
      BY <3>1
    <3>3. todo' \in [W -> SUBSET (Tasks \X SUBSET Keys)]
      BY <3>1
    <3> QED
      BY <1>27, <3>1, <3>2, <3>3 DEF CheckWaiter, Goto, tables, sched, process
  <2> QED
    BY <2>1, <2>2
<1>28. ASSUME NEW w \in W, RequeueWaiter(w) PROVE TypeOK'
  <2>1. status' \in [Tasks -> TaskStatus]
    BY <1>28, UpdateTyped DEF RequeueWaiter
  <2> QED
    BY <1>28, <2>1 DEF RequeueWaiter, Goto, sched, process
<1>29. ASSUME NEW w \in W, RemoveLockWait(w) PROVE TypeOK'
  BY <1>29 DEF RemoveLockWait, tables, sched, work, process, Goto
<1>30. ASSUME NEW w \in W, LeaveWaiting(w) PROVE TypeOK'
  BY <1>30 DEF LeaveWaiting, tables, sched, work, process, Leave, Goto
<1>31. ASSUME NEW w \in W, HandleTaskFailure(w) PROVE TypeOK'
  <2>1. status' \in [Tasks -> TaskStatus]
    BY <1>31, UpdateTyped DEF HandleTaskFailure
  <2> QED
    BY <1>31, <2>1 DEF HandleTaskFailure, Leave, Goto, sched, process
<1>32. ASSUME NEW w \in W, CompleteTask(w) PROVE TypeOK'
  BY <1>32, UpdateTyped DEF CompleteTask, tables, sched, work, process, Goto
<1>33. ASSUME NEW w \in W, MarkSucceeded(w) PROVE TypeOK'
  BY <1>33 DEF MarkSucceeded, tables, sched, work, process, Leave, Goto, SetAttempt
<1>34. ASSUME NEW w \in W, FailMergedTask(w) PROVE TypeOK'
  BY <1>34 DEF FailMergedTask, tables, sched, work, process, Goto
<1>35. ASSUME NEW w \in W, RequeueTask(w) PROVE TypeOK'
  BY <1>35, UpdateTyped DEF RequeueTask, tables, sched, work, process, Leave, Goto
<1>36. ASSUME Crash PROVE TypeOK'
  BY <1>36 DEF Crash, tables, sched, work, process
<1>37. ASSUME StartRecovery PROVE TypeOK'
  BY <1>37 DEF StartRecovery, tables, sched, work, process
<1>38. ASSUME NEW t \in Tasks, CloseStaleAttempt(t) PROVE TypeOK'
  BY <1>38 DEF CloseStaleAttempt, tables, sched, work, process
<1>39. ASSUME RequeueStaleTask PROVE TypeOK'
  BY <1>39 DEF RequeueStaleTask, tables, sched, work, process
<1>40. ASSUME ReleaseAllLocks PROVE TypeOK'
  BY <1>40 DEF ReleaseAllLocks, tables, sched, work, process
<1>41. ASSUME NEW t \in Tasks, RebuildLockWait(t) PROVE TypeOK'
  BY <1>41, UpdateTyped DEF RebuildLockWait, tables, sched, work, process
<1>42. ASSUME RemoveRebuiltWait PROVE TypeOK'
  BY <1>42 DEF RemoveRebuiltWait, tables, sched, work, process
<1>43. ASSUME FinishRecovery PROVE TypeOK'
  BY <1>43 DEF FinishRecovery, tables, sched, work, process
<1>44. ASSUME UNCHANGED vars PROVE TypeOK'
  BY <1>44 DEF vars, tables, sched, work, process
<1> QED
  BY <1>1, <1>2, <1>3, <1>4, <1>5, <1>6, <1>7, <1>8, <1>9, <1>10, <1>11, <1>12, <1>13,
     <1>14, <1>15, <1>16, <1>17, <1>18, <1>19, <1>20, <1>21, <1>22, <1>23, <1>24, <1>25,
     <1>26, <1>27, <1>28, <1>29, <1>30, <1>31, <1>32, <1>33, <1>34, <1>35, <1>36, <1>37,
     <1>38, <1>39, <1>40, <1>41, <1>42, <1>43, <1>44
  DEF Next, SchedulerStep, GoroutineStep, ExpansionStep, AttemptStep, ReleaseStep,
      SettleStep, RecoveryStep

(***************************************************************************)
(* The tables of the database and the registers of the workers always hold *)
(* values of their types, for any tasks, files, keys and goroutines.       *)
(***************************************************************************)
THEOREM TypeCorrect == Spec => []TypeOK
<1>1. Init => TypeOK
  BY SchedulerAssumption DEF Init, TypeOK, TaskStatus, AttemptState, SchedulerPC,
     HoldingPC, ReleasedPC, Goals
<1> QED
  BY <1>1, TypeStep, PTL DEF Spec

-----------------------------------------------------------------------------
(***************************************************************************)
(* Registers name a task exactly while they are in use, and nobody runs    *)
(* but the recovery while the process is not up.                           *)
(***************************************************************************)
LEMMA BookStep == TypeOK /\ Bookkeeping /\ [Next]_vars => Bookkeeping'
<1> SUFFICES ASSUME TypeOK, Bookkeeping, [Next]_vars PROVE Bookkeeping'
  OBVIOUS
<1> USE SchedulerAssumption DEF TypeOK, Bookkeeping, OnTask
<1>1. ASSUME NEW t \in Tasks, AddTaskTargetFile(t) PROVE Bookkeeping'
  BY <1>1 DEF AddTaskTargetFile, sched, work, process
<1>2. ASSUME TickRun PROVE Bookkeeping'
  BY <1>2 DEF TickRun, tables, work, process
<1>3. ASSUME FindReadyTasks PROVE Bookkeeping'
  BY <1>3 DEF FindReadyTasks, tables, work, process
<1>4. ASSUME NEW t \in Tasks, TryDispatch(t) PROVE Bookkeeping'
  BY <1>4 DEF TryDispatch, tables, work, process
<1>5. ASSUME EndTick PROVE Bookkeeping'
  BY <1>5 DEF EndTick, tables, work, process
<1>6. ASSUME TryAcquireLocks PROVE Bookkeeping'
  BY <1>6 DEF TryAcquireLocks, work, process
<1>7. ASSUME MoveToWaitingOnLock PROVE Bookkeeping'
  BY <1>7 DEF MoveToWaitingOnLock, NextTask, work, process
<1>8. ASSUME AddLockWait PROVE Bookkeeping'
  BY <1>8 DEF AddLockWait, NextTask, work, process
<1>9. ASSUME Dispatch PROVE Bookkeeping'
  BY <1>9 DEF Dispatch, work, process
<1>10. ASSUME DispatchFails PROVE Bookkeeping'
  BY <1>10 DEF DispatchFails, tables, work, process
<1>11. ASSUME CreateAttempt PROVE Bookkeeping'
  BY <1>11 DEF CreateAttempt, NextTask
<1>12. ASSUME UndoDispatch PROVE Bookkeeping'
  BY <1>12 DEF UndoDispatch, NextTask, work, process
<1>13. ASSUME NEW w \in W, NEW t \in Tasks, StartAttempt(w, t) PROVE Bookkeeping'
  BY <1>13 DEF StartAttempt, Goto, sched, process
<1>14. ASSUME NEW w \in W, FinishExecution(w) PROVE Bookkeeping'
  BY <1>14 DEF FinishExecution, Goto, SetAttempt, sched, process
<1>15. ASSUME NEW w \in W, GiveUp(w) PROVE Bookkeeping'
  BY <1>15 DEF GiveUp, Goto, tables, sched, process
<1>16. ASSUME NEW w \in W, NEW F \in Expansions, RequestScopeExpansion(w, F) PROVE Bookkeeping'
  BY <1>16 DEF RequestScopeExpansion, Goto, sched, process
<1>17. ASSUME NEW w \in W, AddExpandedTarget(w) PROVE Bookkeeping'
  <2>1. wpc' = wpc \/ Goto(w, "run") \/ Goto(w, "closing")
    BY <1>17 DEF AddExpandedTarget
  <2>2. wpc[w] # "idle"
    BY <1>17 DEF AddExpandedTarget
  <2> QED
    BY <1>17, <2>1, <2>2 DEF AddExpandedTarget, Goto, sched, process
<1>18. ASSUME NEW w \in W, ParkForExpansion(w) PROVE Bookkeeping'
  BY <1>18 DEF ParkForExpansion, Goto, sched, process
<1>19. ASSUME NEW w \in W, AddExpansionWait(w) PROVE Bookkeeping'
  BY <1>19 DEF AddExpansionWait, Goto, sched, process
<1>20. ASSUME NEW w \in W, ReloadAfterExpansion(w) PROVE Bookkeeping'
  BY <1>20 DEF ReloadAfterExpansion, Goto, tables, sched, process
<1>21. ASSUME NEW w \in W, CloseAttempt(w) PROVE Bookkeeping'
  BY <1>21 DEF CloseAttempt, Goto, SetAttempt, sched, process
<1>22. ASSUME NEW w \in W, FailTask(w) PROVE Bookkeeping'
  BY <1>22 DEF FailTask, Goto, sched, process
<1>23. ASSUME NEW w \in W, MergeCommitted(w) PROVE Bookkeeping'
  BY <1>23 DEF MergeCommitted, Goto, tables, sched, process
<1>24. ASSUME NEW w \in W, MergeFailed(w) PROVE Bookkeeping'
  BY <1>24 DEF MergeFailed, Goto, SetAttempt, sched, process
<1>25. ASSUME NEW w \in W, ReleaseTaskLocks(w) PROVE Bookkeeping'
  BY <1>25 DEF ReleaseTaskLocks, Goto, sched, process
<1>26. ASSUME NEW w \in W, ScanWaiters(w) PROVE Bookkeeping'
  BY <1>26 DEF ScanWaiters, Goto, tables, sched, process
<1>27. ASSUME NEW w \in W, CheckWaiter(w) PROVE Bookkeeping'
  BY <1>27 DEF CheckWaiter, Goto, tables, sched, process
<1>28. ASSUME NEW w \in W, RequeueWaiter(w) PROVE Bookkeeping'
  BY <1>28 DEF RequeueWaiter, Goto, sched, process
<1>29. ASSUME NEW w \in W, RemoveLockWait(w) PROVE Bookkeeping'
  BY <1>29 DEF RemoveLockWait, Goto, sched, process
<1>30. ASSUME NEW w \in W, LeaveWaiting(w) PROVE Bookkeeping'
  BY <1>30 DEF LeaveWaiting, Leave, tables, sched, process, Goto
<1>31. ASSUME NEW w \in W, HandleTaskFailure(w) PROVE Bookkeeping'
  BY <1>31 DEF HandleTaskFailure, Leave, sched, process, Goto
<1>32. ASSUME NEW w \in W, CompleteTask(w) PROVE Bookkeeping'
  BY <1>32 DEF CompleteTask, Goto, sched, process
<1>33. ASSUME NEW w \in W, MarkSucceeded(w) PROVE Bookkeeping'
  BY <1>33 DEF MarkSucceeded, SetAttempt, Leave, sched, process, Goto
<1>34. ASSUME NEW w \in W, FailMergedTask(w) PROVE Bookkeeping'
  BY <1>34 DEF FailMergedTask, Goto, sched, process
<1>35. ASSUME NEW w \in W, RequeueTask(w) PROVE Bookkeeping'
  BY <1>35 DEF RequeueTask, Leave, sched, process, Goto
<1>36. ASSUME Crash PROVE Bookkeeping'
  BY <1>36 DEF Crash
<1>37. ASSUME StartRecovery PROVE Bookkeeping'
  BY <1>37 DEF StartRecovery, tables, sched, work
<1>38. ASSUME NEW t \in Tasks, CloseStaleAttempt(t) PROVE Bookkeeping'
  BY <1>38 DEF CloseStaleAttempt, sched, work
<1>39. ASSUME RequeueStaleTask PROVE Bookkeeping'
  BY <1>39 DEF RequeueStaleTask, sched, work
<1>40. ASSUME ReleaseAllLocks PROVE Bookkeeping'
  BY <1>40 DEF ReleaseAllLocks, sched, work
<1>41. ASSUME NEW t \in Tasks, RebuildLockWait(t) PROVE Bookkeeping'
  BY <1>41 DEF RebuildLockWait, sched, work
<1>42. ASSUME RemoveRebuiltWait PROVE Bookkeeping'
  BY <1>42 DEF RemoveRebuiltWait, sched, work
<1>43. ASSUME FinishRecovery PROVE Bookkeeping'
  BY <1>43 DEF FinishRecovery, tables, sched, work
<1>44. ASSUME UNCHANGED vars PROVE Bookkeeping'
  BY <1>44 DEF vars, tables, sched, work, process
<1> QED
  BY <1>1, <1>2, <1>3, <1>4, <1>5, <1>6, <1>7, <1>8, <1>9, <1>10, <1>11,
     <1>12, <1>13, <1>14, <1>15, <1>16, <1>17, <1>18, <1>19, <1>20, <1>21, <1>22,
     <1>23, <1>24, <1>25, <1>26, <1>27, <1>28, <1>29, <1>30, <1>31, <1>32, <1>33,
     <1>34, <1>35, <1>36, <1>37, <1>38, <1>39, <1>40, <1>41, <1>42, <1>43, <1>44
  DEF Next, SchedulerStep, GoroutineStep, ExpansionStep, AttemptStep, ReleaseStep,
      SettleStep, RecoveryStep

(***************************************************************************)
(* The scheduler and the goroutines hold a task exactly while they work on *)
(* it, and none of them runs while the process is down or recovering.      *)
(***************************************************************************)
THEOREM RegistersCorrect == Spec => []Bookkeeping
<1>1. Init => Bookkeeping
  BY SchedulerAssumption DEF Init, Bookkeeping, OnTask
<1> QED
  BY <1>1, BookStep, TypeCorrect, PTL DEF Spec

-----------------------------------------------------------------------------
(***************************************************************************)
(* A checked status write changes one task, never one that is done.        *)
(***************************************************************************)
LEMMA UpdateEffect ==
  ASSUME NEW s \in [Tasks -> TaskStatus], NEW t, NEW to \in TaskStatus,
         NEW u \in Tasks
  PROVE  LET s2 == UpdateTaskStatus(s, t, to)
         IN  s2[u] = s[u] \/ (u = t /\ s2[u] = to /\ s[u] # "done")
BY DEF UpdateTaskStatus, ValidTaskTransition, TaskMoves, TaskStatus

(***************************************************************************)
(* What a step may do to a status: nothing, take the task out of the       *)
(* statuses that need its dependencies, or find them done.                 *)
(***************************************************************************)
StatusStep ==
  \A t \in Tasks :
    \/ status'[t] = status[t]
    \/ /\ status[t] # "done"
       /\ \/ status'[t] \notin {"in_progress", "waiting_on_lock", "done"}
          \/ DepsDone(t)

(***************************************************************************)
(* ... and to the registers that say which tasks were found ready.         *)
(***************************************************************************)
RegisterStep ==
  /\ \A t \in sready' : t \in sready \/ DepsDone(t)
  /\ stask' = stask \/ stask' = NoTask \/ DepsDone(stask')
  /\ \A w \in W : \/ wtask'[w] = wtask[w] \/ wtask'[w] = NoTask
                  \/ DepsDone(wtask'[w])
  /\ mode' = "stale" /\ rtask' # NoTask => status'[rtask'] = "in_progress"

(* A checked write is such a step unless it starts or ends an unready task. *)
LEMMA CheckedWrite ==
  ASSUME TypeOK, NEW t \in Tasks \cup {NoTask}, NEW to \in TaskStatus,
         status' = UpdateTaskStatus(status, t, to),
         to \in {"queued", "failed", "blocked"} \/ (t # NoTask => DepsDone(t))
  PROVE  StatusStep
<1> SUFFICES ASSUME NEW u \in Tasks
             PROVE  \/ status'[u] = status[u]
                    \/ /\ status[u] # "done"
                       /\ \/ status'[u] \notin {"in_progress", "waiting_on_lock", "done"}
                          \/ DepsDone(u)
  BY DEF StatusStep
<1>1. status \in [Tasks -> TaskStatus]
  BY DEF TypeOK
<1>2. status'[u] = status[u] \/ (u = t /\ status'[u] = to /\ status[u] # "done")
  BY <1>1, UpdateEffect
<1> QED
  BY <1>2, SchedulerAssumption

(* Every step of every actor changes statuses and registers in these ways. *)
LEMMA StatusMoves == DepsInv /\ [Next]_vars => StatusStep /\ RegisterStep
<1> SUFFICES ASSUME DepsInv, [Next]_vars PROVE StatusStep /\ RegisterStep
  OBVIOUS
<1> USE SchedulerAssumption DEF DepsInv, TypeOK, Bookkeeping
<1>1. ASSUME NEW t \in Tasks, AddTaskTargetFile(t) PROVE StatusStep /\ RegisterStep
  BY <1>1 DEF AddTaskTargetFile, sched, work, process, StatusStep, RegisterStep
<1>2. ASSUME TickRun PROVE StatusStep /\ RegisterStep
  BY <1>2 DEF TickRun, tables, work, process, StatusStep, RegisterStep
<1>3. ASSUME FindReadyTasks PROVE StatusStep /\ RegisterStep
  BY <1>3 DEF FindReadyTasks, tables, work, process, StatusStep, RegisterStep
<1>4. ASSUME NEW t \in Tasks, TryDispatch(t) PROVE StatusStep /\ RegisterStep
  BY <1>4 DEF TryDispatch, tables, work, process, StatusStep, RegisterStep
<1>5. ASSUME EndTick PROVE StatusStep /\ RegisterStep
  BY <1>5 DEF EndTick, tables, work, process, StatusStep, RegisterStep
<1>6. ASSUME TryAcquireLocks PROVE StatusStep /\ RegisterStep
  BY <1>6 DEF TryAcquireLocks, work, process, StatusStep, RegisterStep
<1>7. ASSUME MoveToWaitingOnLock PROVE StatusStep /\ RegisterStep
  <2>1. StatusStep
    BY <1>7, CheckedWrite DEF MoveToWaitingOnLock, TaskStatus
  <2>2. RegisterStep
    BY <1>7 DEF RegisterStep, MoveToWaitingOnLock, NextTask, work, process
  <2> QED
    BY <2>1, <2>2
<1>8. ASSUME AddLockWait PROVE StatusStep /\ RegisterStep
  BY <1>8 DEF AddLockWait, NextTask, work, process, StatusStep, RegisterStep
<1>9. ASSUME Dispatch PROVE StatusStep /\ RegisterStep
  <2>1. StatusStep
    BY <1>9, CheckedWrite DEF Dispatch, TaskStatus
  <2>2. RegisterStep
    BY <1>9 DEF RegisterStep, Dispatch, work, process
  <2> QED
    BY <2>1, <2>2
<1>10. ASSUME DispatchFails PROVE StatusStep /\ RegisterStep
  BY <1>10 DEF DispatchFails, tables, work, process, StatusStep, RegisterStep
<1>11. ASSUME CreateAttempt PROVE StatusStep /\ RegisterStep
  BY <1>11 DEF CreateAttempt, NextTask, StatusStep, RegisterStep
<1>12. ASSUME UndoDispatch PROVE StatusStep /\ RegisterStep
  BY <1>12 DEF UndoDispatch, NextTask, work, process, StatusStep, RegisterStep
<1>13. ASSUME NEW w \in W, NEW t \in Tasks, StartAttempt(w, t) PROVE StatusStep /\ RegisterStep
  <2>1. DepsDone(t)
    BY <1>13 DEF StartAttempt, DependenciesDone
  <2>2. \A v \in W : wtask'[v] = wtask[v] \/ wtask'[v] = t
    BY <1>13 DEF StartAttempt
  <2>3. RegisterStep
    BY <1>13, <2>1, <2>2 DEF RegisterStep, StartAttempt, sched, process, Goto
  <2> QED
    BY <1>13, <2>3 DEF StatusStep, StartAttempt
<1>14. ASSUME NEW w \in W, FinishExecution(w) PROVE StatusStep /\ RegisterStep
  BY <1>14 DEF FinishExecution, Goto, SetAttempt, sched, process, StatusStep, RegisterStep
<1>15. ASSUME NEW w \in W, GiveUp(w) PROVE StatusStep /\ RegisterStep
  BY <1>15 DEF GiveUp, Goto, tables, sched, process, StatusStep, RegisterStep
<1>16. ASSUME NEW w \in W, NEW F \in Expansions, RequestScopeExpansion(w, F) PROVE StatusStep /\ RegisterStep
  BY <1>16 DEF RequestScopeExpansion, Goto, sched, process, StatusStep, RegisterStep
<1>17. ASSUME NEW w \in W, AddExpandedTarget(w) PROVE StatusStep /\ RegisterStep
  BY <1>17 DEF AddExpandedTarget, Goto, sched, process, StatusStep, RegisterStep
<1>18. ASSUME NEW w \in W, ParkForExpansion(w) PROVE StatusStep /\ RegisterStep
  <2>1. StatusStep
    BY <1>18, CheckedWrite DEF ParkForExpansion, TaskStatus
  <2>2. RegisterStep
    BY <1>18 DEF RegisterStep, ParkForExpansion, Goto, sched, process
  <2> QED
    BY <2>1, <2>2
<1>19. ASSUME NEW w \in W, AddExpansionWait(w) PROVE StatusStep /\ RegisterStep
  BY <1>19 DEF AddExpansionWait, Goto, sched, process, StatusStep, RegisterStep
<1>20. ASSUME NEW w \in W, ReloadAfterExpansion(w) PROVE StatusStep /\ RegisterStep
  BY <1>20 DEF ReloadAfterExpansion, Goto, tables, sched, process, StatusStep, RegisterStep
<1>21. ASSUME NEW w \in W, CloseAttempt(w) PROVE StatusStep /\ RegisterStep
  BY <1>21 DEF CloseAttempt, Goto, SetAttempt, sched, process, StatusStep, RegisterStep
<1>22. ASSUME NEW w \in W, FailTask(w) PROVE StatusStep /\ RegisterStep
  BY <1>22 DEF FailTask, Goto, sched, process, StatusStep, RegisterStep
<1>23. ASSUME NEW w \in W, MergeCommitted(w) PROVE StatusStep /\ RegisterStep
  BY <1>23 DEF MergeCommitted, Goto, tables, sched, process, StatusStep, RegisterStep
<1>24. ASSUME NEW w \in W, MergeFailed(w) PROVE StatusStep /\ RegisterStep
  BY <1>24 DEF MergeFailed, Goto, SetAttempt, sched, process, StatusStep, RegisterStep
<1>25. ASSUME NEW w \in W, ReleaseTaskLocks(w) PROVE StatusStep /\ RegisterStep
  BY <1>25 DEF ReleaseTaskLocks, Goto, sched, process, StatusStep, RegisterStep
<1>26. ASSUME NEW w \in W, ScanWaiters(w) PROVE StatusStep /\ RegisterStep
  BY <1>26 DEF ScanWaiters, Goto, tables, sched, process, StatusStep, RegisterStep
<1>27. ASSUME NEW w \in W, CheckWaiter(w) PROVE StatusStep /\ RegisterStep
  BY <1>27 DEF CheckWaiter, Goto, tables, sched, process, StatusStep, RegisterStep
<1>28. ASSUME NEW w \in W, RequeueWaiter(w) PROVE StatusStep /\ RegisterStep
  <2>1. StatusStep
    BY <1>28, CheckedWrite DEF RequeueWaiter, TaskStatus
  <2>2. RegisterStep
    BY <1>28 DEF RegisterStep, RequeueWaiter, Goto, sched, process
  <2> QED
    BY <2>1, <2>2
<1>29. ASSUME NEW w \in W, RemoveLockWait(w) PROVE StatusStep /\ RegisterStep
  BY <1>29 DEF RemoveLockWait, Goto, sched, process, StatusStep, RegisterStep
<1>30. ASSUME NEW w \in W, LeaveWaiting(w) PROVE StatusStep /\ RegisterStep
  BY <1>30 DEF LeaveWaiting, Leave, tables, sched, process, Goto, StatusStep, RegisterStep
<1>31. ASSUME NEW w \in W, HandleTaskFailure(w) PROVE StatusStep /\ RegisterStep
  <2>1. StatusStep
    <3>1. CASE status[wtask[w]] = "failed"
      BY <1>31, <3>1, CheckedWrite DEF HandleTaskFailure, TaskStatus
    <3>2. CASE status[wtask[w]] # "failed"
      BY <1>31, <3>2 DEF HandleTaskFailure, StatusStep
    <3> QED
      BY <3>1, <3>2
  <2>2. RegisterStep
    BY <1>31 DEF RegisterStep, HandleTaskFailure, Leave, Goto, sched, process
  <2> QED
    BY <2>1, <2>2
<1>32. ASSUME NEW w \in W, CompleteTask(w) PROVE StatusStep /\ RegisterStep
  <2>1. StatusStep
    BY <1>32, CheckedWrite DEF CompleteTask, TaskStatus
  <2>2. RegisterStep
    BY <1>32 DEF RegisterStep, CompleteTask, Goto, sched, process
  <2> QED
    BY <2>1, <2>2
<1>33. ASSUME NEW w \in W, MarkSucceeded(w) PROVE StatusStep /\ RegisterStep
  BY <1>33 DEF MarkSucceeded, SetAttempt, Leave, sched, process, Goto, StatusStep, RegisterStep
<1>34. ASSUME NEW w \in W, FailMergedTask(w) PROVE StatusStep /\ RegisterStep
  BY <1>34 DEF FailMergedTask, Goto, sched, process, StatusStep, RegisterStep
<1>35. ASSUME NEW w \in W, RequeueTask(w) PROVE StatusStep /\ RegisterStep
  <2>1. StatusStep
    BY <1>35, CheckedWrite DEF RequeueTask, TaskStatus
  <2>2. RegisterStep
    BY <1>35 DEF RegisterStep, RequeueTask, Leave, Goto, sched, process
  <2> QED
    BY <2>1, <2>2
<1>36. ASSUME Crash PROVE StatusStep /\ RegisterStep
  BY <1>36 DEF Crash, StatusStep, RegisterStep
<1>37. ASSUME StartRecovery PROVE StatusStep /\ RegisterStep
  BY <1>37 DEF StartRecovery, tables, sched, work, StatusStep, RegisterStep
<1>38. ASSUME NEW t \in Tasks, CloseStaleAttempt(t) PROVE StatusStep /\ RegisterStep
  BY <1>38 DEF CloseStaleAttempt, sched, work, StatusStep, RegisterStep
<1>39. ASSUME RequeueStaleTask PROVE StatusStep /\ RegisterStep
  BY <1>39 DEF RequeueStaleTask, sched, work, StatusStep, RegisterStep
<1>40. ASSUME ReleaseAllLocks PROVE StatusStep /\ RegisterStep
  BY <1>40 DEF ReleaseAllLocks, sched, work, StatusStep, RegisterStep
<1>41. ASSUME NEW t \in Tasks, RebuildLockWait(t) PROVE StatusStep /\ RegisterStep
  <2>1. StatusStep
    BY <1>41, CheckedWrite DEF RebuildLockWait, TaskStatus
  <2>2. RegisterStep
    BY <1>41 DEF RegisterStep, RebuildLockWait, sched, work
  <2> QED
    BY <2>1, <2>2
<1>42. ASSUME RemoveRebuiltWait PROVE StatusStep /\ RegisterStep
  BY <1>42 DEF RemoveRebuiltWait, sched, work, StatusStep, RegisterStep
<1>43. ASSUME FinishRecovery PROVE StatusStep /\ RegisterStep
  BY <1>43 DEF FinishRecovery, tables, sched, work, StatusStep, RegisterStep
<1>44. ASSUME UNCHANGED vars PROVE StatusStep /\ RegisterStep
  BY <1>44 DEF vars, tables, sched, work, process, StatusStep, RegisterStep
<1> QED
  BY <1>1, <1>2, <1>3, <1>4, <1>5, <1>6, <1>7, <1>8, <1>9, <1>10, <1>11,
     <1>12, <1>13, <1>14, <1>15, <1>16, <1>17, <1>18, <1>19, <1>20, <1>21, <1>22,
     <1>23, <1>24, <1>25, <1>26, <1>27, <1>28, <1>29, <1>30, <1>31, <1>32, <1>33,
     <1>34, <1>35, <1>36, <1>37, <1>38, <1>39, <1>40, <1>41, <1>42, <1>43, <1>44
  DEF Next, SchedulerStep, GoroutineStep, ExpansionStep, AttemptStep, ReleaseStep,
      SettleStep, RecoveryStep

(* So no step makes a task run ahead of its dependencies. *)
LEMMA DepsStep == DepsInv /\ [Next]_vars => DepsInv'
<1> SUFFICES ASSUME DepsInv, [Next]_vars PROVE DepsInv'
  OBVIOUS
<1>1. TypeOK' /\ Bookkeeping'
  BY TypeStep, BookStep DEF DepsInv
<1>2. StatusStep /\ RegisterStep
  BY StatusMoves
<1>3. ASSUME NEW t \in Tasks, DepsDone(t) PROVE DepsDone(t)'
  <2>1. DependsOn[t] \subseteq Tasks
    BY SchedulerAssumption
  <2> QED
    BY <1>2, <1>3, <2>1 DEF StatusStep, DepsDone
<1>4. DependenciesDone'
  BY <1>2, <1>3 DEF DepsInv, DependenciesDone, StatusStep
<1>5. \A t \in sready' : DepsDone(t)'
  BY <1>1, <1>2, <1>3 DEF DepsInv, RegisterStep, TypeOK
<1>6. stask' # NoTask => DepsDone(stask)'
  BY <1>1, <1>2, <1>3 DEF DepsInv, RegisterStep, TypeOK, DepsDone
<1>7. \A w \in W : wtask'[w] # NoTask => DepsDone(wtask[w])'
  BY <1>1, <1>2, <1>3 DEF DepsInv, RegisterStep, TypeOK, DepsDone
<1> QED
  BY <1>1, <1>2, <1>4, <1>5, <1>6, <1>7 DEF DepsInv, RegisterStep

(***************************************************************************)
(* No task is dispatched, waits or is done before all its dependencies are *)
(* done, whatever retries, wakers, merges and restarts do.                 *)
(***************************************************************************)
THEOREM DependenciesCorrect == Spec => []DependenciesDone
<1>1. Init => DepsInv
  <2> SUFFICES ASSUME Init PROVE DepsInv
    OBVIOUS
  <2>1. TypeOK
    BY SchedulerAssumption DEF Init, TypeOK, TaskStatus, AttemptState, SchedulerPC,
       HoldingPC, ReleasedPC, Goals
  <2>2. Bookkeeping
    BY SchedulerAssumption DEF Init, Bookkeeping, OnTask
  <2> QED
    BY <2>1, <2>2 DEF Init, DepsInv, DependenciesDone
<1>2. DepsInv => DependenciesDone
  BY DEF DepsInv
<1> QED
  BY <1>1, <1>2, DepsStep, PTL DEF Spec

-----------------------------------------------------------------------------
(* The tasks in progress can be counted, and fewer of them count for less. *)
LEMMA RunningCounted ==
  /\ IsFiniteSet(Running) /\ Cardinality(Running) \in Nat
  /\ \A S \in SUBSET Running : IsFiniteSet(S) /\ Cardinality(S) \in Nat
                                 /\ Cardinality(S) <= Cardinality(Running)
<1>1. IsFiniteSet(Running)
  BY SchedulerAssumption, FS_Subset DEF Running
<1> QED
  BY <1>1, FS_Subset, FS_CardinalityType

(* A step that puts no task in progress and leaves the slots alone. *)
Fewer == Running' \subseteq Running /\ UNCHANGED <<spc, slots>>

LEMMA FewerCounted == ASSUME LimitInv, SlotsCounted, Fewer PROVE SlotsCounted'
<1>1. /\ Cardinality(Running') <= Cardinality(Running)
      /\ Cardinality(Running') \in Nat /\ Cardinality(Running) \in Nat
  BY RunningCounted DEF Fewer
<1> QED
  BY <1>1, SchedulerAssumption DEF Fewer, SlotsCounted, LimitInv, TypeOK, OnTask

(* Only a move to in_progress puts a task in progress. *)
LEMMA WriteFewer ==
  ASSUME TypeOK, NEW t, NEW to \in TaskStatus \ {"in_progress"},
         \/ status' = UpdateTaskStatus(status, t, to)
         \/ status' = [status EXCEPT ![t] = to]
         \/ status' = status
  PROVE  Running' \subseteq Running
BY DEF TypeOK, UpdateTaskStatus, Running

(* Any other write of a status leaves no more tasks in progress. *)
LEMMA WriteIsFewer ==
  ASSUME TypeOK, NEW t, NEW to \in {"queued", "failed", "blocked", "waiting_on_lock", "done"},
         \/ status' = UpdateTaskStatus(status, t, to)
         \/ status' = [status EXCEPT ![t] = to]
         \/ status' = status,
         UNCHANGED sched
  PROVE  Fewer
BY WriteFewer DEF TaskStatus, Fewer, sched

(* Dispatch puts one in progress, the scheduler's own. *)
LEMMA OneMore ==
  ASSUME TypeOK, stask \in Tasks, status' = UpdateTaskStatus(status, stask, "in_progress")
  PROVE  /\ Cardinality(Running') \in Nat /\ Cardinality(Running) \in Nat
         /\ Cardinality(Running') <= Cardinality(Running) + 1
         /\ ~ValidTaskTransition(status[stask], "in_progress") => Running' = Running
<1>1. Running' \subseteq Running \cup {stask}
  BY DEF TypeOK, UpdateTaskStatus, Running
<1>2. /\ IsFiniteSet(Running \cup {stask})
      /\ Cardinality(Running \cup {stask}) \in Nat /\ Cardinality(Running) \in Nat
      /\ Cardinality(Running \cup {stask}) <= Cardinality(Running) + 1
  BY RunningCounted, FS_AddElement, FS_CardinalityType
<1>3. ~ValidTaskTransition(status[stask], "in_progress") => Running' = Running
  BY DEF UpdateTaskStatus, Running
<1> QED
  BY <1>1, <1>2, <1>3, FS_Subset, FS_CardinalityType

(***************************************************************************)
(* The count of the tick stays right under every step of every actor.      *)
(***************************************************************************)
LEMMA SlotsStep ==
  ASSUME LimitInv, SlotsCounted, ~Faults, [Next]_vars PROVE SlotsCounted'
<1> USE SchedulerAssumption DEF LimitInv
<1>0. /\ Cardinality(Running) \in Nat /\ slots \in Int /\ MaxMeeseeks \in Nat
      /\ Cardinality(Running) + slots
           <= MaxMeeseeks + (IF spc = "create" THEN 1 ELSE 0)
  BY RunningCounted DEF TypeOK, SlotsCounted
<1>1. CASE TickRun
  <2>1. Running' = Running /\ Cardinality(Running) < MaxMeeseeks
          /\ slots' = MaxMeeseeks - Cardinality(Running) /\ spc' = "find"
    BY <1>1 DEF TickRun, tables, Running
  <2> QED
    BY <1>0, <2>1 DEF SlotsCounted, OnTask
<1>2. CASE FindReadyTasks \/ AddLockWait \/ UndoDispatch
  BY <1>0, <1>2 DEF FindReadyTasks, AddLockWait, UndoDispatch, NextTask, tables,
     SlotsCounted, Running, OnTask
<1>3. ASSUME NEW t \in Tasks, TryDispatch(t) PROVE SlotsCounted'
  BY <1>0, <1>3 DEF TryDispatch, tables, SlotsCounted, Running, OnTask
<1>4. CASE EndTick
  BY <1>0, <1>4 DEF EndTick, tables, SlotsCounted, Running, OnTask
<1>5. CASE TryAcquireLocks
  BY <1>0, <1>5 DEF TryAcquireLocks, SlotsCounted, Running, OnTask
<1>6. CASE MoveToWaitingOnLock
  <2>1. Running' \subseteq Running
    BY <1>6, WriteFewer DEF MoveToWaitingOnLock, TaskStatus
  <2>2. Cardinality(Running') \in Nat /\ Cardinality(Running') <= Cardinality(Running)
    BY <2>1, RunningCounted
  <2>3. slots' = slots /\ spc' \in {"row", "loop"} /\ spc = "park"
    BY <1>6 DEF MoveToWaitingOnLock, NextTask
  <2> QED
    BY <1>0, <2>2, <2>3 DEF SlotsCounted, OnTask
<1>7. CASE Dispatch
  <2>1. stask \in Tasks /\ spc = "dispatch" /\ slots' = slots
          /\ spc' = IF ValidTaskTransition(status[stask], "in_progress")
                    THEN "create" ELSE "undo"
    BY <1>7 DEF Dispatch, TypeOK, Bookkeeping, OnTask
  <2>2. /\ Cardinality(Running') \in Nat
        /\ Cardinality(Running') <= Cardinality(Running) + 1
        /\ ~ValidTaskTransition(status[stask], "in_progress") => Running' = Running
    BY <1>7, <2>1, OneMore DEF Dispatch
  <2> QED
    BY <1>0, <2>1, <2>2 DEF SlotsCounted, OnTask
<1>8. CASE DispatchFails
  BY <1>8 DEF DispatchFails
<1>9. CASE CreateAttempt
  BY <1>0, <1>9 DEF CreateAttempt, NextTask, SlotsCounted, Running, OnTask
<1>10. ASSUME NEW w \in W, NEW t \in Tasks, StartAttempt(w, t) PROVE Fewer
  BY <1>10 DEF StartAttempt, sched, Fewer, Running
<1>11. ASSUME NEW t \in Tasks, AddTaskTargetFile(t) PROVE Fewer
  BY <1>11 DEF AddTaskTargetFile, sched, Fewer, Running
<1>12. ASSUME NEW w \in W, ExpansionStep(w) PROVE Fewer
  <2>1. CASE ParkForExpansion(w)
    BY <2>1, WriteIsFewer DEF ParkForExpansion
  <2>2. CASE ~ParkForExpansion(w)
    BY <1>12, <2>2 DEF ExpansionStep, RequestScopeExpansion, AddExpandedTarget,
       AddExpansionWait, ReloadAfterExpansion, tables, sched, Fewer, Running
  <2> QED
    BY <2>1, <2>2
<1>13. ASSUME NEW w \in W, AttemptStep(w) PROVE Fewer
  <2>1. CASE FailTask(w)
    <3>1. status' = [status EXCEPT ![wtask[w]] = "failed"] \/ status' = status
      BY <2>1 DEF FailTask
    <3> QED
      BY <2>1, <3>1, WriteIsFewer DEF FailTask
  <2>2. CASE ~FailTask(w)
    BY <1>13, <2>2 DEF AttemptStep, FinishExecution, GiveUp, CloseAttempt,
       MergeCommitted, MergeFailed, tables, sched, Fewer, Running
  <2> QED
    BY <2>1, <2>2
<1>14. ASSUME NEW w \in W, ReleaseStep(w) PROVE Fewer
  <2>1. CASE RequeueWaiter(w)
    BY <2>1, WriteIsFewer DEF RequeueWaiter
  <2>2. CASE ~RequeueWaiter(w)
    BY <1>14, <2>2 DEF ReleaseStep, ReleaseTaskLocks, ScanWaiters, CheckWaiter,
       RemoveLockWait, tables, sched, Fewer, Running
  <2> QED
    BY <2>1, <2>2
<1>15. ASSUME NEW w \in W, SettleStep(w) PROVE Fewer
  <2>1. CASE HandleTaskFailure(w)
    <3>1. \E to \in {"queued", "blocked"} :
            status' = UpdateTaskStatus(status, wtask[w], to) \/ status' = status
      BY <2>1 DEF HandleTaskFailure
    <3> QED
      BY <2>1, <3>1, WriteIsFewer DEF HandleTaskFailure
  <2>2. CASE CompleteTask(w)
    BY <2>2, WriteIsFewer DEF CompleteTask
  <2>3. CASE FailMergedTask(w)
    BY <2>3, WriteIsFewer DEF FailMergedTask
  <2>4. CASE RequeueTask(w)
    BY <2>4, WriteIsFewer DEF RequeueTask
  <2>5. CASE LeaveWaiting(w) \/ MarkSucceeded(w)
    BY <2>5 DEF LeaveWaiting, MarkSucceeded, tables, sched, Fewer, Running
  <2> QED
    BY <1>15, <2>1, <2>2, <2>3, <2>4, <2>5 DEF SettleStep
<1>16. CASE Crash
  BY <1>0, <1>16 DEF Crash, SlotsCounted, Running, OnTask
<1>17. ASSUME RecoveryStep PROVE Fewer
  <2>1. CASE RequeueStaleTask
    BY <2>1, WriteIsFewer DEF RequeueStaleTask
  <2>2. ASSUME NEW t \in Tasks, RebuildLockWait(t) PROVE Fewer
    BY <2>2, WriteIsFewer DEF RebuildLockWait
  <2>3. ASSUME NEW t \in Tasks, CloseStaleAttempt(t) PROVE Fewer
    BY <2>3 DEF CloseStaleAttempt, sched, Fewer, Running
  <2>4. CASE StartRecovery \/ ReleaseAllLocks \/ RemoveRebuiltWait \/ FinishRecovery
    BY <2>4 DEF StartRecovery, ReleaseAllLocks, RemoveRebuiltWait, FinishRecovery,
       tables, sched, Fewer, Running
  <2> QED
    BY <1>17, <2>1, <2>2, <2>3, <2>4 DEF RecoveryStep
<1>18. ASSUME UNCHANGED vars PROVE Fewer
  BY <1>18 DEF vars, tables, sched, Fewer, Running
<1> QED
  BY <1>1, <1>2, <1>3, <1>4, <1>5, <1>6, <1>7, <1>8, <1>9, <1>10, <1>11, <1>12, <1>13,
     <1>14, <1>15, <1>16, <1>17, <1>18, FewerCounted
  DEF Next, SchedulerStep, GoroutineStep

(***************************************************************************)
(* While no dispatch fails half way, no more than MaxMeeseeks tasks are in *)
(* progress, whatever becomes of them between the count and the dispatches *)
(* it allows, and through crashes and recoveries.                          *)
(***************************************************************************)
THEOREM LimitCorrect == Spec => []ConcurrencyLimit
<1>1. Init => LimitInv
  <2> SUFFICES ASSUME Init PROVE LimitInv
    OBVIOUS
  <2>1. TypeOK
    BY SchedulerAssumption DEF Init, TypeOK, TaskStatus, AttemptState, SchedulerPC,
       HoldingPC, ReleasedPC, Goals
  <2>2. Bookkeeping
    BY SchedulerAssumption DEF Init, Bookkeeping, OnTask
  <2>3. Running = {}
    BY DEF Init, Running
  <2>4. SlotsCounted
    BY <2>3, FS_EmptySet, SchedulerAssumption DEF Init, SlotsCounted, OnTask
  <2> QED
    BY <2>1, <2>2, <2>4 DEF LimitInv
<1>2. LimitInv /\ [Next]_vars => LimitInv'
  BY TypeStep, BookStep, SlotsStep DEF LimitInv
<1>3. LimitInv => ConcurrencyLimit
  <2> SUFFICES ASSUME LimitInv, ~Faults
               PROVE  Cardinality(Running) <= MaxMeeseeks
    BY DEF ConcurrencyLimit, Running
  <2> QED
    BY RunningCounted, SchedulerAssumption DEF LimitInv, SlotsCounted, TypeOK, OnTask
<1> QED
  BY <1>1, <1>2, <1>3, PTL DEF Spec


-----------------------------------------------------------------------------
(***************************************************************************)
(* The write-set locks.                                                    *)
(***************************************************************************)
(* LockInv less what is already known to be invariant. *)
LockParts == /\ SchedulerAlone /\ ReadyFresh /\ FreshHeld
             /\ OneGoroutine /\ GoroutineHeld /\ LocksOwned

(* The moves of the status table into `queued' and into `done'. *)
LEMMA IntoQueue ==
  \A from : <<from, "queued">> \in TaskMoves => from \in {"waiting_on_lock", "failed"}
BY DEF TaskMoves

LEMMA IntoDone == \A from : <<from, "done">> \in TaskMoves => from = "in_progress"
BY DEF TaskMoves

(***************************************************************************)
(* A goroutine that goes from one stage to another on the same side of the *)
(* release, and leaves locks, rows and attempts alone, disturbs nothing,   *)
(* as long as it takes no task out of `queued' and only the task it works  *)
(* on itself out of `in_progress'.                                         *)
(***************************************************************************)
SameHalf(from, to) ==
  \/ from \in HoldingPC /\ to \in HoldingPC \ {"xadd", "xpark"}
  \/ from \in ReleasedPC /\ to \in ReleasedPC

Quiet(w) ==
  /\ \A v \in W \ {w} : wfiles'[v] = wfiles[v]
  /\ \A u \in Tasks : \/ status'[u] = status[u]
                      \/ status[u] \in {"waiting_on_lock", "failed"}
                      \/ status[u] = "in_progress" /\ u = wtask[w]
  /\ UNCHANGED <<target, lock, attempt, sched, wtask, mode, exempt>>

LEMMA QuietMove ==
  ASSUME LockInv, NEW w \in W, NEW pc, Goto(w, pc), SameHalf(wpc[w], pc), Quiet(w)
  PROVE  LockParts'
<1> USE SchedulerAssumption DEF LockInv, Regular, SameHalf, Quiet
<1>1. TypeOK /\ Bookkeeping /\ wpc[w] # "idle"
  BY DEF HoldingPC, ReleasedPC
<1>2. wpc'[w] = pc /\ \A v \in W \ {w} : wpc'[v] = wpc[v]
  BY <1>1 DEF Goto, TypeOK
<1>3. \A u \in Tasks : LiveOn(u)' = LiveOn(u) /\ Working(u)' = Working(u)
  <2>1. \A v \in W : Live(v)' = Live(v) /\ (wpc'[v] \in HoldingPC <=> wpc[v] \in HoldingPC)
    BY <1>2 DEF Live, HoldingPC, ReleasedPC
  <2> QED
    BY <2>1 DEF LiveOn, Working
<1>4. \A u \in Tasks : status'[u] # status[u] => status[u] # "queued" /\
                         (status[u] = "in_progress" => LiveOn(u))
  BY <1>1 DEF LiveOn, Live
<1>5. stask \in Tasks \cup {NoTask}
  BY <1>1 DEF TypeOK
<1>6. SchedulerAlone'
  BY <1>3, <1>4, <1>5 DEF SchedulerAlone, Holds, RowKeys, sched
<1>7. ReadyFresh'
  BY <1>4 DEF ReadyFresh, sched
<1>8. FreshHeld'
  BY <1>3, <1>4 DEF FreshHeld, Holds, sched
<1>9. OneGoroutine'
  BY DEF OneGoroutine
<1>10. GoroutineHeld'
  <2>1. ASSUME NEW v \in W, v # w, wtask[v] \in Regular
        PROVE  wtask[v] # wtask[w]
    BY <2>1 DEF OneGoroutine
  <2>2. \A v \in W : wtask'[v] \in Regular' /\ wpc'[v] \in HoldingPC => Holds(wtask[v])'
    BY <1>2 DEF GoroutineHeld, Holds, ReleasedPC, HoldingPC
  <2>3. \A v \in W : wtask'[v] \in Regular' /\ wpc'[v] = "xadd" =>
           \A f \in wfiles'[v] : lock'[ExpansionKey[f]] = wtask'[v]
    BY <1>2 DEF GoroutineHeld, ReleasedPC
  <2>4. \A v \in W : wtask'[v] \in Regular' /\ wpc'[v] = "xpark" =>
           status'[wtask'[v]] = "in_progress"
    BY <1>2, <2>1 DEF GoroutineHeld, ReleasedPC
  <2> QED
    BY <2>2, <2>3, <2>4 DEF GoroutineHeld
<1>11. LocksOwned'
  <2>1. mode = "up"
    BY <1>1 DEF Bookkeeping
  <2>2. \A k \in Keys : lock[k] \in Regular => lock[k] \in Tasks
    OBVIOUS
  <2> QED
    BY <1>3, <2>1, <2>2 DEF LocksOwned, sched
<1> QED
  BY <1>6, <1>7, <1>8, <1>9, <1>10, <1>11 DEF LockParts

(***************************************************************************)
(* Every step of every actor keeps the lock discipline of regular tasks.   *)
(***************************************************************************)
LEMMA LockStep == LockInv /\ [Next]_vars => LockParts'
<1> SUFFICES ASSUME LockInv, [Next]_vars PROVE LockParts'
  OBVIOUS
<1>0. TypeOK' /\ Bookkeeping'
  BY TypeStep, BookStep DEF LockInv
<1>1. ASSUME NEW w \in W, GiveUp(w) PROVE LockParts'
  <2>1. Quiet(w)
    BY <1>1 DEF GiveUp, Quiet, tables, process
  <2>2. SameHalf(wpc[w], "closing") /\ Goto(w, "closing")
    BY <1>1 DEF GiveUp, SameHalf, HoldingPC, ReleasedPC
  <2> QED
    BY <2>1, <2>2, QuietMove
<1>2. ASSUME NEW w \in W, AddExpansionWait(w) PROVE LockParts'
  <2>1. Quiet(w)
    BY <1>2 DEF AddExpansionWait, Quiet, process, LockInv, TypeOK
  <2>2. SameHalf(wpc[w], "xreload") /\ SameHalf(wpc[w], "closing")
    BY <1>2 DEF AddExpansionWait, SameHalf, HoldingPC, ReleasedPC
  <2>3. Goto(w, "xreload") \/ Goto(w, "closing")
    BY <1>2 DEF AddExpansionWait
  <2> QED
    BY <2>1, <2>2, <2>3, QuietMove
<1>3. ASSUME NEW w \in W, ReloadAfterExpansion(w) PROVE LockParts'
  <2>1. Quiet(w)
    BY <1>3 DEF ReloadAfterExpansion, Quiet, tables, process
  <2>2. SameHalf(wpc[w], "release") /\ SameHalf(wpc[w], "run")
    BY <1>3 DEF ReloadAfterExpansion, SameHalf, HoldingPC, ReleasedPC
  <2>3. Goto(w, "release") \/ Goto(w, "run")
    BY <1>3 DEF ReloadAfterExpansion
  <2> QED
    BY <2>1, <2>2, <2>3, QuietMove
<1>4. ASSUME NEW w \in W, MergeCommitted(w) PROVE LockParts'
  <2>1. Quiet(w)
    BY <1>4 DEF MergeCommitted, Quiet, tables, process
  <2>2. SameHalf(wpc[w], "release") /\ Goto(w, "release")
    BY <1>4 DEF MergeCommitted, SameHalf, HoldingPC, ReleasedPC
  <2> QED
    BY <2>1, <2>2, QuietMove
<1>5. ASSUME NEW w \in W, ScanWaiters(w) PROVE LockParts'
  <2>1. Quiet(w)
    BY <1>5 DEF ScanWaiters, Quiet, tables, process
  <2>2. SameHalf(wpc[w], "check") /\ Goto(w, "check")
    BY <1>5 DEF ScanWaiters, SameHalf, HoldingPC, ReleasedPC
  <2> QED
    BY <2>1, <2>2, QuietMove
<1>6. ASSUME NEW w \in W, CheckWaiter(w) PROVE LockParts'
  <2>1. Quiet(w)
    BY <1>6 DEF CheckWaiter, Quiet, tables, process
  <2>2. SameHalf(wpc[w], "check") /\ SameHalf(wpc[w], "settle") /\ SameHalf(wpc[w], "requeue")
    BY <1>6 DEF CheckWaiter, SameHalf, HoldingPC, ReleasedPC
  <2>3. Goto(w, "check") \/ Goto(w, "settle") \/ Goto(w, "requeue")
    BY <1>6 DEF CheckWaiter, Goto, LockInv, TypeOK
  <2> QED
    BY <2>1, <2>2, <2>3, QuietMove
<1>7. ASSUME NEW w \in W, RequeueWaiter(w) PROVE LockParts'
  <2>1. Quiet(w)
    <3>1. \A u \in Tasks : \/ status'[u] = status[u]
                           \/ u = cur[w] /\ <<status[u], "queued">> \in TaskMoves
      BY <1>7 DEF LockInv, TypeOK, RequeueWaiter, UpdateTaskStatus, ValidTaskTransition
    <3> QED
      BY <1>7, <3>1, IntoQueue DEF RequeueWaiter, Quiet, process
  <2>2. SameHalf(wpc[w], "drop") /\ SameHalf(wpc[w], "check")
    BY <1>7 DEF RequeueWaiter, SameHalf, HoldingPC, ReleasedPC
  <2>3. Goto(w, "drop") \/ Goto(w, "check")
    BY <1>7 DEF RequeueWaiter
  <2> QED
    BY <2>1, <2>2, <2>3, QuietMove
<1>8. ASSUME NEW w \in W, RemoveLockWait(w) PROVE LockParts'
  <2>1. Quiet(w)
    BY <1>8 DEF RemoveLockWait, Quiet, process
  <2>2. SameHalf(wpc[w], "check") /\ Goto(w, "check")
    BY <1>8 DEF RemoveLockWait, SameHalf, HoldingPC, ReleasedPC
  <2> QED
    BY <2>1, <2>2, QuietMove
<1>9. ASSUME NEW w \in W, CompleteTask(w) PROVE LockParts'
  <2>1. Quiet(w)
    <3>1. \A u \in Tasks : \/ status'[u] = status[u]
                           \/ u = wtask[w] /\ <<status[u], "done">> \in TaskMoves
      BY <1>9 DEF LockInv, TypeOK, CompleteTask, UpdateTaskStatus, ValidTaskTransition
    <3> QED
      BY <1>9, <3>1, IntoDone DEF CompleteTask, Quiet, process
  <2>2. SameHalf(wpc[w], "settled") /\ Goto(w, "settled")
    BY <1>9 DEF CompleteTask, SameHalf, HoldingPC, ReleasedPC
  <2> QED
    BY <2>1, <2>2, QuietMove
<1>34. ASSUME NEW w \in W, FailMergedTask(w) PROVE LockParts'
  <2>1. Quiet(w)
    <3>1. \A u \in Tasks : \/ status'[u] = status[u]
                           \/ u = wtask[w] /\ status[u] = "in_progress"
      BY <1>34 DEF LockInv, TypeOK, FailMergedTask
    <3> QED
      BY <1>34, <3>1 DEF FailMergedTask, Quiet, sched, process
  <2>2. SameHalf(wpc[w], "settled") /\ Goto(w, "settled")
    BY <1>34 DEF FailMergedTask, SameHalf, HoldingPC, ReleasedPC
  <2> QED
    BY <2>1, <2>2, QuietMove
<1> USE SchedulerAssumption DEF LockInv, TypeOK, Bookkeeping, LockParts,
      SchedulerAlone, ReadyFresh, FreshHeld, OneGoroutine, GoroutineHeld, LocksOwned,
      Regular, Holds, Live, LiveOn, RowKeys, Working, HoldingPC, ReleasedPC, OnTask
<1>10. ASSUME NEW t \in Tasks, AddTaskTargetFile(t) PROVE LockParts'
  BY <1>10 DEF AddTaskTargetFile, sched, work, process
<1>11. ASSUME TickRun PROVE LockParts'
  BY <1>11 DEF TickRun, tables, work, process
<1>12. ASSUME FindReadyTasks PROVE LockParts'
  BY <1>12 DEF FindReadyTasks, tables, work, process
<1>13. ASSUME NEW t \in Tasks, TryDispatch(t) PROVE LockParts'
  BY <1>13 DEF TryDispatch, tables, work, process
<1>14. ASSUME EndTick PROVE LockParts'
  BY <1>14 DEF EndTick, tables, work, process
<1>15. ASSUME TryAcquireLocks PROVE LockParts'
  BY <1>15 DEF TryAcquireLocks, work, process, Claim, FreeFor
<1>16. ASSUME MoveToWaitingOnLock PROVE LockParts'
  BY <1>16 DEF MoveToWaitingOnLock, NextTask, work, process, UpdateTaskStatus, ValidTaskTransition, TaskMoves
<1>17. ASSUME AddLockWait PROVE LockParts'
  BY <1>17 DEF AddLockWait, NextTask, work, process
<1>18. ASSUME Dispatch PROVE LockParts'
  BY <1>18 DEF Dispatch, work, process, UpdateTaskStatus, ValidTaskTransition, TaskMoves
<1>19. ASSUME DispatchFails PROVE LockParts'
  BY <1>19 DEF DispatchFails, tables, work, process
<1>20. ASSUME CreateAttempt PROVE LockParts'
  BY <1>20 DEF CreateAttempt, NextTask
<1>21. ASSUME UndoDispatch PROVE LockParts'
  BY <1>21 DEF UndoDispatch, NextTask, work, process, Without
<1>22. ASSUME NEW w \in W, NEW t \in Tasks, StartAttempt(w, t) PROVE LockParts'
  BY <1>22 DEF StartAttempt, Goto, sched, process
<1>23. ASSUME NEW w \in W, FinishExecution(w) PROVE LockParts'
  BY <1>23 DEF FinishExecution, Goto, SetAttempt, sched, process
<1>24. ASSUME NEW w \in W, NEW F \in Expansions, RequestScopeExpansion(w, F) PROVE LockParts'
  <2>1. SchedulerAlone'
    BY <1>24 DEF RequestScopeExpansion, Claim, FreeFor, Goto, sched, process
  <2>2. ReadyFresh'
    BY <1>24 DEF RequestScopeExpansion, Claim, FreeFor, Goto, sched, process
  <2>3. FreshHeld'
    BY <1>24 DEF RequestScopeExpansion, Claim, FreeFor, Goto, sched, process
  <2>4. OneGoroutine'
    BY <1>24 DEF RequestScopeExpansion, Claim, FreeFor, Goto, sched, process
  <2>5. GoroutineHeld'
    BY <1>24 DEF RequestScopeExpansion, Claim, FreeFor, Goto, sched, process
  <2>6. LocksOwned'
    <3>1. /\ wpc[w] = "run" /\ wpc'[w] \in {"closing", "xadd", "xpark"}
          /\ \A v \in W \ {w} : wpc'[v] = wpc[v]
      BY <1>24 DEF RequestScopeExpansion, Goto
    <3>2. \A k \in Keys : lock'[k] = lock[k] \/ lock'[k] = wtask[w]
      BY <1>24 DEF RequestScopeExpansion, Claim
    <3>3. \A u \in Tasks : Working(u) => Working(u)'
      BY <1>24, <3>1 DEF RequestScopeExpansion
    <3>4. Working(wtask[w])'
      BY <1>24, <3>1 DEF RequestScopeExpansion
    <3>5. mode = "up" /\ UNCHANGED <<mode, stask, exempt, wtask, attempt>>
      BY <1>24 DEF RequestScopeExpansion, sched, process
    <3>6. ASSUME NEW k \in Keys, lock'[k] \in Regular'
          PROVE  Working(lock[k])' \/ stask' = lock'[k]
      <4>1. CASE lock'[k] = wtask[w]
        BY <3>4, <3>5, <4>1
      <4>2. CASE lock'[k] = lock[k]
        <5>1. lock[k] \in Tasks /\ (Working(lock[k]) \/ stask = lock[k])
          BY <3>5, <3>6, <4>2
        <5> QED
          BY <3>3, <3>5, <4>2, <5>1
      <4> QED
        BY <3>2, <4>1, <4>2
    <3> QED
      BY <3>5, <3>6
  <2> QED
    BY <2>1, <2>2, <2>3, <2>4, <2>5, <2>6
<1>25. ASSUME NEW w \in W, AddExpandedTarget(w) PROVE LockParts'
  <2>1. /\ wpc[w] = "xadd" /\ mode = "up"
        /\ UNCHANGED <<status, lock, attempt, sched, wtask, goal, todo, cur, mode, exempt>>
    BY <1>25 DEF AddExpandedTarget, process
  <2>2. CASE wfiles[w] = {}
    BY <1>25, <2>2 DEF AddExpandedTarget, Goto, sched, process
  <2>3. CASE wfiles[w] # {}
    <3>1. PICK f \in wfiles[w] :
            \/ /\ Goto(w, "closing")
               /\ wfiles' = [wfiles EXCEPT ![w] = {}]
               /\ target' = target
            \/ /\ target' = [target EXCEPT ![wtask[w]] = @ \cup {<<f, ExpansionKey[f]>>}]
               /\ wfiles' = [wfiles EXCEPT ![w] = @ \ {f}]
               /\ wpc' = wpc
      BY <1>25, <2>3 DEF AddExpandedTarget
    <3>2. CASE Goto(w, "closing") /\ wfiles' = [wfiles EXCEPT ![w] = {}] /\ target' = target
      BY <2>1, <3>2 DEF Goto, sched
    <3>3. CASE /\ target' = [target EXCEPT ![wtask[w]] = @ \cup {<<f, ExpansionKey[f]>>}]
               /\ wfiles' = [wfiles EXCEPT ![w] = @ \ {f}]
               /\ wpc' = wpc
      <4>1. \A u \in Tasks : u # wtask[w] => target'[u] = target[u]
        BY <3>3
      <4>2. \A row \in target'[wtask[w]] :
              row \in target[wtask[w]] \/ row[2] = ExpansionKey[f]
        BY <3>3
      <4>3. SchedulerAlone' /\ ReadyFresh' /\ FreshHeld'
        BY <2>1, <3>3, <4>1 DEF sched
      <4>4. GoroutineHeld'
        BY <2>1, <3>1, <3>3, <4>1, <4>2
      <4>5. OneGoroutine' /\ LocksOwned'
        BY <2>1, <3>3 DEF sched
      <4> QED
        BY <4>3, <4>4, <4>5
    <3> QED
      BY <3>1, <3>2, <3>3
  <2> QED
    BY <2>2, <2>3
<1>26. ASSUME NEW w \in W, ParkForExpansion(w) PROVE LockParts'
  BY <1>26 DEF ParkForExpansion, Goto, sched, process, UpdateTaskStatus, ValidTaskTransition, TaskMoves
<1>27. ASSUME NEW w \in W, CloseAttempt(w) PROVE LockParts'
  BY <1>27 DEF CloseAttempt, Goto, SetAttempt, sched, process
<1>28. ASSUME NEW w \in W, FailTask(w) PROVE LockParts'
  BY <1>28 DEF FailTask, Goto, sched, process
<1>29. ASSUME NEW w \in W, MergeFailed(w) PROVE LockParts'
  BY <1>29 DEF MergeFailed, Goto, SetAttempt, sched, process
<1>30. ASSUME NEW w \in W, ReleaseTaskLocks(w) PROVE LockParts'
  BY <1>30 DEF ReleaseTaskLocks, Goto, sched, process, Without
<1>31. ASSUME NEW w \in W, LeaveWaiting(w) PROVE LockParts'
  BY <1>31 DEF LeaveWaiting, Leave, tables, sched, process, Goto
<1>32. ASSUME NEW w \in W, HandleTaskFailure(w) PROVE LockParts'
  BY <1>32 DEF HandleTaskFailure, Leave, sched, process, Goto, UpdateTaskStatus, ValidTaskTransition, TaskMoves
<1>33. ASSUME NEW w \in W, MarkSucceeded(w) PROVE LockParts'
  BY <1>33 DEF MarkSucceeded, SetAttempt, Leave, sched, process, Goto
<1>35. ASSUME NEW w \in W, RequeueTask(w) PROVE LockParts'
  <2>1. SchedulerAlone'
    BY <1>35 DEF RequeueTask, Leave, sched, process, Goto, UpdateTaskStatus, ValidTaskTransition, TaskMoves
  <2>2. ReadyFresh'
    BY <1>35 DEF RequeueTask, Leave, sched, process, Goto, UpdateTaskStatus, ValidTaskTransition, TaskMoves
  <2>3. FreshHeld'
    BY <1>35 DEF RequeueTask, Leave, sched, process, Goto, UpdateTaskStatus, ValidTaskTransition, TaskMoves
  <2>4. OneGoroutine'
    BY <1>35 DEF RequeueTask, Leave, sched, process, Goto, UpdateTaskStatus, ValidTaskTransition, TaskMoves
  <2>5. GoroutineHeld'
    BY <1>35 DEF RequeueTask, Leave, sched, process, Goto, UpdateTaskStatus, ValidTaskTransition, TaskMoves
  <2>6. LocksOwned'
    BY <1>35 DEF RequeueTask, Leave, sched, process, Goto, UpdateTaskStatus, ValidTaskTransition, TaskMoves
  <2> QED
    BY <2>1, <2>2, <2>3, <2>4, <2>5, <2>6
<1>36. ASSUME Crash PROVE LockParts'
  BY <1>36 DEF Crash
<1>37. ASSUME StartRecovery PROVE LockParts'
  BY <1>37 DEF StartRecovery, tables, sched, work
<1>38. ASSUME NEW t \in Tasks, CloseStaleAttempt(t) PROVE LockParts'
  BY <1>38 DEF CloseStaleAttempt, sched, work
<1>39. ASSUME RequeueStaleTask PROVE LockParts'
  BY <1>39 DEF RequeueStaleTask, sched, work
<1>40. ASSUME ReleaseAllLocks PROVE LockParts'
  BY <1>40 DEF ReleaseAllLocks, sched, work
<1>41. ASSUME NEW t \in Tasks, RebuildLockWait(t) PROVE LockParts'
  BY <1>41 DEF RebuildLockWait, sched, work, UpdateTaskStatus, ValidTaskTransition, TaskMoves
<1>42. ASSUME RemoveRebuiltWait PROVE LockParts'
  BY <1>42 DEF RemoveRebuiltWait, sched, work
<1>43. ASSUME FinishRecovery PROVE LockParts'
  BY <1>43 DEF FinishRecovery, tables, sched, work
<1>44. ASSUME UNCHANGED vars PROVE LockParts'
  BY <1>44 DEF vars, tables, sched, work, process
<1> QED
  BY <1>1, <1>2, <1>3, <1>4, <1>5, <1>6, <1>7, <1>8, <1>9, <1>10, <1>11,
     <1>12, <1>13, <1>14, <1>15, <1>16, <1>17, <1>18, <1>19, <1>20, <1>21, <1>22,
     <1>23, <1>24, <1>25, <1>26, <1>27, <1>28, <1>29, <1>30, <1>31, <1>32, <1>33,
     <1>34, <1>35, <1>36, <1>37, <1>38, <1>39, <1>40, <1>41, <1>42, <1>43, <1>44
  DEF Next, SchedulerStep, GoroutineStep, ExpansionStep, AttemptStep, ReleaseStep,
      SettleStep, RecoveryStep

(* The lock invariant is inductive, ... *)
LEMMA LockInductive == LockInv /\ [Next]_vars => LockInv'
BY TypeStep, BookStep, LockStep DEF LockInv, LockParts

(* ... and holds initially. *)
LEMMA LockInitially == Init => LockInv
<1> SUFFICES ASSUME Init PROVE LockInv
  OBVIOUS
<1>1. TypeOK
  BY SchedulerAssumption DEF Init, TypeOK, TaskStatus, AttemptState, SchedulerPC,
     HoldingPC, ReleasedPC, Goals
<1>2. Bookkeeping
  BY SchedulerAssumption DEF Init, Bookkeeping, OnTask
<1>3. SchedulerAlone /\ ReadyFresh
  BY SchedulerAssumption DEF Init, SchedulerAlone, ReadyFresh, Regular
<1>4. FreshHeld /\ OneGoroutine /\ GoroutineHeld
  BY SchedulerAssumption DEF Init, FreshHeld, OneGoroutine, GoroutineHeld, Regular
<1>5. LocksOwned
  BY SchedulerAssumption DEF Init, LocksOwned, Regular
<1> QED
  BY <1>1, <1>2, <1>3, <1>4, <1>5 DEF LockInv

(***************************************************************************)
(* A task that is worked on holds the lock of each of its target rows,     *)
(* through failed dispatches, expansions, merges, wakers and restarts.     *)
(***************************************************************************)
THEOREM WriteSetsCorrect == Spec => []WriteSetsHeld
<1>1. LockInv => WriteSetsHeld
  BY DEF LockInv, FreshHeld, GoroutineHeld, WriteSetsHeld, Working, Holds, Regular
<1> QED
  BY <1>1, LockInitially, LockInductive, PTL DEF Spec

(***************************************************************************)
(* A held lock belongs to a task that is worked on or in the scheduler's   *)
(* hands, so that somebody is left to release it.                          *)
(***************************************************************************)
THEOREM NoOrphanCorrect == Spec => []NoOrphanLock
<1>1. LockInv => NoOrphanLock
  BY DEF LockInv, TypeOK, LocksOwned, NoOrphanLock, Regular
<1> QED
  BY <1>1, LockInitially, LockInductive, PTL DEF Spec

-----------------------------------------------------------------------------
(***************************************************************************)
(* Refinement: an acquisition, a release or a wipe of the abstract table   *)
(* for each step that writes task_locks, a stutter for every other.        *)
(***************************************************************************)
LEMMA LockTableStep == LockInv /\ [Next]_vars => [Locks!Next]_lock
<1> SUFFICES ASSUME LockInv, [Next]_vars PROVE Locks!Next \/ lock' = lock
  OBVIOUS
<1> USE SchedulerAssumption
<1>1. CASE TryAcquireLocks
  <2>1. stask \in Tasks /\ skeys \subseteq Keys
    BY <1>1 DEF TryAcquireLocks, LockInv, TypeOK, Bookkeeping, OnTask
  <2>2. lock' = lock \/ Locks!Acquire(stask, skeys)
    BY <1>1, <2>1 DEF TryAcquireLocks, FreeFor, Claim, Locks!Acquire
  <2> QED
    BY <2>1, <2>2 DEF Locks!Next
<1>2. CASE UndoDispatch
  <2>1. stask \in Tasks
    BY <1>2 DEF UndoDispatch, LockInv, TypeOK, Bookkeeping, OnTask
  <2>2. Locks!ReleaseAllOf(stask)
    BY <1>2 DEF UndoDispatch, Without, Locks!ReleaseAllOf
  <2> QED
    BY <2>1, <2>2 DEF Locks!Next
<1>3. ASSUME NEW w \in W, NEW F \in Expansions, RequestScopeExpansion(w, F)
      PROVE  Locks!Next \/ lock' = lock
  <2> DEFINE ks == {ExpansionKey[f] : f \in F}
  <2>1. wtask[w] \in Tasks /\ ks \subseteq Keys
    BY <1>3 DEF RequestScopeExpansion, LockInv, TypeOK, Bookkeeping
  <2>2. lock' = lock \/ Locks!Acquire(wtask[w], ks)
    BY <1>3, <2>1 DEF RequestScopeExpansion, FreeFor, Claim, Locks!Acquire
  <2> QED
    BY <2>1, <2>2 DEF Locks!Next
<1>4. ASSUME NEW w \in W, ReleaseTaskLocks(w) PROVE Locks!Next \/ lock' = lock
  <2>1. wtask[w] \in Tasks
    BY <1>4 DEF ReleaseTaskLocks, LockInv, TypeOK, Bookkeeping
  <2>2. Locks!ReleaseAllOf(wtask[w])
    BY <1>4 DEF ReleaseTaskLocks, Without, Locks!ReleaseAllOf
  <2> QED
    BY <2>1, <2>2 DEF Locks!Next
<1>5. CASE ReleaseAllLocks
  BY <1>5 DEF ReleaseAllLocks, Locks!Next, Locks!Wipe
<1>6. ASSUME NEW t \in Tasks,
             AddTaskTargetFile(t) \/ TryDispatch(t) \/ CloseStaleAttempt(t)
               \/ RebuildLockWait(t) \/ \E w \in W : StartAttempt(w, t)
      PROVE  lock' = lock
  BY <1>6 DEF AddTaskTargetFile, TryDispatch, CloseStaleAttempt, RebuildLockWait,
     StartAttempt, tables
<1>7. CASE \/ TickRun \/ FindReadyTasks \/ EndTick \/ MoveToWaitingOnLock
           \/ AddLockWait \/ Dispatch \/ DispatchFails \/ CreateAttempt
  BY <1>7 DEF TickRun, FindReadyTasks, EndTick, MoveToWaitingOnLock, AddLockWait,
     Dispatch, DispatchFails, CreateAttempt, tables
<1>8. CASE \/ Crash \/ StartRecovery \/ RequeueStaleTask \/ RemoveRebuiltWait
           \/ FinishRecovery \/ UNCHANGED vars
  BY <1>8 DEF Crash, StartRecovery, RequeueStaleTask, RemoveRebuiltWait,
     FinishRecovery, vars, tables
<1>9. ASSUME NEW w \in W,
             \/ AddExpandedTarget(w) \/ ParkForExpansion(w)
             \/ AddExpansionWait(w) \/ ReloadAfterExpansion(w) \/ AttemptStep(w)
      PROVE  lock' = lock
  BY <1>9 DEF AddExpandedTarget, ParkForExpansion, AddExpansionWait,
     ReloadAfterExpansion, AttemptStep, FinishExecution, GiveUp, CloseAttempt,
     FailTask, MergeCommitted, MergeFailed, tables
<1>10. ASSUME NEW w \in W,
              \/ ScanWaiters(w) \/ CheckWaiter(w) \/ RequeueWaiter(w)
              \/ RemoveLockWait(w) \/ SettleStep(w)
       PROVE  lock' = lock
  BY <1>10 DEF ScanWaiters, CheckWaiter, RequeueWaiter, RemoveLockWait, SettleStep,
     LeaveWaiting, HandleTaskFailure, CompleteTask, MarkSucceeded, FailMergedTask,
     RequeueTask, tables
<1> QED
  BY <1>1, <1>2, <1>3, <1>4, <1>5, <1>6, <1>7, <1>8, <1>9, <1>10
  DEF Next, SchedulerStep, GoroutineStep, ExpansionStep, ReleaseStep, RecoveryStep

(***************************************************************************)
(* The scheduler implements the abstract lock table.                       *)
(***************************************************************************)
THEOREM LockTableImplemented == Spec => LockTableSpec
<1>1. Init => Locks!Init
  BY DEF Init, Locks!Init
<1> QED
  BY <1>1, LockInitially, LockInductive, LockTableStep, PTL
  DEF Spec, LockTableSpec, Locks!Spec

-----------------------------------------------------------------------------
(***************************************************************************)
(* Recovery.  Nobody but the recovery runs while the process is not up,    *)
(* so what it finds closed when it wipes the locks stays closed.           *)
(***************************************************************************)
LEMMA RecoveryAlone ==
  ASSUME TypeOK, Bookkeeping, [Next]_vars, mode # "up"
  PROVE  Crash \/ RecoveryStep \/ UNCHANGED vars
<1>1. ASSUME NEW t \in Tasks, AddTaskTargetFile(t) PROVE FALSE
  BY <1>1 DEF AddTaskTargetFile
<1>2. ~SchedulerStep
  BY DEF SchedulerStep, TickRun, FindReadyTasks, TryDispatch, EndTick, TryAcquireLocks,
     MoveToWaitingOnLock, AddLockWait, Dispatch, DispatchFails, CreateAttempt, UndoDispatch
<1>3. ASSUME NEW w \in W, NEW t \in Tasks, StartAttempt(w, t) PROVE FALSE
  BY <1>3 DEF StartAttempt
<1>4. ASSUME NEW w \in W, GoroutineStep(w) PROVE FALSE
  <2>1. wpc[w] = "idle"
    BY DEF Bookkeeping
  <2>2. ~ExpansionStep(w) /\ ~AttemptStep(w)
    BY <2>1 DEF ExpansionStep, RequestScopeExpansion, AddExpandedTarget, ParkForExpansion,
       AddExpansionWait, ReloadAfterExpansion, AttemptStep, FinishExecution, GiveUp,
       CloseAttempt, FailTask, MergeCommitted, MergeFailed
  <2>3. ~ReleaseStep(w) /\ ~SettleStep(w)
    BY <2>1 DEF ReleaseStep, ReleaseTaskLocks, ScanWaiters, CheckWaiter, RequeueWaiter,
       RemoveLockWait, SettleStep, LeaveWaiting, HandleTaskFailure, CompleteTask,
       MarkSucceeded, FailMergedTask, RequeueTask
  <2> QED
    BY <1>4, <2>2, <2>3 DEF GoroutineStep
<1> QED
  BY <1>1, <1>2, <1>3, <1>4 DEF Next

LEMMA StaleStep == RecoveryInv /\ [Next]_vars => StaleEnded'
<1> SUFFICES ASSUME RecoveryInv, [Next]_vars, mode' = "waits" PROVE StaleEnded'
  BY DEF StaleEnded
<1>1. TypeOK /\ Bookkeeping /\ StaleEnded
  BY DEF RecoveryInv, LockInv
<1>2. CASE mode = "up"
  <2>1. mode' \in {"up", "down"}
    BY <1>2 DEF Next, AddTaskTargetFile, SchedulerStep, TickRun, FindReadyTasks,
       TryDispatch, EndTick, TryAcquireLocks, MoveToWaitingOnLock, AddLockWait, Dispatch,
       DispatchFails, CreateAttempt, UndoDispatch, StartAttempt, GoroutineStep,
       ExpansionStep, RequestScopeExpansion, AddExpandedTarget, ParkForExpansion,
       AddExpansionWait, ReloadAfterExpansion, AttemptStep, FinishExecution, GiveUp,
       CloseAttempt, FailTask, MergeCommitted, MergeFailed, ReleaseStep,
       ReleaseTaskLocks, ScanWaiters, CheckWaiter, RequeueWaiter, RemoveLockWait,
       SettleStep, LeaveWaiting, HandleTaskFailure, CompleteTask, MarkSucceeded,
       FailMergedTask, RequeueTask, Crash, RecoveryStep, StartRecovery,
       CloseStaleAttempt, RequeueStaleTask, ReleaseAllLocks, RebuildLockWait,
       RemoveRebuiltWait, FinishRecovery, vars, process
  <2> QED
    BY <2>1
<1>3. CASE mode # "up"
  <2>1. Crash \/ RecoveryStep \/ UNCHANGED vars
    BY <1>1, <1>3, RecoveryAlone
  <2>2. CASE Crash \/ StartRecovery \/ RequeueStaleTask \/ FinishRecovery
    BY <1>1, <2>2 DEF Crash, StartRecovery, RequeueStaleTask, FinishRecovery
  <2>3. CASE ReleaseAllLocks
    BY <2>3 DEF ReleaseAllLocks, StaleEnded
  <2>4. ASSUME NEW t \in Tasks, CloseStaleAttempt(t) PROVE FALSE
    BY <2>4 DEF CloseStaleAttempt
  <2>5. ASSUME NEW t \in Tasks, RebuildLockWait(t) PROVE StaleEnded'
    BY <1>1, <2>5 DEF RebuildLockWait, UpdateTaskStatus, TypeOK, StaleEnded
  <2>6. CASE RemoveRebuiltWait \/ UNCHANGED vars
    BY <1>1, <2>6 DEF RemoveRebuiltWait, StaleEnded, vars, tables, process
  <2> QED
    BY <2>1, <2>2, <2>3, <2>4, <2>5, <2>6 DEF RecoveryStep
<1> QED
  BY <1>2, <1>3

LEMMA RecoveryInductive == RecoveryInv /\ [Next]_vars => RecoveryInv'
BY StaleStep, LockInductive DEF RecoveryInv

(* The step that opens the engine finds no lock, no wait, nothing open. *)
Cleaned ==
  /\ \A k \in Keys : lock[k] = NoTask
  /\ \A t \in Tasks : /\ wait[t] = {}
                      /\ status[t] = "in_progress" => attempt[t] = "ended"

LEMMA UpIsClean ==
  ASSUME RecoveryInv, [Next]_vars, mode # "up", mode' = "up" PROVE Cleaned
<1>1. Crash \/ RecoveryStep \/ UNCHANGED vars
  BY RecoveryAlone DEF RecoveryInv, LockInv
<1>2. FinishRecovery
  BY <1>1 DEF Crash, RecoveryStep, StartRecovery, CloseStaleAttempt, RequeueStaleTask,
     ReleaseAllLocks, RebuildLockWait, RemoveRebuiltWait, vars, process
<1> QED
  BY <1>2 DEF FinishRecovery, RecoveryInv, LockInv, LocksOwned, StaleEnded, Cleaned

(***************************************************************************)
(* Whatever state a crash left and however often the recovery itself       *)
(* crashed or failed, the engine starts only on a clean database: no lock, *)
(* no wait row, no open attempt of a task in progress.                     *)
(***************************************************************************)
THEOREM RecoveryCorrect == Spec => RecoveryCleans
<1>1. Init => RecoveryInv
  BY LockInitially DEF RecoveryInv, StaleEnded, Init
<1>2. RecoveryInv /\ [Next]_vars =>
        [mode # "up" /\ mode' = "up" =>
           /\ \A k \in Keys : lock[k] = NoTask
           /\ \A t \in Tasks : /\ wait[t] = {}
                               /\ status[t] = "in_progress" => attempt[t] = "ended"]_vars
  BY UpIsClean DEF Cleaned
<1> QED
  BY <1>1, <1>2, RecoveryInductive, PTL DEF Spec, RecoveryCleans

=============================================================================
