---------------------------- MODULE SchedulerInv ----------------------------
(***************************************************************************)
(* The inductive invariants behind the safety properties of Scheduler.     *)
(***************************************************************************)
EXTENDS Scheduler

Regular == Tasks \ exempt
Holds(t) == \A row \in target[t] : lock[row[2]] = t
OnTask == {"acquire", "park", "row", "dispatch", "create", "undo"}

(* Who is busy with what. *)
Bookkeeping ==
  /\ mode # "up" => /\ spc = "idle"
                    /\ \A w \in W : wpc[w] = "idle"
                    /\ \A t \in Tasks : attempt[t] # "new"
                    /\ \A t \in Tasks : creating[t] = {}
  /\ mode \in {"up", "down"} => rtask = NoTask
  /\ (stask # NoTask) <=> (spc \in OnTask)
  /\ \A w \in W : (wtask[w] # NoTask) <=> (wpc[w] # "idle")
  /\ \A w \in W : wpc[w] \in {"requeue", "drop"} => cur[w] # NoTask
  /\ spc \in {"idle", "find"} => sready = {}
  /\ stask \notin sready

(* The scheduler's task, if regular, has no goroutine and no fresh attempt. *)
SchedulerAlone ==
  stask \in Regular =>
    /\ ~LiveOn(stask)
    /\ attempt[stask] # "new"
    /\ skeys = RowKeys(stask)
    /\ spc \in {"acquire", "park", "dispatch"} => status[stask] = "queued"
    /\ spc = "create" => status[stask] = "in_progress"
    /\ spc \in {"acquire", "park", "row"} => \A k \in Keys : lock[k] # stask
    /\ spc \in {"dispatch", "create"} => Holds(stask)

ReadyFresh ==
  \A t \in sready \cap Regular : status[t] = "queued" /\ attempt[t] # "new"

(* A fresh attempt waits for the executor with its locks held. *)
FreshHeld ==
  \A t \in Regular :
    attempt[t] = "new" =>
      status[t] = "in_progress" /\ ~LiveOn(t) /\ stask # t /\ Holds(t)

(* A regular task has one goroutine, which holds the task's write set. *)
OneGoroutine ==
  \A v, w \in W : wtask[v] = wtask[w] /\ wtask[v] \in Regular => v = w

GoroutineHeld ==
  \A w \in W :
    wtask[w] \in Regular =>
      /\ wpc[w] \in HoldingPC => Holds(wtask[w])
      /\ wpc[w] = "xadd" =>
           \A f \in wfiles[w] : lock[ExpansionKey[f]] = wtask[w]
      /\ wpc[w] = "xpark" => status[wtask[w]] = "in_progress"

LocksOwned ==
  /\ mode = "up" =>
       \A k \in Keys :
         lock[k] \in Regular => Working(lock[k]) \/ stask = lock[k]
  /\ mode = "waits" => \A k \in Keys : lock[k] = NoTask

LockInv ==
  /\ TypeOK /\ Bookkeeping /\ SchedulerAlone /\ ReadyFresh /\ FreshHeld
  /\ OneGoroutine /\ GoroutineHeld /\ LocksOwned

(* Dependencies: `done' is for ever, so a task found ready stays ready. *)
DepsInv ==
  /\ TypeOK /\ Bookkeeping /\ DependenciesDone
  /\ \A t \in sready : DepsDone(t)
  /\ stask # NoTask => DepsDone(stask)
  /\ \A w \in W : wtask[w] # NoTask => DepsDone(wtask[w])
  /\ mode = "stale" /\ rtask # NoTask => status[rtask] = "in_progress"

(* The slots of the running tick are really free: the tasks in progress and *)
(* the slots left add up to no more than the limit, but for the task whose *)
(* attempt is being created, which is counted twice.                       *)
Running == {t \in Tasks : status[t] = "in_progress"}
SlotsCounted ==
  /\ slots >= 0
  /\ spc \in OnTask => slots >= 1
  /\ Cardinality(Running) + slots
       <= MaxMeeseeks + (IF spc = "create" THEN 1 ELSE 0)

LimitInv == TypeOK /\ Bookkeeping /\ (~Faults => SlotsCounted)

(* Once the locks are gone, what the recovery leaves in progress has ended. *)
StaleEnded ==
  mode = "waits" => \A t \in Tasks : status[t] = "in_progress" => attempt[t] = "ended"

RecoveryInv == LockInv /\ StaleEnded

=============================================================================
