-------------------------- MODULE Convergence_proofs --------------------------
(***************************************************************************)
(* A run is completed only with its tests merged, for any implementations, *)
(* families of models, attempts and requests.                              *)
(***************************************************************************)
EXTENDS ConvergenceInv, TLAPS, WellFoundedInduction

-----------------------------------------------------------------------------
(***************************************************************************)
(* Tasks, attempts and rows.                                               *)
(***************************************************************************)
LEMMA Kinds ==
  /\ \A i \in Features : i \in RunTasks /\ Test(i) \in Tests /\ Test(i) \in RunTasks
  /\ \A i, j \in Features : Test(i) = Test(j) => i = j
  /\ \A t \in Tests : t \in RunTasks /\ t[1] \in Features /\ t = Test(t[1]) /\ t \notin Features
  /\ \A i \in Features, n \in 1..2 : Fix(i, n) \in Fixes
  /\ \A t \in Fixes : t \in RunTasks /\ t \notin Features /\ t \notin Tests
<1>1. \A i \in Features, j \in Features : Test(i) # j
  BY DEF Features, Test
<1>2. \A i \in Features, j \in Features, n \in 1..2 : Fix(i, n) # j /\ Fix(i, n) # Test(j)
  BY DEF Features, Test, Fix
<1> QED
  BY <1>1, <1>2 DEF RunTasks, Tests, Fixes, Test

LEMMA StatusMoved ==
  ASSUME task \in [RunTasks -> TaskStatuses \cup {None}],
         NEW t \in RunTasks, NEW to \in TaskStatuses
  PROVE  /\ Moved(t, to) \in [RunTasks -> TaskStatuses \cup {None}]
         /\ \A u \in RunTasks \ {t} : Moved(t, to)[u] = task[u]
         /\ \/ Moved(t, to)[t] = task[t]
            \/ Moved(t, to)[t] = to /\ task[t] \notin {"done", None}
BY ConvergenceAssumption DEF Moved, Allowed, TaskStatuses

LEMMA AttemptClosed ==
  ASSUME tries \in [RunTasks -> Seq(Attempt)], NEW t \in RunTasks, NEW n \in 1..Last(t),
         NEW phase \in {"succeeded", "failed"}
  PROVE  /\ Closed(t, n, phase) \in [RunTasks -> Seq(Attempt)]
         /\ \A u \in RunTasks : Len(Closed(t, n, phase)[u]) = Len(tries[u])
<1> DEFINE a == tries[t][n]
           b == [a EXCEPT !.phase = phase,
                          !.status = IF phase = "succeeded" THEN "passed" ELSE "failed"]
<1>1. tries[t] \in Seq(Attempt) /\ a \in Attempt
  BY DEF Last
<1>2. b \in Attempt
  BY <1>1 DEF Attempt
<1> HIDE DEF b
<1>3. [tries[t] EXCEPT ![n] = b] \in Seq(Attempt) /\ Len([tries[t] EXCEPT ![n] = b]) = Len(tries[t])
  BY <1>1, <1>2 DEF Last
<1>4. Closed(t, n, phase) = tries \/ Closed(t, n, phase) = [tries EXCEPT ![t] = [tries[t] EXCEPT ![n] = b]]
  BY DEF Closed, b
<1> QED
  BY <1>3, <1>4

LEMMA TypesOf ==
  ASSUME ConvTyped
  PROVE  /\ task \in [RunTasks -> TaskStatuses \cup {None}]
         /\ tries \in [RunTasks -> Seq(Attempt)]
         /\ \A t \in RunTasks : Last(t) \in Nat
         /\ pairs \in [Features -> Pair \cup {None}]
         /\ queue \in Seq(RunTasks \X Nat) /\ merging \in Working
BY DEF ConvTyped, ConvTypeOK, Last

LEMMA WorkParts ==
  ASSUME NEW w \in Working, w.step # "idle"
  PROVE  /\ w.task \in RunTasks /\ w.step \in {"merge", "hook", "succeed", "requeue"}
         /\ w.step = "requeue" => w.was \in TaskStatuses \cup {None}
BY DEF Working, Idle

LEMMA WorkGoesOn ==
  ASSUME NEW w \in Working, w.step \in {"merge", "hook", "succeed"},
         NEW s \in {"merge", "hook", "succeed"}
  PROVE  /\ [w EXCEPT !.step = s] \in Working /\ [w EXCEPT !.step = s].step = s
         /\ [w EXCEPT !.step = s].task = w.task /\ [w EXCEPT !.step = s].try = w.try
BY DEF Working, Idle

(* Among the attempts of a task that passed there is a latest. *)
LEMMA LatestPassed ==
  ASSUME ConvTyped, NEW t \in RunTasks, Passed(t) # {}
  PROVE  \E n \in Passed(t) : \A m \in Passed(t) : m <= n
<1> DEFINE R == OpToRel(<, Nat)
           Before == {Last(t) - m : m \in Passed(t)}
<1>1. IsWellFoundedOn(R, Nat) /\ \A x, y \in Nat : y < x => <<y, x>> \in R
  BY NatLessThanWellFounded, Zenon DEF OpToRel
<1> HIDE DEF R
<1>2. Last(t) \in Nat /\ \A m \in Passed(t) : m \in 1..Last(t)
  BY TypesOf DEF Passed
<1>3. Before \subseteq Nat /\ \E b \in Before : TRUE
  BY <1>2
<1>4. PICK b \in Before : \A x \in Before : ~(<<x, b>> \in R)
  <2> HIDE DEF Before
  <2> QED
    BY <1>1, <1>3, WFMin, Zenon
<1>5. PICK n \in Passed(t) : b = Last(t) - n
  BY <1>4
<1>6. ASSUME NEW m \in Passed(t)
      PROVE  m <= n
  <2>1. Last(t) - m \in Nat /\ b \in Nat /\ ~(Last(t) - m < b)
    BY <1>1, <1>3, <1>4
  <2> QED
    BY <1>2, <1>5, <2>1
<1> QED
  BY <1>6

-----------------------------------------------------------------------------
(***************************************************************************)
(* What a step may do to the tasks and the pairs.                          *)
(***************************************************************************)
Gone(i) == pairs[i] = None
Converged(i) == pairs[i] # None /\ pairs[i].status = "converged"

PairStep ==
  /\ task' \in [RunTasks -> TaskStatuses \cup {None}] /\ pairs' \in [Features -> Pair \cup {None}]
  /\ \A t \in Features \cup Tests : task[t] = "done" => task'[t] = "done"
  /\ \A i \in Features : task[Test(i)] = None => task'[Test(i)] = None \/ ~Gone(i)'
  /\ \A i \in Features : Gone(i)' => Gone(i)
  /\ \A i \in Features : Gone(i) /\ ~Gone(i)' => task[i] = "done"
  /\ \A i \in Features : Converged(i)' => Converged(i) \/ task[Test(i)] = "done"
  /\ merging'.step = "hook" => task'[merging'.task] = "done"

(* Most steps change one task, and what they do to a pair does not make it *)
(* converge.                                                               *)
LEMMA OneTaskMoves ==
  ASSUME ConvInv, NEW t \in RunTasks, task' \in [RunTasks -> TaskStatuses \cup {None}],
         \A u \in RunTasks \ {t} : task'[u] = task[u],
         task'[t] = task[t] \/ task[t] \notin {"done", None},
         pairs' \in [Features -> Pair \cup {None}],
         \A i \in Features : \/ pairs'[i] = pairs[i]
                             \/ ~Gone(i) /\ ~Gone(i)' /\ pairs'[i].status # "converged",
         merging' = merging \/ merging'.step # "hook"
  PROVE  PairStep
<1>1. merging.step = "hook" => merging.task \in RunTasks /\ task[merging.task] = "done"
  BY TypesOf, WorkParts DEF ConvInv, PairsMade
<1>2. merging'.step = "hook" => task'[merging'.task] = "done"
  BY <1>1
<1>3. \A u \in Features \cup Tests : u \in RunTasks
  BY Kinds
<1> QED
  BY <1>2, <1>3, Kinds DEF PairStep, Gone, Converged

LEMMA TasksStay ==
  ASSUME ConvInv, UNCHANGED <<task, pairs>>, merging' = merging \/ merging'.step # "hook"
  PROVE  PairStep
<1>1. merging.step = "hook" => task[merging.task] = "done"
  BY DEF ConvInv, PairsMade
<1> QED
  BY <1>1, TypesOf DEF PairStep, Gone, Converged, ConvInv

(* The steps of an attempt, and the requests. *)
LEMMA AttemptPairs ==
  ASSUME ConvInv, NEW t \in RunTasks,
         Dispatch(t) \/ Submit(t) \/ FailAttempt(t) \/ RejectTaskOutput(t) \/ ApproveTaskOutput(t)
  PROVE  PairStep
<1>1. ConvTyped /\ task \in [RunTasks -> TaskStatuses \cup {None}]
      /\ pairs \in [Features -> Pair \cup {None}]
  BY TypesOf DEF ConvInv
<1>2. CASE Submit(t) \/ ApproveTaskOutput(t)
  BY <1>2, TasksStay DEF Submit, ApproveTaskOutput
<1>3. CASE Dispatch(t)
  <2>1. task' = Moved(t, "in_progress") /\ UNCHANGED <<pairs, merging>> /\ "in_progress" \in TaskStatuses
    BY <1>3 DEF Dispatch, TaskStatuses
  <2> QED
    BY <1>1, <2>1, StatusMoved, OneTaskMoves
<1>4. CASE RejectTaskOutput(t)
  <2>1. (task' = Moved(t, "failed") \/ task' = task) /\ UNCHANGED <<pairs, merging>>
    BY <1>4 DEF RejectTaskOutput
  <2>2. "failed" \in TaskStatuses
    BY DEF TaskStatuses
  <2> QED
    BY <1>1, <2>1, <2>2, StatusMoved, OneTaskMoves
<1>5. CASE FailAttempt(t)
  <2> DEFINE failed == Moved(t, "failed")
  <2>1. /\ failed \in [RunTasks -> TaskStatuses \cup {None}]
        /\ \A u \in RunTasks \ {t} : failed[u] = task[u]
        /\ failed[t] = task[t] \/ (failed[t] = "failed" /\ task[t] \notin {"done", None})
        /\ {"failed", "queued", "blocked"} \subseteq TaskStatuses
    BY <1>1, StatusMoved DEF TaskStatuses
  <2>2. UNCHANGED merging
    BY <1>5 DEF FailAttempt
  <2>3. "failed" # None /\ \A p \in Pair : p # None
    BY <2>1, ConvergenceAssumption
  <2>4. \/ failed[t] # "failed" /\ task' = failed /\ pairs' = pairs
        \/ failed[t] = "failed" /\ task' = [failed EXCEPT ![t] = "queued"] /\ pairs' = pairs
        \/ failed[t] = "failed" /\ task' = [failed EXCEPT ![t] = "blocked"] /\ pairs' = MarkBlocked(t)
    BY <1>5 DEF FailAttempt
  <2>5. /\ MarkBlocked(t) \in [Features -> Pair \cup {None}]
        /\ \A i \in Features : \/ MarkBlocked(t)[i] = pairs[i]
                               \/ /\ pairs[i] # None /\ MarkBlocked(t)[i] # None
                                  /\ MarkBlocked(t)[i].status # "converged"
    <3>1. CASE ~(t \in Tests /\ pairs[t[1]] # None)
      BY <1>1, <3>1 DEF MarkBlocked
    <3>2. CASE t \in Tests /\ pairs[t[1]] # None
      <4> DEFINE b == [pairs[t[1]] EXCEPT !.status = "blocked"]
      <4>1. t[1] \in Features /\ pairs[t[1]] \in Pair
        BY <1>1, <3>2, Kinds
      <4>2. b \in Pair /\ b.status # "converged"
        BY <4>1 DEF Pair
      <4>3. MarkBlocked(t) = [pairs EXCEPT ![t[1]] = b]
        BY <3>2 DEF MarkBlocked
      <4> HIDE DEF b
      <4> QED
        BY <1>1, <2>3, <3>2, <4>1, <4>2, <4>3
    <3> QED
      BY <3>1, <3>2
  <2>6. /\ task' \in [RunTasks -> TaskStatuses \cup {None}]
        /\ \A u \in RunTasks \ {t} : task'[u] = task[u]
        /\ task'[t] = task[t] \/ task[t] \notin {"done", None}
    <3> HIDE DEF failed
    <3> QED
      BY <2>1, <2>3, <2>4
  <2>7. \/ pairs' = pairs
        \/ pairs' = MarkBlocked(t)
    BY <2>4
  <2> QED
    BY <1>1, <2>2, <2>5, <2>6, <2>7, OneTaskMoves DEF Gone
<1> QED
  BY <1>2, <1>3, <1>4, <1>5

(* The merge worker: the hook makes pairs and lets them converge, a failed *)
(* test merge gets a fix.                                                  *)
LEMMA MergePairs ==
  ASSUME ConvInv,
         StartMerge \/ CompleteTask \/ DispatchMerge \/ MarkSucceeded \/ FailItem \/ RequeueTask
  PROVE  PairStep
<1>1. /\ ConvTyped /\ task \in [RunTasks -> TaskStatuses \cup {None}]
      /\ pairs \in [Features -> Pair \cup {None}] /\ merging \in Working
      /\ {"done", "failed", "queued"} \subseteq TaskStatuses
      /\ None \notin TaskStatuses /\ \A p \in Pair : p # None
  BY TypesOf, ConvergenceAssumption DEF ConvInv, TaskStatuses
<1>2. CASE StartMerge
  BY <1>2, TasksStay DEF StartMerge
<1>3. CASE MarkSucceeded
  <2>1. UNCHANGED <<task, pairs>> /\ merging'.step # "hook"
    BY <1>3 DEF MarkSucceeded, Idle
  <2> QED
    BY <2>1, TasksStay
<1>4. CASE FailItem
  BY <1>4, TasksStay DEF FailItem
<1>5. CASE CompleteTask
  <2> DEFINE t == merging.task
  <2>1. /\ merging.step = "merge" /\ task' = Moved(t, "done") /\ UNCHANGED pairs
        /\ merging' = [merging EXCEPT !.step = IF Allowed(task[t], "done") THEN "hook" ELSE "succeed"]
    BY <1>5 DEF CompleteTask, Continue
  <2>2. t \in RunTasks
    BY <1>1, <2>1, WorkParts
  <2>3. /\ merging'.task = t
        /\ merging'.step = IF Allowed(task[t], "done") THEN "hook" ELSE "succeed"
    BY <1>1, <2>1, WorkGoesOn
  <2>4. merging'.step = "hook" => task'[merging'.task] = "done"
    BY <1>1, <2>1, <2>2, <2>3 DEF Moved
  <2>5. /\ task' \in [RunTasks -> TaskStatuses \cup {None}]
        /\ \A u \in RunTasks \ {t} : task'[u] = task[u]
        /\ task'[t] = task[t] \/ (task[t] \notin {"done", None} /\ task'[t] = "done")
    <3>1. "done" \in TaskStatuses
      BY <1>1
    <3> QED
      BY <1>1, <2>1, <2>2, <3>1, StatusMoved
  <2>6. /\ \A u \in Features \cup Tests : task[u] = "done" => task'[u] = "done"
        /\ \A i \in Features : task[Test(i)] = None => task'[Test(i)] = None
    BY <2>5, Kinds
  <2> QED
    BY <1>1, <2>1, <2>4, <2>5, <2>6 DEF PairStep, Gone, Converged
<1>6. CASE DispatchMerge
  <2> DEFINE t == merging.task
  <2>1. /\ merging.step = "hook" /\ merging'.step = "succeed"
        /\ t \in RunTasks /\ task[t] = "done"
    <3>1. merging.step = "hook" /\ merging' = [merging EXCEPT !.step = "succeed"]
      BY <1>6 DEF DispatchMerge, Continue
    <3> QED
      BY <1>1, <3>1, WorkParts DEF ConvInv, PairsMade
  <2>2. ASSUME NEW i \in Features, pairs' = MarkConverged(i), UNCHANGED task
        PROVE  PairStep
    <3>1. CASE ~(pairs[i] # None /\ task[Test(i)] = "done")
      BY <2>1, <2>2, <3>1, TasksStay DEF MarkConverged
    <3>2. CASE pairs[i] # None /\ task[Test(i)] = "done"
      <4> DEFINE c == [pairs[i] EXCEPT !.status = "converged"]
      <4>1. c \in Pair
        BY <1>1, <3>2 DEF Pair
      <4>2. pairs' = [pairs EXCEPT ![i] = c]
        BY <2>2, <3>2 DEF MarkConverged
      <4> HIDE DEF c
      <4>3. /\ pairs' \in [Features -> Pair \cup {None}] /\ pairs'[i] # None
            /\ \A j \in Features \ {i} : pairs'[j] = pairs[j]
        BY <1>1, <4>1, <4>2
      <4> QED
        BY <1>1, <2>1, <2>2, <3>2, <4>3 DEF PairStep, Gone, Converged
    <3> QED
      BY <3>1, <3>2
  <2>3. ASSUME t \in Features, CreateTestTask(t)
        PROVE  PairStep
    <3>1. CASE pairs[t] # None \/ Passed(t) = {}
      BY <2>1, <2>3, <3>1, TasksStay DEF CreateTestTask
    <3>2. CASE pairs[t] = None /\ Passed(t) # {}
      <4>1. PICK n : /\ n = CHOOSE m \in Passed(t) : \A k \in Passed(t) : k <= m
                     /\ task' = [task EXCEPT ![Test(t)] = "queued"]
                     /\ pairs' = [pairs EXCEPT ![t] =
                                    [status |-> "testing", family |-> tries[t][n].family,
                                     fix |-> None, iteration |-> 1]]
        BY <2>3, <3>2 DEF CreateTestTask
      <4>2. tries[t][n].family \in Families
        <5>1. n \in Passed(t)
          BY <1>1, <2>1, <3>2, <4>1, LatestPassed
        <5>2. tries[t] \in Seq(Attempt) /\ n \in 1..Len(tries[t])
          BY <1>1, <2>1, <5>1, TypesOf DEF Passed, Last
        <5> QED
          <6>1. tries[t][n] \in Attempt
            BY <5>2
          <6> QED
            BY <6>1 DEF Attempt
      <4> DEFINE new == [status |-> "testing", family |-> tries[t][n].family,
                         fix |-> None, iteration |-> 1]
      <4>3. new \in Pair /\ new.status # "converged"
        BY <4>2 DEF Pair
      <4> HIDE DEF new
      <4>4. /\ pairs' \in [Features -> Pair \cup {None}] /\ pairs'[t] = new /\ pairs'[t] # None
            /\ \A j \in Features \ {t} : pairs'[j] = pairs[j]
        BY <1>1, <2>3, <4>1, <4>3 DEF new
      <4>5. /\ task' \in [RunTasks -> TaskStatuses \cup {None}]
            /\ \A u \in RunTasks \ {Test(t)} : task'[u] = task[u]
            /\ task[Test(t)] = None
        BY <1>1, <2>3, <3>2, <4>1, Kinds DEF ConvInv, PairsMade
      <4>6. /\ \A u \in Features \cup Tests : task[u] = "done" => task'[u] = "done"
            /\ \A i \in Features : task[Test(i)] = None => task'[Test(i)] = None \/ i = t
        <5>1. \A i \in Features \ {t} : Test(i) \in RunTasks \ {Test(t)}
          BY <2>3, Kinds
        <5>2. \A u \in Features \cup Tests : u \in RunTasks
          BY Kinds
        <5>3. "done" # None
          BY <1>1
        <5> QED
          BY <4>5, <5>1, <5>2, <5>3
      <4> QED
        BY <1>1, <2>1, <2>3, <3>2, <4>3, <4>4, <4>5, <4>6 DEF PairStep, Gone, Converged
    <3> QED
      BY <3>1, <3>2
  <2> QED
    BY <1>6, <2>2, <2>3, Kinds DEF DispatchMerge, FixOf
<1>7. CASE RequeueTask
  <2> DEFINE t == merging.task
             failed == IF merging.was = "in_progress" THEN Moved(t, "failed") ELSE task
  <2>1. t \in RunTasks /\ merging'.step # "hook"
    BY <1>1, <1>7, WorkParts DEF RequeueTask, Idle
  <2>2. /\ failed \in [RunTasks -> TaskStatuses \cup {None}]
        /\ \A u \in RunTasks \ {t} : failed[u] = task[u]
        /\ failed[t] = task[t] \/ (failed[t] = "failed" /\ task[t] \notin {"done", None})
    BY <1>1, <2>1, StatusMoved
  <2>3. \/ UNCHANGED <<task, pairs>>
        \/ /\ failed[t] = "failed" /\ t \in Tests /\ pairs[t[1]].iteration < 3 /\ HandleTestFailure(t)
        \/ failed[t] = "failed" /\ task' = [failed EXCEPT ![t] = "queued"] /\ UNCHANGED pairs
    BY <1>7 DEF RequeueTask
  <2>4. failed[t] = "failed" => task[t] \notin {"done", None}
    BY <1>1, <2>2
  <2>5. CASE UNCHANGED <<task, pairs>>
    BY <2>1, <2>5, TasksStay
  <2>6. CASE failed[t] = "failed" /\ task' = [failed EXCEPT ![t] = "queued"] /\ UNCHANGED pairs
    <3>1. /\ task' \in [RunTasks -> TaskStatuses \cup {None}]
          /\ \A u \in RunTasks \ {t} : task'[u] = task[u]
      <4> HIDE DEF failed
      <4> QED
        BY <1>1, <2>2, <2>6
    <3> QED
      BY <1>1, <2>1, <2>4, <2>6, <3>1, OneTaskMoves
  <2>7. CASE failed[t] = "failed" /\ t \in Tests /\ pairs[t[1]].iteration < 3 /\ HandleTestFailure(t)
    <3> DEFINE i == t[1]
               fix == Fix(i, pairs[i].iteration)
               f == [pairs[i] EXCEPT !.fix = fix, !.status = "fixing",
                                     !.iteration = pairs[i].iteration + 1]
               moved == Moved(t, "failed")
    <3>1. i \in Features /\ t = Test(i) /\ task[t] # None /\ task[t] # "done"
      BY <2>4, <2>7, Kinds
    <3>2. pairs[i] \in Pair /\ pairs[i] # None
      BY <1>1, <3>1 DEF ConvInv, PairsMade
    <3>3. pairs[i].iteration \in 1..2
      BY <2>7, <3>2 DEF Pair
    <3>4. fix \in Fixes /\ fix \in RunTasks /\ fix \notin Features /\ fix \notin Tests
      BY <3>1, <3>3, Kinds
    <3>5. f \in Pair /\ f.status # "converged"
      <4> HIDE DEF fix
      <4>1. pairs[i].iteration + 1 \in 1..3
        BY <3>3
      <4> QED
        BY <3>2, <3>4, <4>1 DEF Pair
    <3>6. task' = [moved EXCEPT ![fix] = "queued"] /\ pairs' = [pairs EXCEPT ![i] = f]
      BY <2>7 DEF HandleTestFailure
    <3>7. /\ moved \in [RunTasks -> TaskStatuses \cup {None}]
          /\ \A u \in RunTasks \ {t} : moved[u] = task[u]
      BY <1>1, <2>1, StatusMoved
    <3> HIDE DEF f, fix, moved
    <3>8. /\ pairs' \in [Features -> Pair \cup {None}] /\ pairs'[i] = f /\ pairs'[i] # None
          /\ \A j \in Features \ {i} : pairs'[j] = pairs[j]
      BY <1>1, <3>1, <3>5, <3>6
    <3>9. /\ task' \in [RunTasks -> TaskStatuses \cup {None}]
          /\ \A u \in RunTasks \ {t, fix} : task'[u] = task[u]
      BY <1>1, <3>4, <3>6, <3>7
    <3>10. /\ \A u \in Features \cup Tests : task[u] = "done" => task'[u] = "done"
           /\ \A j \in Features : task[Test(j)] = None => task'[Test(j)] = None
      BY <3>1, <3>4, <3>9, Kinds
    <3> QED
      BY <1>1, <2>1, <3>2, <3>5, <3>8, <3>9, <3>10 DEF PairStep, Gone, Converged
  <2> QED
    BY <2>3, <2>5, <2>6, <2>7
<1> QED
  BY <1>2, <1>3, <1>4, <1>5, <1>6, <1>7

LEMMA PairsStepped ==
  ASSUME ConvInv, [ConvNext]_convVars
  PROVE  PairStep
<1>1. CASE ListPairs \/ CompleteRun \/ UNCHANGED convVars
  BY <1>1, TasksStay DEF ListPairs, CompleteRun, convVars
<1>2. CASE Recover
  <2>1. /\ UNCHANGED pairs /\ merging' = Idle
        /\ \A t \in RunTasks : task'[t] = task[t] \/ (task[t] = "in_progress" /\ task'[t] = "queued")
        /\ task' \in [RunTasks -> TaskStatuses \cup {None}]
    BY <1>2, TypesOf DEF Recover, ConvInv, TaskStatuses
  <2>2. /\ merging'.step # "hook" /\ None # "in_progress"
        /\ pairs \in [Features -> Pair \cup {None}]
    BY <2>1, TypesOf, ConvergenceAssumption DEF Idle, TaskStatuses, ConvInv
  <2> QED
    BY <2>1, <2>2, Kinds DEF PairStep, Gone, Converged
<1> QED
  BY <1>1, <1>2, AttemptPairs, MergePairs DEF ConvNext

-----------------------------------------------------------------------------
(***************************************************************************)
(* The attempts, the queue and its worker.                                 *)
(***************************************************************************)
WorkTyped ==
  /\ tries \in [RunTasks -> Seq(Attempt)] /\ queue \in Seq(RunTasks \X Nat) /\ merging \in Working
  /\ \A k \in 1..Len(queue) : Made(queue[k][1], queue[k][2])
  /\ merging.step \in {"merge", "hook", "succeed"} => Made(merging.task, merging.try)

LEMMA WorkOf ==
  ASSUME ConvTyped
  PROVE  WorkTyped /\ \A t \in RunTasks : Last(t) \in Nat /\ tries[t] \in Seq(Attempt)
BY TypesOf DEF ConvTyped, WorkTyped

(* Rows are added or changed. *)
LEMMA AttemptsGrow ==
  ASSUME WorkTyped, tries' \in [RunTasks -> Seq(Attempt)],
         \A u \in RunTasks : Len(tries'[u]) >= Len(tries[u])
  PROVE  /\ \A u \in RunTasks : \A n : Made(u, n) => Made(u, n)'
         /\ UNCHANGED <<queue, merging>> => WorkTyped'
<1>1. \A u \in RunTasks : Len(tries[u]) \in Nat /\ Len(tries'[u]) \in Nat
  BY DEF WorkTyped
<1>2. \A u \in RunTasks : \A n : Made(u, n) => Made(u, n)'
  BY <1>1 DEF Made, Last
<1>3. \A k \in 1..Len(queue) : queue[k][1] \in RunTasks
  BY DEF WorkTyped
<1>4. merging.step \in {"merge", "hook", "succeed"} => merging.task \in RunTasks
  BY WorkParts DEF WorkTyped
<1>5. ASSUME UNCHANGED <<queue, merging>>
      PROVE  WorkTyped'
  BY <1>2, <1>3, <1>4, <1>5 DEF WorkTyped
<1> QED
  BY <1>2, <1>5

LEMMA ItemAdded ==
  ASSUME WorkTyped, UNCHANGED merging, NEW t \in RunTasks, NEW n, Made(t, n),
         tries' \in [RunTasks -> Seq(Attempt)],
         \A u \in RunTasks : Len(tries'[u]) >= Len(tries[u]),
         queue' = Append(queue, <<t, n>>)
  PROVE  WorkTyped'
<1>1. queue \in Seq(RunTasks \X Nat) /\ n \in Nat
  BY DEF WorkTyped, Made
<1>2. /\ queue' \in Seq(RunTasks \X Nat)
      /\ \A k \in 1..Len(queue') : (k \in 1..Len(queue) /\ queue'[k] = queue[k])
                                   \/ queue'[k] = <<t, n>>
  BY <1>1
<1>3. \A u \in RunTasks : \A m : Made(u, m) => Made(u, m)'
  BY AttemptsGrow
<1>4. \A k \in 1..Len(queue') : Made(queue[k][1], queue[k][2])'
  <2>1. \A k \in 1..Len(queue) : queue[k][1] \in RunTasks /\ Made(queue[k][1], queue[k][2])
    BY DEF WorkTyped
  <2> QED
    BY <1>2, <1>3, <2>1
<1>5. merging.step \in {"merge", "hook", "succeed"} =>
        merging.task \in RunTasks /\ Made(merging.task, merging.try)
  BY WorkParts DEF WorkTyped
<1> QED
  BY <1>2, <1>3, <1>4, <1>5 DEF WorkTyped

LEMMA TailOf ==
  ASSUME NEW S, NEW s \in Seq(S), s # <<>>
  PROVE  Tail(s) \in Seq(S) /\ \A k \in 1..Len(Tail(s)) : k + 1 \in 1..Len(s) /\ Tail(s)[k] = s[k + 1]
<1>1. Tail(s) \in Seq(S) /\ Len(Tail(s)) = Len(s) - 1 /\ Len(s) \in Nat
  OBVIOUS
<1>2. ASSUME NEW k \in 1..Len(Tail(s))
      PROVE  k + 1 \in 1..Len(s) /\ Tail(s)[k] = s[k + 1]
  BY <1>1
<1> QED
  BY <1>1, <1>2

LEMMA AttemptWork ==
  ASSUME ConvInv, NEW t \in RunTasks,
         Dispatch(t) \/ Submit(t) \/ FailAttempt(t) \/ RejectTaskOutput(t) \/ ApproveTaskOutput(t)
  PROVE  WorkTyped'
<1>1. WorkTyped /\ tries \in [RunTasks -> Seq(Attempt)] /\ Last(t) \in Nat
      /\ tries[t] \in Seq(Attempt)
  BY WorkOf DEF ConvInv, WorkTyped
<1>2. CASE Dispatch(t)
  <2>1. PICK f \in SelectModel(GetExcludeFamily(t)) :
          tries' = [tries EXCEPT ![t] =
                      Append(@, [phase |-> "executing", status |-> "running", family |-> f])]
    BY <1>2 DEF Dispatch
  <2> DEFINE a == [phase |-> "executing", status |-> "running", family |-> f]
  <2>2. a \in Attempt
    BY DEF Attempt, SelectModel
  <2> HIDE DEF a
  <2>3. Append(tries[t], a) \in Seq(Attempt) /\ Len(Append(tries[t], a)) = Len(tries[t]) + 1
    BY <1>1, <2>2
  <2>4. tries' = [tries EXCEPT ![t] = Append(tries[t], a)]
    BY <2>1 DEF a
  <2>5. /\ tries' \in [RunTasks -> Seq(Attempt)]
        /\ \A u \in RunTasks : Len(tries'[u]) >= Len(tries[u])
    BY <1>1, <2>3, <2>4
  <2> QED
    BY <1>1, <1>2, <2>5, AttemptsGrow DEF Dispatch
<1>3. CASE Submit(t)
  <2> DEFINE a == [tries[t][Last(t)] EXCEPT !.phase = "queued_for_merge"]
             row == [tries[t] EXCEPT ![Last(t)] = a]
  <2>1. Made(t, Last(t))
    BY <1>1, <1>3 DEF Submit, Open, Made
  <2>2. tries[t][Last(t)] \in Attempt
    BY <1>1, <2>1 DEF Made, Last
  <2>3. a \in Attempt
    BY <2>2 DEF Attempt
  <2> HIDE DEF a
  <2>4. row \in Seq(Attempt) /\ Len(row) = Len(tries[t])
    BY <1>1, <2>1, <2>3 DEF Made, Last
  <2>5. tries' = [tries EXCEPT ![t] = row]
    BY <1>3 DEF Submit, a
  <2> HIDE DEF row
  <2>6. /\ tries' \in [RunTasks -> Seq(Attempt)]
        /\ \A u \in RunTasks : Len(tries'[u]) >= Len(tries[u])
    BY <1>1, <2>4, <2>5
  <2> QED
    BY <1>1, <1>3, <2>1, <2>6, ItemAdded DEF Submit
<1>4. CASE FailAttempt(t) \/ RejectTaskOutput(t)
  <2>1. PICK n \in 1..Last(t) : tries' = Closed(t, n, "failed")
    BY <1>1, <1>4 DEF FailAttempt, RejectTaskOutput, Open
  <2>2. /\ tries' \in [RunTasks -> Seq(Attempt)]
        /\ \A u \in RunTasks : Len(tries'[u]) = Len(tries[u])
    BY <1>1, <2>1, AttemptClosed
  <2>3. \A u \in RunTasks : Len(tries'[u]) >= Len(tries[u])
    BY <1>1, <2>2 DEF WorkTyped
  <2> QED
    BY <1>1, <1>4, <2>2, <2>3, AttemptsGrow DEF FailAttempt, RejectTaskOutput
<1>5. CASE ApproveTaskOutput(t)
  <2>1. PICK n \in 1..Last(t) : queue' = Append(queue, <<t, n>>)
    BY <1>5 DEF ApproveTaskOutput
  <2>2. UNCHANGED <<tries, merging>> /\ \A u \in RunTasks : Len(tries'[u]) >= Len(tries[u])
    BY <1>1, <1>5 DEF ApproveTaskOutput
  <2> QED
    BY <1>1, <2>1, <2>2, ItemAdded DEF Made
<1> QED
  BY <1>2, <1>3, <1>4, <1>5

LEMMA MergeWork ==
  ASSUME ConvInv,
         StartMerge \/ CompleteTask \/ DispatchMerge \/ MarkSucceeded \/ FailItem \/ RequeueTask
  PROVE  WorkTyped'
<1>1. /\ WorkTyped /\ tries \in [RunTasks -> Seq(Attempt)] /\ queue \in Seq(RunTasks \X Nat)
      /\ \A k \in 1..Len(queue) : Made(queue[k][1], queue[k][2])
      /\ (\A u \in RunTasks : Len(tries[u]) \in Nat) /\ merging \in Working
  BY WorkOf DEF ConvInv, WorkTyped
<1>2. CASE StartMerge
  <2> DEFINE t == Head(queue)[1]
             n == Head(queue)[2]
  <2>1. /\ queue # <<>> /\ queue' = Tail(queue)
        /\ merging' = [step |-> "merge", task |-> t, try |-> n]
        /\ tries' = IF tries[t][n].phase # "queued_for_merge" THEN tries
                    ELSE [tries EXCEPT ![t][n].phase = "merging"]
    BY <1>2 DEF StartMerge
  <2>2. t \in RunTasks /\ n \in Nat /\ Made(t, n)
    <3>1. Head(queue) = queue[1] /\ 1 \in 1..Len(queue) /\ queue[1] \in RunTasks \X Nat
      BY <1>1, <2>1
    <3>2. Made(queue[1][1], queue[1][2])
      BY <1>1, <3>1
    <3> QED
      BY <3>1, <3>2
  <2>3. /\ tries' \in [RunTasks -> Seq(Attempt)]
        /\ \A u \in RunTasks : Len(tries'[u]) = Len(tries[u])
    <3> DEFINE a == [tries[t][n] EXCEPT !.phase = "merging"]
               row == [tries[t] EXCEPT ![n] = a]
    <3>1. tries[t] \in Seq(Attempt) /\ tries[t][n] \in Attempt
      BY <1>1, <2>2 DEF Made, Last
    <3>2. a \in Attempt
      BY <3>1 DEF Attempt
    <3>3. tries' = tries \/ tries' = [tries EXCEPT ![t] = row]
      BY <2>1
    <3> HIDE DEF a
    <3>4. row \in Seq(Attempt) /\ Len(row) = Len(tries[t])
      BY <2>2, <3>1, <3>2 DEF Made, Last
    <3> HIDE DEF row
    <3> QED
      BY <1>1, <2>2, <3>3, <3>4
  <2>4. \A u \in RunTasks : \A m : Made(u, m) => Made(u, m)'
    BY <1>1, <2>3, AttemptsGrow
  <2> HIDE DEF t, n
  <2>5. /\ merging' \in Working /\ merging'.task = t /\ merging'.try = n
    BY <2>1, <2>2 DEF Working
  <2>6. /\ queue' \in Seq(RunTasks \X Nat)
        /\ \A k \in 1..Len(queue') : k + 1 \in 1..Len(queue) /\ queue'[k] = queue[k + 1]
    BY <1>1, <2>1, TailOf
  <2>7. \A k \in 1..Len(queue') : Made(queue[k][1], queue[k][2])'
    <3>1. \A k \in 1..Len(queue) : queue[k][1] \in RunTasks
      BY <1>1
    <3> QED
      BY <1>1, <2>4, <2>6, <3>1
  <2> QED
    BY <2>2, <2>3, <2>4, <2>5, <2>6, <2>7 DEF WorkTyped
<1>3. ASSUME UNCHANGED queue, tries' \in [RunTasks -> Seq(Attempt)],
             \A u \in RunTasks : Len(tries'[u]) = Len(tries[u]), merging' \in Working,
             \/ merging'.step \notin {"merge", "hook", "succeed"}
             \/ /\ merging.step \in {"merge", "hook", "succeed"}
                /\ merging'.task = merging.task /\ merging'.try = merging.try
      PROVE  WorkTyped'
  <2>1. \A u \in RunTasks : \A m : Made(u, m) => Made(u, m)'
    BY <1>1, <1>3, AttemptsGrow
  <2>2. \A k \in 1..Len(queue) : queue[k][1] \in RunTasks
    BY <1>1
  <2>3. merging.step \in {"merge", "hook", "succeed"} =>
          merging.task \in RunTasks /\ Made(merging.task, merging.try)
    BY <1>1, WorkParts DEF WorkTyped
  <2> QED
    BY <1>1, <1>3, <2>1, <2>2, <2>3 DEF WorkTyped
<1>4. CASE CompleteTask \/ DispatchMerge
  <2>1. PICK s \in {"hook", "succeed"} : merging' = [merging EXCEPT !.step = s]
    BY <1>4 DEF CompleteTask, DispatchMerge, Continue
  <2>2. merging.step \in {"merge", "hook"} /\ UNCHANGED <<queue, tries>>
    BY <1>4 DEF CompleteTask, DispatchMerge
  <2>3. /\ merging' \in Working /\ merging'.task = merging.task /\ merging'.try = merging.try
    <3>1. merging.step \in {"merge", "hook", "succeed"} /\ s \in {"merge", "hook", "succeed"}
      BY <2>2
    <3> QED
      BY <1>1, <2>1, <3>1, WorkGoesOn
  <2> QED
    BY <1>1, <1>3, <2>2, <2>3
<1>5. CASE MarkSucceeded \/ FailItem
  <2>1. /\ merging.step \in {"merge", "succeed"} /\ UNCHANGED queue
        /\ \E phase \in {"succeeded", "failed"} :
             tries' = Closed(merging.task, merging.try, phase)
    BY <1>5 DEF MarkSucceeded, FailItem
  <2>2. merging.task \in RunTasks /\ merging.try \in 1..Last(merging.task)
    BY <1>1, <2>1, WorkParts DEF WorkTyped, Made
  <2>3. /\ tries' \in [RunTasks -> Seq(Attempt)]
        /\ \A u \in RunTasks : Len(tries'[u]) = Len(tries[u])
    BY <1>1, <2>1, <2>2, AttemptClosed
  <2>4. task[merging.task] \in TaskStatuses \cup {None}
    BY <2>2, TypesOf DEF ConvInv
  <2>5. merging' \in Working /\ merging'.step \in {"idle", "requeue"}
    BY <1>5, <2>2, <2>4 DEF MarkSucceeded, FailItem, Working, Idle
  <2> QED
    BY <1>3, <2>1, <2>3, <2>5
<1>6. CASE RequeueTask
  <2>1. UNCHANGED <<queue, tries>> /\ merging' = Idle
    BY <1>6 DEF RequeueTask
  <2>2. Idle \in Working /\ Idle.step = "idle"
    BY DEF Working, Idle
  <2> QED
    BY <1>1, <1>3, <2>1, <2>2
<1> QED
  BY <1>2, <1>4, <1>5, <1>6

LEMMA WorkStepped ==
  ASSUME ConvInv, [ConvNext]_convVars
  PROVE  WorkTyped'
<1>1. /\ WorkTyped /\ tries \in [RunTasks -> Seq(Attempt)]
      /\ \A u \in RunTasks : Last(u) \in Nat /\ tries[u] \in Seq(Attempt)
  BY WorkOf DEF ConvInv, WorkTyped
<1>2. CASE ListPairs \/ CompleteRun \/ UNCHANGED convVars
  <2>1. UNCHANGED <<tries, queue, merging>>
    BY <1>2 DEF ListPairs, CompleteRun, convVars
  <2>2. \A u \in RunTasks : Len(tries'[u]) >= Len(tries[u])
    BY <1>1, <2>1 DEF Last
  <2> QED
    BY <1>1, <2>1, <2>2, AttemptsGrow
<1>3. CASE Recover
  <2> DEFINE stale == {t \in RunTasks : task[t] = "in_progress" /\ Last(t) > 0
                                   /\ tries[t][Last(t)].phase \notin {"succeeded", "failed"}}
  <2>1. /\ queue' = <<>> /\ merging' = Idle
        /\ tries' = [t \in RunTasks |-> IF t \in stale THEN Closed(t, Last(t), "failed")[t]
                                        ELSE tries[t]]
    BY <1>3 DEF Recover
  <2>2. \A t \in RunTasks : t \in stale => Closed(t, Last(t), "failed")[t] \in Seq(Attempt)
    <3>1. \A t \in RunTasks : t \in stale => Last(t) \in 1..Last(t)
      BY <1>1
    <3> HIDE DEF stale
    <3>2. ASSUME NEW t \in RunTasks, t \in stale
          PROVE  Closed(t, Last(t), "failed") \in [RunTasks -> Seq(Attempt)]
      BY <1>1, <3>1, <3>2, AttemptClosed
    <3> QED
      BY <3>2
  <2> HIDE DEF stale
  <2>3. tries' \in [RunTasks -> Seq(Attempt)]
    BY <1>1, <2>1, <2>2
  <2>4. merging' \in Working /\ merging'.step = "idle"
    BY <2>1 DEF Working, Idle
  <2> QED
    BY <2>1, <2>3, <2>4 DEF WorkTyped
<1> QED
  BY <1>1, <1>2, <1>3, AttemptWork, MergeWork DEF ConvNext

-----------------------------------------------------------------------------
(***************************************************************************)
(* The invariant.                                                          *)
(***************************************************************************)
LEMMA RestTyped ==
  ASSUME ConvInv, [ConvNext]_convVars
  PROVE  /\ run' \in {"active", "completed"} /\ seen' \in (SUBSET Features) \cup {None}
         /\ requests' \in 0..MaxRequests /\ crashed' \in BOOLEAN
<1>1. /\ run \in {"active", "completed"} /\ seen \in (SUBSET Features) \cup {None}
      /\ requests \in 0..MaxRequests /\ crashed \in BOOLEAN /\ MaxRequests \in Nat
  BY ConvergenceAssumption DEF ConvInv, ConvTyped, ConvTypeOK
<1>2. ASSUME NEW t \in RunTasks, RejectTaskOutput(t) \/ ApproveTaskOutput(t)
      PROVE  requests' \in 0..MaxRequests /\ UNCHANGED <<run, seen, crashed>>
  BY <1>1, <1>2 DEF RejectTaskOutput, ApproveTaskOutput
<1>3. ASSUME NEW t \in RunTasks, Dispatch(t) \/ Submit(t) \/ FailAttempt(t)
      PROVE  UNCHANGED <<run, seen, requests, crashed>>
  BY <1>3 DEF Dispatch, Submit, FailAttempt
<1>4. ASSUME StartMerge \/ CompleteTask \/ DispatchMerge \/ MarkSucceeded \/ FailItem \/ RequeueTask
      PROVE  UNCHANGED <<run, seen, requests, crashed>>
  BY <1>4 DEF StartMerge, CompleteTask, DispatchMerge, MarkSucceeded, FailItem, RequeueTask
<1>5. CASE ListPairs \/ CompleteRun \/ Recover
  BY <1>1, <1>5 DEF ListPairs, CompleteRun, Recover, Listed
<1>6. CASE UNCHANGED convVars
  BY <1>1, <1>6 DEF convVars
<1> QED
  BY <1>1, <1>2, <1>3, <1>4, <1>5, <1>6 DEF ConvNext

(* What CompleteRun listed is forgotten, or of pairs that had converged. *)
LEMMA SeenStep ==
  ASSUME ConvInv, [ConvNext]_convVars
  PROVE  \/ seen' = None \/ seen' = seen
         \/ seen' = Listed /\ \A i \in Listed : pairs[i].status = "converged"
<1>1. ASSUME NEW t \in RunTasks,
             \/ Dispatch(t) \/ Submit(t) \/ FailAttempt(t)
             \/ RejectTaskOutput(t) \/ ApproveTaskOutput(t)
      PROVE  seen' = seen
  BY <1>1 DEF Dispatch, Submit, FailAttempt, RejectTaskOutput, ApproveTaskOutput
<1>2. ASSUME StartMerge \/ CompleteTask \/ DispatchMerge \/ MarkSucceeded \/ FailItem \/ RequeueTask
      PROVE  seen' = seen
  BY <1>2 DEF StartMerge, CompleteTask, DispatchMerge, MarkSucceeded, FailItem, RequeueTask
<1> QED
  BY <1>1, <1>2 DEF ConvNext, ListPairs, CompleteRun, Recover, convVars

LEMMA ConvKept ==
  ASSUME ConvInv, [ConvNext]_convVars
  PROVE  ConvInv'
<1>1. PairStep /\ WorkTyped'
  BY PairsStepped, WorkStepped
<1>2. ConvTyped'
  <2>1. merging'.step \in {"idle", "merge", "hook", "succeed", "requeue"}
    BY <1>1, WorkParts DEF WorkTyped
  <2>2. \A t \in RunTasks : tries'[t] \in Seq(Attempt)
    BY <1>1 DEF WorkTyped
  <2> QED
    BY <1>1, <2>1, <2>2, RestTyped DEF ConvTyped, ConvTypeOK, WorkTyped, PairStep
<1>3. PairsMade'
  <2>1. \A i \in Features : pairs'[i] = None => pairs[i] = None /\ task'[Test(i)] = None
    BY <1>1 DEF PairStep, Gone, ConvInv, PairsMade
  <2>2. \A i \in Features : pairs'[i] # None => task[i] = "done"
    BY <1>1 DEF PairStep, Gone, ConvInv, PairsMade
  <2> QED
    BY <1>1, <2>1, <2>2 DEF PairStep, PairsMade
<1>4. ConvergedIsTested'
  <2>1. \A i \in Features : Test(i) \in Tests
    BY Kinds
  <2>2. \A i \in Features : Converged(i)' => task'[Test(i)] = "done"
    BY <1>1, <2>1 DEF PairStep, Converged, ConvInv, ConvergedIsTested
  <2>3. ASSUME seen' # None, NEW i \in seen'
        PROVE  pairs'[i] # None /\ task'[Test(i)] = "done"
    <3>1. i \in Features
      BY <2>3, RestTyped
    <3>2. pairs[i] # None /\ task[Test(i)] = "done"
      BY <2>3, SeenStep DEF ConvInv, ConvergedIsTested, Listed
    <3> QED
      BY <1>1, <2>1, <3>1, <3>2 DEF PairStep, Gone
  <2> QED
    BY <2>2, <2>3 DEF ConvergedIsTested, Converged
<1> QED
  BY <1>2, <1>3, <1>4 DEF ConvInv

LEMMA ConvStarts ==
  ASSUME ConvInit
  PROVE  ConvInv
<1>1. ConvTyped
  <2>1. \A t \in RunTasks : tries[t] \in Seq(Attempt)
    BY DEF ConvInit
  <2>2. tries \in [RunTasks -> Seq(Attempt)]
    BY DEF ConvInit
  <2>3. merging \in Working /\ merging.step = "idle" /\ queue = <<>>
    BY DEF ConvInit, Working, Idle
  <2>4. task \in [RunTasks -> TaskStatuses \cup {None}]
    BY DEF ConvInit, TaskStatuses
  <2>5. pairs \in [Features -> Pair \cup {None}]
    BY DEF ConvInit
  <2>6. queue \in Seq(RunTasks \X Nat) /\ 1..Len(queue) = {}
    BY <2>3
  <2>7. /\ run \in {"active", "completed"} /\ seen \in (SUBSET Features) \cup {None}
        /\ requests \in 0..MaxRequests /\ crashed \in BOOLEAN
    <3>1. MaxRequests \in Nat /\ 0 \in 0..MaxRequests
      BY ConvergenceAssumption
    <3> QED
      BY <3>1 DEF ConvInit
  <2>8. ConvTypeOK
    BY <2>1, <2>3, <2>4, <2>5, <2>6, <2>7 DEF ConvTypeOK
  <2> QED
    BY <2>2, <2>3, <2>6, <2>8 DEF ConvTyped
<1>2. PairsMade /\ ConvergedIsTested
  BY Kinds DEF ConvInit, PairsMade, ConvergedIsTested, Idle
<1> QED
  BY <1>1, <1>2 DEF ConvInv

LEMMA ConvAlways == ConvSpec => []ConvInv
<1>1. ConvInit => ConvInv
  BY ConvStarts
<1>2. ConvInv /\ [ConvNext]_convVars => ConvInv'
  BY ConvKept
<1> QED
  BY <1>1, <1>2, PTL DEF ConvSpec

(***************************************************************************)
(* The rows of tasks, attempts and pairs, the queue and its worker stay    *)
(* well formed, for any tasks, families, attempts and requests             *)
(* (state/models.go, testgen/testgen.go).                                  *)
(***************************************************************************)
THEOREM ConvergenceTypes == ConvSpec => []ConvTypeOK
<1>1. ConvInv => ConvTypeOK
  BY DEF ConvInv, ConvTyped
<1> QED
  BY <1>1, ConvAlways, PTL

(***************************************************************************)
(* When CompleteRun writes the status, every pair it listed still has its  *)
(* implementation and its tests merged, whatever merges, failures,         *)
(* requests and crashes came after the list (run.go:CompleteRun,           *)
(* testgen.go:MarkConverged).                                              *)
(***************************************************************************)
THEOREM ConvergenceCorrect == ConvSpec => CompletedIsTested
<1>1. ConvInv /\ [ConvNext]_convVars => [CompletesTested]_convVars
  <2> SUFFICES ASSUME ConvInv, [ConvNext]_convVars, CompleteRun
               PROVE  \A i \in seen : task[i] = "done" /\ task[Test(i)] = "done"
    BY DEF CompletesTested
  <2>1. seen # None /\ seen \in SUBSET Features
    BY DEF CompleteRun, ConvInv, ConvTyped, ConvTypeOK
  <2> QED
    BY <2>1 DEF ConvInv, PairsMade, ConvergedIsTested
<1> QED
  BY <1>1, ConvAlways, PTL DEF ConvSpec, CompletedIsTested
===============================================================================
