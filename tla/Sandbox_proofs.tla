---------------------------- MODULE Sandbox_proofs ----------------------------
(***************************************************************************)
(* Every container is stopped by somebody, and what is merged for an       *)
(* attempt is what its own worker wrote.                                   *)
(***************************************************************************)
EXTENDS SandboxInv, TLAPS, FiniteSetTheorems

-----------------------------------------------------------------------------
(* Types. *)

LEMMA NamesOfContainers ==
  ASSUME NEW t \in Tasks
  PROVE  /\ \A n \in Nat : Meeseeks(t, n) \in Names
         /\ Validator(t) \in Names /\ Validator(MergeQueue) \in Names /\ Reviewer(t) \in Names
BY DEF Names, Meeseeks, Validator, Reviewer

LEMMA TypesStart ==
  ASSUME Init
  PROVE  BoxTyped
<1>1. TypeOK
  BY SandboxAssumption DEF Init, TypeOK
<1>2. /\ num \in [Tasks -> Nat]
      /\ did = [t \in Tasks |-> did[t]] /\ \A t \in Tasks : did[t] \in [1..Attempts[t] -> Progress]
      /\ staging \in [Tasks -> SUBSET Outputs] /\ artifacts \in [Tasks -> SUBSET Outputs]
  BY DEF Init, Progress, Sent
<1>3. /\ outbox = [t \in Tasks |-> outbox[t]]
      /\ merged \subseteq Tasks \X Nat \X SUBSET Outputs
      /\ detached \in [s : SUBSET rows, i : SUBSET rows]
      /\ running \in BOOLEAN /\ faults \in Nat
  BY DEF Init
<1> QED
  BY <1>1, <1>2, <1>3 DEF BoxTyped

(* What starting and stopping a container does to the tables of Docker and  *)
(* of the engine.                                                          *)
LEMMA Started ==
  ASSUME BoxTyped, NEW c, StartOK(c) \/ StartFails(c), c \in Names
  PROVE  /\ rows' \subseteq Names /\ open' \subseteq rows' /\ up' \subseteq rows' /\ faults' \in Nat
         /\ rows \subseteq rows' /\ rows' \subseteq rows \cup {c} /\ c \in rows'
         /\ up \subseteq up' /\ open \subseteq open' /\ up' \subseteq up \cup {c}
         /\ StartFails(c) => up' = up /\ open' = open
BY DEF BoxTyped, TypeOK, StartOK, StartFails, docker

LEMMA Stopped ==
  ASSUME BoxTyped, NEW c, Stop(c)
  PROVE  /\ rows' = rows /\ open' \subseteq rows /\ up' \subseteq up /\ stray' \subseteq rows
         /\ faults' \in Nat
         /\ stray \subseteq stray' /\ up \subseteq up' \cup {c} /\ open \subseteq open' \cup {c}
         /\ c \notin up' \/ c \in stray'
BY DEF BoxTyped, TypeOK, Stop, StopOK, StopFails, docker

(* Removing a task's directories. *)
LEMMA Cleaned ==
  ASSUME BoxTyped, NEW t \in Tasks, CleanupTaskDirs(t),
         up' \subseteq rows', rows \subseteq rows', num' = num
  PROVE  /\ did' = did
         /\ staging' \in [Tasks -> SUBSET Outputs]
         /\ outbox' = [u \in Tasks |-> outbox'[u]] /\ \A u \in Tasks : outbox'[u] \subseteq 1..num'[u]
         /\ detached' \in [s : SUBSET rows', i : SUBSET rows']
<1>1. /\ did' = did
      /\ staging' = [staging EXCEPT ![t] = {}] /\ outbox' = [outbox EXCEPT ![t] = {}]
      /\ \E w \in SUBSET up' : detached' = [s |-> detached.s \cup w, i |-> detached.i \cup w]
  BY DEF CleanupTaskDirs
<1>2. detached' \in [s : SUBSET rows', i : SUBSET rows']
  BY <1>1 DEF BoxTyped
<1>3. staging' \in [Tasks -> SUBSET Outputs]
  BY <1>1 DEF BoxTyped
<1>4. outbox' = [u \in Tasks |-> outbox'[u]] /\ \A u \in Tasks : outbox'[u] \subseteq 1..num'[u]
  BY <1>1 DEF BoxTyped, TypeOK
<1> QED
  BY <1>1, <1>2, <1>3, <1>4

LEMMA TypesKept ==
  ASSUME BoxTyped, \A t \in Tasks : Numbered(t), [Next]_vars
  PROVE  BoxTyped'
<1> DEFINE Tags == {"idle", "executing", "output", "validating", "checked", "reviewing", "queued",
                    "failing", "cleaning", "merged"}
           Goes(t) == \E to \in Tags : at' = [at EXCEPT ![t] = to]
           Dirs == UNCHANGED <<num, did, staging, outbox, detached>>
           Queues == UNCHANGED <<ending, artifacts, queue, merging, merged>>
           Past == UNCHANGED <<misread, running, crashes>>
           Engines == /\ rows' \subseteq Names /\ open' \subseteq rows' /\ up' \subseteq rows'
                      /\ rows \subseteq rows' /\ stray' \subseteq rows' /\ faults' \in Nat
<1>0. ASSUME NEW t \in Tasks, Goes(t)
      PROVE  at' \in [Tasks -> Tags]
  BY <1>0 DEF BoxTyped, TypeOK
<1>a. ASSUME at' \in [Tasks -> Tags], Dirs, Past, Engines,
             UNCHANGED <<ending, queue, merging, merged>>, artifacts' \in [Tasks -> SUBSET Outputs]
      PROVE  BoxTyped'
  BY <1>a DEF BoxTyped, TypeOK
<1>1. ASSUME NEW t \in Tasks, StartMeeseeks(t) PROVE BoxTyped'
  <2> DEFINE c == Meeseeks(t, num'[t])
  <2>1. /\ num'[t] \in 1..Attempts[t] /\ num' \in [Tasks -> Nat] /\ num'[t] = num[t] + 1
        /\ \A u \in Tasks \ {t} : num'[u] = num[u]
    <3>1. /\ num \in [Tasks -> Nat] /\ num[t] \in 0..Attempts[t] /\ Attempts[t] \in Nat
          /\ num[t] < Attempts[t] /\ num' = [num EXCEPT ![t] = @ + 1]
      BY <1>1, SandboxAssumption DEF StartMeeseeks, BoxTyped, TypeOK
    <3> QED
      BY <3>1
  <2>2. c \in Names /\ (StartOK(c) \/ StartFails(c)) /\ Goes(t)
    BY <1>1, <2>1, NamesOfContainers DEF StartMeeseeks, Go
  <2>3. UNCHANGED <<did, staging, outbox, detached, stray>> /\ Queues /\ Past
    BY <1>1 DEF StartMeeseeks, dirs, mergeq, past
  <2>4. Engines
    <3> HIDE DEF c
    <3> QED
      BY <2>2, <2>3, Started DEF BoxTyped, TypeOK
  <2>5. at' \in [Tasks -> Tags]
    BY <1>0, <2>2
  <2>6. \A u \in Tasks : num'[u] \in 0..Attempts[u] /\ outbox'[u] \subseteq 1..num'[u]
    <3>1. \A u \in Tasks : num[u] \in Nat /\ num[u] \in 0..Attempts[u] /\ outbox[u] \subseteq 1..num[u]
      BY DEF BoxTyped, TypeOK
    <3>2. \A u \in Tasks : num'[u] \in 0..Attempts[u] /\ num'[u] >= num[u] /\ num'[u] \in Nat
      <4>1. \A u \in Tasks : Attempts[u] \in Nat
        BY SandboxAssumption
      <4> QED
        BY <2>1, <3>1, <4>1
    <3> QED
      BY <2>3, <3>1, <3>2
  <2> HIDE DEF c, Goes
  <2> QED
    BY <2>1, <2>3, <2>4, <2>5, <2>6 DEF BoxTyped, TypeOK
<1>2. ASSUME NEW t \in Tasks, ReadOutput(t) PROVE BoxTyped'
  <2>1. PICK n \in outbox[t] :
          /\ Go(t, "executing", "output")
          /\ outbox' = [outbox EXCEPT ![t] = @ \ {n}]
          /\ misread' = misread \/ misread' = misread \cup {<<t, num[t]>>}
          /\ UNCHANGED <<num, did, staging, detached, docker, ending, artifacts, queue, merging, merged,
                         stray, running, crashes, faults>>
    BY <1>2 DEF ReadOutput, mergeq
  <2>2. at' \in [Tasks -> Tags]
    BY <1>0, <2>1 DEF Go
  <2>3. outbox' = [u \in Tasks |-> outbox'[u]] /\ \A u \in Tasks : outbox'[u] \subseteq 1..num'[u]
    BY <2>1 DEF BoxTyped, TypeOK
  <2>4. misread' \subseteq Tasks \X Nat
    BY <2>1 DEF BoxTyped, TypeOK
  <2> HIDE DEF Goes
  <2> QED
    BY <2>1, <2>2, <2>3, <2>4 DEF BoxTyped, TypeOK, docker
<1>3. ASSUME NEW t \in Tasks, TimeOut(t) \/ StartValidator(t) \/ RunChecks(t) PROVE BoxTyped'
  <2>1. /\ Goes(t) /\ Dirs /\ Past /\ UNCHANGED <<ending, queue, merging, merged>>
        /\ artifacts' = artifacts \/ artifacts' = [artifacts EXCEPT ![t] = staging[t]]
    BY <1>3 DEF TimeOut, StartValidator, RunChecks, Go, dirs, mergeq, past
  <2>2. Engines
    <3>1. CASE UNCHANGED <<docker, faults, stray>>
      BY <3>1 DEF BoxTyped, TypeOK, docker
    <3>2. CASE UNCHANGED stray /\ (StartOK(Validator(t)) \/ StartFails(Validator(t)))
      BY <3>2, NamesOfContainers, Started DEF BoxTyped, TypeOK
    <3>3. CASE Stop(Validator(t))
      BY <3>3, Stopped DEF BoxTyped, TypeOK
    <3> QED
      BY <1>3, <3>1, <3>2, <3>3 DEF TimeOut, StartValidator, RunChecks, StopAfterChecks
  <2> QED
    <3>1. artifacts' \in [Tasks -> SUBSET Outputs]
      BY <2>1 DEF BoxTyped
    <3> HIDE DEF Goes
    <3> QED
      BY <1>0, <1>a, <2>1, <2>2, <3>1
<1>4. ASSUME NEW t \in Tasks, StartReviewer(t) \/ RunReview(t) PROVE BoxTyped'
  <2>1. Goes(t) /\ Dirs /\ Past /\ UNCHANGED <<artifacts, merging, merged>>
    BY <1>4 DEF StartReviewer, RunReview, Go, dirs, mergeq, past
  <2>2. Engines
    <3>1. CASE UNCHANGED stray /\ (StartOK(Reviewer(t)) \/ StartFails(Reviewer(t)))
      BY <3>1, NamesOfContainers, Started DEF BoxTyped, TypeOK
    <3>2. CASE Stop(Reviewer(t))
      BY <3>2, Stopped DEF BoxTyped, TypeOK
    <3> QED
      BY <1>4, <3>1, <3>2 DEF StartReviewer, RunReview
  <2>3. queue' = queue \/ queue' = Append(queue, [task |-> t, attempt |-> num[t]])
    BY <1>4 DEF StartReviewer, RunReview, mergeq
  <2>4. queue' \in Seq(QueueItem)
    <3>1. [task |-> t, attempt |-> num[t]] \in QueueItem /\ queue \in Seq(QueueItem)
      BY DEF BoxTyped, TypeOK, QueueItem
    <3> QED
      BY <2>3, <3>1
  <2>5. ending' = ending \/ ending' = ending \cup {Meeseeks(t, num[t])}
    BY <1>4 DEF StartReviewer, RunReview
  <2>6. ending' \subseteq Names
    BY <2>5, NamesOfContainers DEF BoxTyped, TypeOK
  <2>7. at' \in [Tasks -> Tags]
    BY <1>0, <2>1
  <2> HIDE DEF Goes
  <2> QED
    BY <2>1, <2>2, <2>4, <2>6, <2>7 DEF BoxTyped, TypeOK
<1>5. ASSUME NEW t \in Tasks, FailAttempt(t) PROVE BoxTyped'
  <2>1. Goes(t) /\ Queues /\ Past /\ UNCHANGED num /\ CleanupTaskDirs(t)
    BY <1>5 DEF FailAttempt, Go, mergeq, past
  <2>2. Engines
    <3>1. CASE UNCHANGED <<docker, faults, stray>>
      BY <3>1 DEF BoxTyped, TypeOK, docker
    <3>2. CASE Stop(Meeseeks(t, num[t]))
      BY <3>2, Stopped DEF BoxTyped, TypeOK
    <3> QED
      BY <1>5, <3>1, <3>2 DEF FailAttempt
  <2>3. at' \in [Tasks -> Tags]
    BY <1>0, <2>1
  <2>4. /\ did' = did /\ staging' \in [Tasks -> SUBSET Outputs]
        /\ outbox' = [u \in Tasks |-> outbox'[u]] /\ \A u \in Tasks : outbox'[u] \subseteq 1..num'[u]
        /\ detached' \in [s : SUBSET rows', i : SUBSET rows']
    BY <2>1, <2>2, Cleaned
  <2> HIDE DEF Goes
  <2> QED
    BY <2>1, <2>2, <2>3, <2>4 DEF BoxTyped, TypeOK
<1>6. ASSUME NEW c \in ending, StopApproved(c) PROVE BoxTyped'
  <2>1. Dirs /\ Past /\ UNCHANGED <<at, artifacts, queue, merging, merged>> /\ ending' \subseteq ending
    BY <1>6 DEF StopApproved, dirs, mergeq, past
  <2>2. Engines
    BY <1>6, Stopped DEF StopApproved, BoxTyped, TypeOK
  <2> QED
    BY <2>1, <2>2 DEF BoxTyped, TypeOK
<1>7. ASSUME NEW t \in Tasks, NEW n \in 1..Attempts[t],
             WriteDraft(t, n) \/ WriteFinal(t, n) \/ SendOutput(t, n) \/ Rewrite(t, n)
      PROVE  BoxTyped'
  <2>1. /\ UNCHANGED <<at, num, detached, docker, ending, artifacts, queue, merging, merged, stray,
                       misread, running, crashes, faults>>
        /\ Meeseeks(t, n) \in up
        /\ \E to \in Progress : did' = [did EXCEPT ![t][n] = to]
    BY <1>7 DEF WriteDraft, WriteFinal, SendOutput, Rewrite, Work, mergeq, past, Progress, Sent
  <2>2. did' = [u \in Tasks |-> did'[u]] /\ \A u \in Tasks : did'[u] \in [1..Attempts[u] -> Progress]
    <3>1. PICK to \in Progress : did' = [did EXCEPT ![t][n] = to]
      BY <2>1
    <3>2. did = [u \in Tasks |-> did[u]] /\ did[t] \in [1..Attempts[t] -> Progress]
      BY DEF BoxTyped
    <3>3. /\ did' = [u \in Tasks |-> did'[u]] /\ did'[t] = [did[t] EXCEPT ![n] = to]
          /\ \A u \in Tasks \ {t} : did'[u] = did[u]
      BY <3>1, <3>2
    <3>4. did'[t] \in [1..Attempts[t] -> Progress]
      BY <3>2, <3>3
    <3> QED
      BY <3>3, <3>4 DEF BoxTyped
  <2>3. \/ staging' = staging
        \/ \E old \in SUBSET staging[t], x \in {<<n, "draft">>, <<n, "final">>, <<n, "later">>} :
             staging' = [staging EXCEPT ![t] = old \cup {x}]
    <3>1. CASE WriteDraft(t, n)
      BY <3>1 DEF WriteDraft
    <3>2. CASE WriteFinal(t, n)
      BY <3>2 DEF WriteFinal
    <3>3. CASE SendOutput(t, n)
      BY <3>3 DEF SendOutput
    <3>4. CASE Rewrite(t, n)
      BY <3>4 DEF Rewrite
    <3> QED
      BY <1>7, <3>1, <3>2, <3>3, <3>4
  <2>4. n \in Nat /\ n \in 1..num[t]
    BY <2>1 DEF BoxTyped, TypeOK, Numbered
  <2>5. staging' \in [Tasks -> SUBSET Outputs]
    <3>1. \A x \in {<<n, "draft">>, <<n, "final">>, <<n, "later">>} : x \in Outputs
      BY <2>4 DEF Outputs
    <3>2. staging \in [Tasks -> SUBSET Outputs]
      BY DEF BoxTyped
    <3>3. ASSUME NEW old \in SUBSET staging[t], NEW x \in Outputs,
                 staging' = [staging EXCEPT ![t] = old \cup {x}]
          PROVE  staging' \in [Tasks -> SUBSET Outputs]
      <4>1. old \cup {x} \in SUBSET Outputs
        BY <3>2
      <4> QED
        BY <3>2, <3>3, <4>1
    <3> QED
      BY <2>3, <3>1, <3>2, <3>3
  <2>6. outbox' = [u \in Tasks |-> outbox'[u]] /\ \A u \in Tasks : outbox'[u] \subseteq 1..num'[u]
    <3>1. outbox' = outbox \/ outbox' = [outbox EXCEPT ![t] = @ \cup {n}]
      BY <1>7 DEF WriteDraft, WriteFinal, SendOutput, Rewrite
    <3> QED
      <4>1. outbox = [u \in Tasks |-> outbox[u]] /\ \A u \in Tasks : outbox[u] \subseteq 1..num[u]
        BY DEF BoxTyped, TypeOK
      <4>2. outbox' = [u \in Tasks |-> outbox'[u]] /\ \A u \in Tasks \ {t} : outbox'[u] = outbox[u]
        BY <3>1, <4>1
      <4>3. outbox'[t] = outbox[t] \/ outbox'[t] = outbox[t] \cup {n}
        BY <3>1, <4>1
      <4> QED
        BY <2>1, <2>4, <4>1, <4>2, <4>3
  <2> QED
    BY <2>1, <2>2, <2>5, <2>6 DEF BoxTyped, TypeOK, docker
<1>8. ASSUME NEW t \in Tasks, NEW n \in 1..Attempts[t], Exit(t, n) PROVE BoxTyped'
  BY <1>8 DEF Exit, BoxTyped, TypeOK, dirs, mergeq, past
(* The merge queue: a task leaves it with its directories removed, or stays. *)
<1>b. ASSUME NEW t \in Tasks, Engines, Past, UNCHANGED <<num, ending, artifacts>>,
             queue' \in Seq(QueueItem), merging' \in MergeItem \cup {NoItem},
             merged' \subseteq Tasks \X Nat \X SUBSET Outputs,
             \/ CleanupTaskDirs(t) /\ \E tag \in Tags : at' = [at EXCEPT ![t] = tag]
             \/ Dirs /\ at' = at
      PROVE  BoxTyped'
  <2>1. at' \in [Tasks -> Tags]
    BY <1>b DEF BoxTyped, TypeOK
  <2>2. /\ did' = did /\ staging' \in [Tasks -> SUBSET Outputs]
        /\ outbox' = [u \in Tasks |-> outbox'[u]] /\ \A u \in Tasks : outbox'[u] \subseteq 1..num'[u]
        /\ detached' \in [s : SUBSET rows', i : SUBSET rows']
    <3>1. CASE CleanupTaskDirs(t)
      BY <1>b, <3>1, Cleaned
    <3>2. CASE Dirs
      BY <1>b, <3>2 DEF BoxTyped, TypeOK
    <3> QED
      BY <1>b, <3>1, <3>2
  <2> QED
    BY <1>b, <2>1, <2>2 DEF BoxTyped, TypeOK
<1>9. CASE ApplyOutput
  <2> DEFINE i == Head(queue)
             item == [task |-> i.task, attempt |-> i.attempt, output |-> staging[i.task],
                      checking |-> FALSE]
  <2>1. /\ queue # <<>> /\ queue' = Tail(queue)
        /\ \/ Requeue(i.task) /\ UNCHANGED merging
           \/ merging' = item /\ UNCHANGED <<at, did, staging, outbox, detached>>
        /\ Past /\ UNCHANGED <<num, docker, ending, artifacts, merged, stray, faults>>
    BY <1>9 DEF ApplyOutput, dirs, past
  <2>2. i \in QueueItem /\ queue' \in Seq(QueueItem)
    <3>1. queue \in Seq(QueueItem)
      BY DEF BoxTyped, TypeOK
    <3>2. queue # <<>> /\ queue' = Tail(queue)
      BY <2>1
    <3> QED
      BY <3>1, <3>2
  <2>3. i.task \in Tasks /\ i.attempt \in Nat /\ staging[i.task] \in SUBSET Outputs
    BY <2>2 DEF BoxTyped, QueueItem
  <2>4. merging' \in MergeItem \cup {NoItem}
    <3>1. item \in MergeItem
      BY <2>3 DEF MergeItem
    <3>2. merging \in MergeItem \cup {NoItem}
      BY DEF BoxTyped, TypeOK
    <3> HIDE DEF item
    <3> QED
      BY <2>1, <3>1, <3>2
  <2>5. Engines /\ merged' \subseteq Tasks \X Nat \X SUBSET Outputs
    BY <2>1 DEF docker, BoxTyped, TypeOK
  <2>6. \/ CleanupTaskDirs(i.task) /\ \E tag \in Tags : at' = [at EXCEPT ![i.task] = tag]
        \/ Dirs /\ at' = at
    BY <2>1 DEF Requeue
  <2> HIDE DEF i, item, Engines, Dirs, Past, Tags
  <2>7. Past /\ UNCHANGED <<num, ending, artifacts>>
    BY <2>1
  <2> QED
    BY <1>b, <2>2, <2>3, <2>4, <2>5, <2>6, <2>7
<1>10. CASE StartMergeCheck \/ EndMergeCheck
  <2> DEFINE t == merging.task
  <2>1. /\ merging \in MergeItem /\ Past /\ UNCHANGED <<num, ending, artifacts, queue>>
        /\ merged' = merged \/ merged' = merged \cup {<<t, merging.attempt, merging.output>>}
        /\ \/ CleanupTaskDirs(t) /\ \E tag \in {"idle", "merged"} : at' = [at EXCEPT ![t] = tag]
           \/ Dirs /\ at' = at
        /\ merging' = NoItem \/ merging' = [merging EXCEPT !.checking = TRUE]
    BY <1>10 DEF StartMergeCheck, EndMergeCheck, Requeue, dirs, mergeq, past, BoxTyped, TypeOK
  <2>2. Engines
    <3>1. Validator(MergeQueue) \in Names
      BY DEF Names, Validator
    <3>2. \/ UNCHANGED stray /\ (StartOK(Validator(MergeQueue)) \/ StartFails(Validator(MergeQueue)))
          \/ Stop(Validator(MergeQueue))
      BY <1>10 DEF StartMergeCheck, EndMergeCheck
    <3> QED
      BY <3>1, <3>2, Started, Stopped DEF BoxTyped, TypeOK
  <2>3. t \in Tasks /\ merging' \in MergeItem \cup {NoItem}
    BY <2>1 DEF MergeItem
  <2>4. merged' \subseteq Tasks \X Nat \X SUBSET Outputs
    BY <2>1 DEF BoxTyped, MergeItem
  <2>5. queue' \in Seq(QueueItem)
    BY <2>1 DEF BoxTyped, TypeOK
  <2>6. \/ CleanupTaskDirs(t) /\ \E tag \in Tags : at' = [at EXCEPT ![t] = tag]
        \/ Dirs /\ at' = at
    BY <2>1
  <2> HIDE DEF t, Engines, Dirs, Past, Tags
  <2> QED
    BY <1>b, <2>1, <2>2, <2>3, <2>4, <2>5, <2>6
<1>11. CASE Crash
  <2>1. /\ queue' = <<>> /\ merging' = NoItem /\ ending' = {} /\ running' = FALSE
        /\ UNCHANGED <<at, num, did, staging, outbox, detached, rows, open, up, artifacts, merged, stray,
                       misread, faults>>
    BY <1>11 DEF Crash, dirs, docker
  <2>2. queue' \in Seq(QueueItem)
    BY <2>1
  <2> QED
    BY <2>1, <2>2 DEF BoxTyped, TypeOK
<1>12. CASE Recover
  <2>1. PICK survivors \in {{}} \cup (IF faults < MaxFaults THEN {{c} : c \in up} ELSE {}) :
          /\ up' = survivors /\ stray' = stray \cup survivors
          /\ faults' = faults + Cardinality(survivors)
    BY <1>12 DEF Recover
  <2>2. survivors \subseteq up /\ IsFiniteSet(survivors)
    <3>1. CASE survivors = {}
      BY <3>1, FS_EmptySet
    <3>2. CASE \E c \in up : survivors = {c}
      BY <3>2, FS_Singleton
    <3> QED
      BY <3>1, <3>2
  <2>3. faults' \in Nat
    BY <2>1, <2>2, FS_CardinalityType DEF BoxTyped
  <2>4. /\ running' = TRUE /\ open' = {} /\ staging' = [t \in Tasks |-> {}]
        /\ detached' = [detached EXCEPT !.s = @ \cup up']
        /\ at' = [t \in Tasks |-> IF at[t] = "merged" THEN "merged" ELSE "idle"]
        /\ UNCHANGED <<num, did, outbox, rows, ending, artifacts, queue, merging, merged, misread, crashes>>
    BY <1>12 DEF Recover, mergeq
  <2>5. /\ detached' \in [s : SUBSET rows', i : SUBSET rows']
        /\ staging' \in [Tasks -> SUBSET Outputs]
    BY <2>1, <2>2, <2>4 DEF BoxTyped, TypeOK
  <2> QED
    BY <2>1, <2>2, <2>3, <2>4, <2>5 DEF BoxTyped, TypeOK
<1>13. CASE UNCHANGED vars
  BY <1>13 DEF vars, BoxTyped, TypeOK
<1> QED
  BY <1>1, <1>2, <1>3, <1>4, <1>5, <1>6, <1>7, <1>8, <1>9, <1>10, <1>11, <1>12, <1>13 DEF Next

-----------------------------------------------------------------------------
(* Who has a task.                                                         *)

LEMMA AliveKept ==
  ASSUME Alive, BoxTyped, [Next]_vars
  PROVE  Alive'
<1>1. CASE UNCHANGED <<running, queue, merging, ending>> \/ running'
  BY <1>1 DEF Alive
<1>2. CASE Crash
  BY <1>2 DEF Crash, Alive
<1>3. ASSUME NEW t \in Tasks,
             \/ StartMeeseeks(t) \/ ReadOutput(t) \/ TimeOut(t) \/ StartValidator(t) \/ RunChecks(t)
             \/ StartReviewer(t) \/ RunReview(t) \/ FailAttempt(t)
      PROVE  running'
  BY <1>3 DEF StartMeeseeks, ReadOutput, TimeOut, StartValidator, RunChecks, StartReviewer, RunReview,
    FailAttempt, Go, past
<1>4. ASSUME NEW t \in Tasks, NEW n \in 1..Attempts[t],
             WriteDraft(t, n) \/ WriteFinal(t, n) \/ SendOutput(t, n) \/ Rewrite(t, n) \/ Exit(t, n)
      PROVE  UNCHANGED <<running, queue, merging, ending>>
  BY <1>4 DEF WriteDraft, WriteFinal, SendOutput, Rewrite, Exit, Work, mergeq, past
<1>5. ASSUME ApplyOutput \/ StartMergeCheck \/ EndMergeCheck \/ Recover
             \/ \E c \in ending : StopApproved(c)
      PROVE  running'
  BY <1>5 DEF ApplyOutput, StartMergeCheck, EndMergeCheck, Recover, StopApproved, past
<1> QED
  BY <1>1, <1>2, <1>3, <1>4, <1>5 DEF Next, vars

(* A goroutine's step. *)
LEMMA Went ==
  ASSUME BoxTyped, NEW t \in Tasks, NEW from, NEW to, Go(t, from, to)
  PROVE  at[t] = from /\ at'[t] = to /\ \A u \in Tasks \ {t} : at'[u] = at[u]
BY DEF BoxTyped, TypeOK, Go

(* What a step of the task's own goroutine, and of nobody else, may do.    *)
Own(t) ==
  \/ StartMeeseeks(t) \/ ReadOutput(t) \/ TimeOut(t) \/ StartValidator(t) \/ RunChecks(t)
  \/ StartReviewer(t) \/ RunReview(t) \/ FailAttempt(t)

LEMMA OwnMoves ==
  ASSUME BoxTyped, NEW t \in Tasks, Own(t)
  PROVE  /\ \A u \in Tasks \ {t} : at'[u] = at[u] /\ num'[u] = num[u]
         /\ at[t] \notin {"queued", "merged"} /\ at'[t] # "merged"
         /\ UNCHANGED <<merging, merged>>
         /\ \/ num'[t] = num[t] /\ at[t] # "idle"
            \/ num'[t] = num[t] + 1 /\ at[t] = "idle"
         /\ \/ queue' = queue /\ at'[t] # "queued"
            \/ /\ at[t] = "reviewing" /\ at'[t] = "queued" /\ num'[t] = num[t]
               /\ queue' = Append(queue, [task |-> t, attempt |-> num[t]])
<1>1. CASE StartMeeseeks(t)
  <2>1. num' = [num EXCEPT ![t] = @ + 1] /\ UNCHANGED mergeq
        /\ (Go(t, "idle", "executing") \/ Go(t, "idle", "cleaning"))
    BY <1>1 DEF StartMeeseeks
  <2> QED
    BY <2>1, Went DEF BoxTyped, mergeq
<1>2. CASE RunReview(t)
  <2>1. UNCHANGED <<num, merging, merged>>
        /\ \/ Go(t, "reviewing", "queued") /\ queue' = Append(queue, [task |-> t, attempt |-> num[t]])
           \/ Go(t, "reviewing", "failing") /\ queue' = queue
    BY <1>2 DEF RunReview
  <2> QED
    BY <2>1, Went
<1>3. CASE ReadOutput(t) \/ TimeOut(t) \/ StartValidator(t) \/ RunChecks(t) \/ StartReviewer(t)
           \/ FailAttempt(t)
  <2>1. UNCHANGED <<num, queue, merging, merged>>
    BY <1>3 DEF ReadOutput, TimeOut, StartValidator, RunChecks, StartReviewer, FailAttempt, mergeq
  <2>2. \E from \in {"executing", "output", "validating", "checked", "failing", "cleaning"},
           to \in {"output", "failing", "validating", "checked", "reviewing", "idle"} : Go(t, from, to)
    BY <1>3 DEF ReadOutput, TimeOut, StartValidator, RunChecks, StartReviewer, FailAttempt
  <2> QED
    BY <2>1, <2>2, Went
<1> QED
  BY <1>1, <1>2, <1>3 DEF Own

(* Steps that are of no goroutine of a task and leave its place alone.     *)
LEMMA OthersMove ==
  ASSUME BoxTyped, [Next]_vars, \A t \in Tasks : ~Own(t)
  PROVE  /\ num' = num
         /\ \/ ApplyOutput \/ StartMergeCheck \/ EndMergeCheck \/ Crash \/ Recover
            \/ UNCHANGED <<at, queue, merging, merged, artifacts, misread>>
<1>1. ASSUME NEW t \in Tasks, NEW n \in 1..Attempts[t],
             WriteDraft(t, n) \/ WriteFinal(t, n) \/ SendOutput(t, n) \/ Rewrite(t, n) \/ Exit(t, n)
      PROVE  UNCHANGED <<num, at, queue, merging, merged, artifacts, misread>>
  BY <1>1 DEF WriteDraft, WriteFinal, SendOutput, Rewrite, Exit, Work, mergeq, past
<1>2. ASSUME NEW c \in ending, StopApproved(c)
      PROVE  UNCHANGED <<num, at, queue, merging, merged, artifacts, misread>>
  BY <1>2 DEF StopApproved, mergeq, past
<1>3. ApplyOutput \/ StartMergeCheck \/ EndMergeCheck \/ Crash \/ Recover => num' = num
  BY DEF ApplyOutput, StartMergeCheck, EndMergeCheck, Crash, Recover
<1> QED
  BY <1>1, <1>2, <1>3 DEF Next, Own, vars

LEMMA BegunKept ==
  ASSUME BoxTyped, Begun, OneItem, [Next]_vars
  PROVE  Begun'
<1>1. ASSUME NEW t \in Tasks, Own(t) PROVE Begun'
  <2>1. /\ \A u \in Tasks \ {t} : at'[u] = at[u] /\ num'[u] = num[u]
        /\ (num'[t] = num[t] /\ at[t] # "idle") \/ num'[t] = num[t] + 1
    BY <1>1, OwnMoves
  <2>2. num[t] \in Nat
    BY DEF BoxTyped
  <2>3. num'[t] > 0
    BY <2>1, <2>2 DEF Begun
  <2> QED
    BY <2>1, <2>3 DEF Begun
<1>2. CASE \A t \in Tasks : ~Own(t)
  <2>1. num' = num
    BY <1>2, OthersMove
  <2>2. \A t \in Tasks : at[t] = "idle" => at'[t] = "idle"
    <3>1. CASE ApplyOutput
      <4>1. at' = at \/ \E t : at' = [at EXCEPT ![t] = "idle"]
        BY <3>1 DEF ApplyOutput, Requeue
      <4> QED
        BY <4>1 DEF BoxTyped, TypeOK
    <3>2. CASE StartMergeCheck \/ EndMergeCheck
      <4>1. merging # NoItem /\ at[merging.task] = "queued"
        BY <3>2 DEF StartMergeCheck, EndMergeCheck, OneItem
      <4>2. at' = at \/ \E tag : at' = [at EXCEPT ![merging.task] = tag]
        BY <3>2 DEF StartMergeCheck, EndMergeCheck, Requeue
      <4> QED
        BY <4>1, <4>2 DEF BoxTyped, TypeOK
    <3>3. CASE Crash \/ Recover
      BY <3>3 DEF Crash, Recover
    <3> QED
      BY <1>2, <3>1, <3>2, <3>3, OthersMove
  <2> QED
    BY <2>1, <2>2 DEF Begun
<1> QED
  BY <1>1, <1>2

LEMMA OneItemKept ==
  ASSUME BoxTyped, OneItem, Alive, [Next]_vars
  PROVE  OneItem'
<1>0. queue \in Seq(QueueItem) /\ merging \in MergeItem \cup {NoItem}
      /\ \A k \in DOMAIN queue : queue[k].task \in Tasks
  <2>1. queue \in Seq(QueueItem) /\ merging \in MergeItem \cup {NoItem}
    BY DEF BoxTyped, TypeOK
  <2>2. \A k \in DOMAIN queue : queue[k] \in QueueItem
    BY <2>1
  <2> QED
    BY <2>1, <2>2 DEF QueueItem
<1>1. ASSUME NEW t \in Tasks, Own(t) PROVE OneItem'
  <2>0. /\ \A u \in Tasks \ {t} : at'[u] = at[u] /\ num'[u] = num[u]
        /\ merging' = merging
    BY <1>1, OwnMoves
  <2>1. /\ \A k \in DOMAIN queue : queue[k].task # t
        /\ merging # NoItem => merging.task \in Tasks \ {t}
    BY <1>0, <1>1, OwnMoves DEF OneItem, MergeItem
  <2>2. CASE queue' = queue
    BY <1>0, <2>0, <2>1, <2>2 DEF OneItem
  <2>3. CASE /\ at'[t] = "queued" /\ num'[t] = num[t]
             /\ queue' = Append(queue, [task |-> t, attempt |-> num[t]])
    <3>1. /\ DOMAIN queue' = DOMAIN queue \cup {Len(queue) + 1}
          /\ Len(queue) + 1 \notin DOMAIN queue
          /\ \A k \in DOMAIN queue : queue'[k] = queue[k]
          /\ queue'[Len(queue) + 1] = [task |-> t, attempt |-> num[t]]
      BY <1>0, <2>3
    <3> QED
      BY <1>0, <1>1, <2>1, <2>3, <3>1, OwnMoves DEF OneItem
  <2> QED
    BY <1>1, <2>2, <2>3, OwnMoves
<1>2. CASE ApplyOutput
  <2> DEFINE i == Head(queue)
  <2>1. /\ queue # <<>> /\ queue' = Tail(queue) /\ merging = NoItem /\ num' = num
        /\ \/ merging' = NoItem /\ Requeue(i.task)
           \/ /\ merging'.task = i.task /\ merging'.attempt = i.attempt /\ at' = at
    BY <1>2 DEF ApplyOutput
  <2>2. /\ 1 \in DOMAIN queue /\ i = queue[1]
        /\ \A k \in DOMAIN queue' : k + 1 \in DOMAIN queue /\ queue'[k] = queue[k + 1] /\ k + 1 # 1
    <3>1. queue # <<>> /\ queue' = Tail(queue)
      BY <2>1
    <3> QED
      BY <1>0, <3>1
  <2>3. \A k \in DOMAIN queue' : queue'[k].task \in Tasks /\ queue'[k].task # i.task
    BY <1>0, <2>2 DEF OneItem
  <2>4. at[i.task] = "queued" /\ num[i.task] = i.attempt
        /\ \A t \in Tasks : t # i.task => at'[t] = at[t]
    BY <2>1, <2>2 DEF OneItem, Requeue, BoxTyped, TypeOK
  <2>5. \A j, k \in DOMAIN queue' : queue'[j].task = queue'[k].task => j = k
    <3> SUFFICES ASSUME NEW j \in DOMAIN queue', NEW k \in DOMAIN queue', queue'[j].task = queue'[k].task
                 PROVE  j = k
      OBVIOUS
    <3>1. j + 1 = k + 1
      BY <2>2 DEF OneItem
    <3>2. j \in Int /\ k \in Int
      BY <1>0, <2>1
    <3> QED
      BY <3>1, <3>2
  <2>6. \A k \in DOMAIN queue' : at'[queue'[k].task] = "queued" /\ num'[queue'[k].task] = queue'[k].attempt
    BY <2>1, <2>2, <2>3, <2>4 DEF OneItem
  <2>7. merging' # NoItem =>
       /\ at'[merging'.task] = "queued" /\ num'[merging'.task] = merging'.attempt
       /\ \A k \in DOMAIN queue' : queue'[k].task # merging'.task
    BY <2>1, <2>3, <2>4
  <2> QED
    BY <2>5, <2>6, <2>7 DEF OneItem
<1>3. CASE StartMergeCheck \/ EndMergeCheck
  <2>1. /\ merging # NoItem /\ queue' = queue /\ num' = num
        /\ \/ merging' = NoItem
           \/ merging' = [merging EXCEPT !.checking = TRUE] /\ at' = at
        /\ at' = at \/ \E tag : at' = [at EXCEPT ![merging.task] = tag]
    BY <1>3 DEF StartMergeCheck, EndMergeCheck, Requeue
  <2>2. merging \in MergeItem /\ \A k \in DOMAIN queue : queue[k].task # merging.task
    BY <1>0, <2>1 DEF OneItem
  <2>3. \A k \in DOMAIN queue : at'[queue[k].task] = at[queue[k].task]
    BY <1>0, <2>1, <2>2 DEF BoxTyped, TypeOK
  <2>4. merging' # NoItem => merging'.task = merging.task /\ merging'.attempt = merging.attempt /\ at' = at
    BY <2>1, <2>2 DEF MergeItem
  <2> QED
    BY <2>1, <2>2, <2>3, <2>4 DEF OneItem
<1>4. CASE Crash
  BY <1>4 DEF Crash, OneItem
<1>5. CASE Recover
  BY <1>5 DEF Recover, Alive, OneItem, mergeq
<1>6. CASE UNCHANGED <<at, num, queue, merging>>
  BY <1>6 DEF OneItem
<1>7. CASE \A t \in Tasks : ~Own(t)
  BY <1>2, <1>3, <1>4, <1>5, <1>6, <1>7, OthersMove
<1> QED
  BY <1>1, <1>7

-----------------------------------------------------------------------------
(* Who stops a container: the goroutine of its task, a deferred call or the *)
(* merge worker.                                                           *)

Mine(t) ==
  (IF at[t] \in {"executing", "output", "validating", "checked", "reviewing", "failing"}
   THEN {Meeseeks(t, num[t])} ELSE {})
  \cup (IF at[t] = "validating" THEN {Validator(t)} ELSE {})
  \cup (IF at[t] = "reviewing" THEN {Reviewer(t)} ELSE {})
MergeMine == IF merging # NoItem /\ merging.checking THEN {Validator(MergeQueue)} ELSE {}

LEMMA OwnedBy == \A c : c \in Owned <=> c \in ending \/ c \in MergeMine \/ \E t \in Tasks : c \in Mine(t)
BY DEF Owned, Mine, MergeMine

LEMMA OwnedByNext ==
  \A c : c \in Owned' <=> c \in ending' \/ c \in MergeMine' \/ \E t \in Tasks : c \in Mine(t)'
BY DEF Owned, Mine, MergeMine

LEMMA OwnOwned ==
  ASSUME BoxTyped, NEW t \in Tasks, Own(t), ending \subseteq ending', NEW S,
         Mine(t) \ S \subseteq Mine(t)' \cup ending'
  PROVE  Owned \ S \subseteq Owned'
<1>1. \A u \in Tasks \ {t} : Mine(u)' = Mine(u)
  <2>1. \A u \in Tasks \ {t} : at'[u] = at[u] /\ num'[u] = num[u]
    BY OwnMoves
  <2> QED
    BY <2>1 DEF Mine
<1>2. MergeMine' = MergeMine
  BY OwnMoves DEF MergeMine
<1> QED
  BY <1>1, <1>2, OwnedBy, OwnedByNext

LEMMA StartedOwned ==
  ASSUME ContainersOwned, running, Owned \subseteq Owned', open \subseteq open', stray \subseteq stray',
         \A c \in up' \ up : c \in Owned' /\ c \in open'
  PROVE  ContainersOwned'
BY DEF ContainersOwned

LEMMA StoppedOwned ==
  ASSUME BoxTyped, ContainersOwned, running, NEW c, Stop(c), Owned \ {c} \subseteq Owned'
  PROVE  ContainersOwned'
<1>1. ASSUME NEW d \in up' \ stray' PROVE d \in Owned' /\ d \in open'
  <2>1. d \in up \ stray /\ d # c
    BY <1>1, Stopped
  <2>2. d \in Owned /\ d \in open
    BY <2>1 DEF ContainersOwned
  <2> QED
    BY <2>1, <2>2, Stopped
<1> QED
  BY <1>1 DEF ContainersOwned

LEMMA OwnKeepsOwned ==
  ASSUME BoxTyped, ContainersOwned, NEW t \in Tasks, Own(t)
  PROVE  ContainersOwned'
<1> DEFINE w == Meeseeks(t, num[t])
<1>1. CASE StartMeeseeks(t)
  <2>1. running /\ at[t] = "idle" /\ UNCHANGED <<ending, stray>>
        /\ \/ at'[t] = "executing" /\ StartOK(Meeseeks(t, num'[t]))
           \/ UNCHANGED <<up, open>>
    BY <1>1, Went DEF StartMeeseeks, Go, StartFails, docker
  <2>2. Mine(t) = {}
    BY <2>1 DEF Mine
  <2>3. Owned \subseteq Owned'
    BY <2>1, <2>2, OwnOwned DEF Own
  <2>4. at'[t] = "executing" => Meeseeks(t, num'[t]) \in Owned'
    BY OwnedByNext DEF Mine
  <2> QED
    BY <2>1, <2>3, <2>4, StartedOwned DEF StartOK
<1>2. CASE ReadOutput(t) \/ TimeOut(t)
  <2>1. /\ running /\ UNCHANGED <<up, open, ending, stray, num>>
        /\ at[t] = "executing" /\ at'[t] \in {"output", "failing"}
    BY <1>2, Went DEF ReadOutput, TimeOut, Go, docker
  <2>2. Owned \subseteq Owned'
    <3>1. Mine(t)' = Mine(t)
      BY <2>1 DEF Mine
    <3> QED
      BY <1>2, <2>1, <3>1, OwnOwned DEF Own
  <2> QED
    BY <2>1, <2>2, StartedOwned
<1>3. CASE StartValidator(t)
  <2>1. /\ running /\ UNCHANGED <<ending, stray, num>> /\ at[t] = "output"
        /\ \/ at'[t] = "validating" /\ StartOK(Validator(t))
           \/ at'[t] = "failing" /\ UNCHANGED <<up, open>>
    BY <1>3, Went DEF StartValidator, Go, StartFails, docker
  <2>2. Owned \subseteq Owned'
    <3>1. Mine(t) \subseteq Mine(t)'
      BY <2>1 DEF Mine
    <3> QED
      BY <1>3, <2>1, <3>1, OwnOwned DEF Own
  <2>3. at'[t] = "validating" => Validator(t) \in Owned'
    BY OwnedByNext DEF Mine
  <2> QED
    BY <2>1, <2>2, <2>3, StartedOwned DEF StartOK
<1>4. CASE RunChecks(t)
  <2>1. /\ running /\ UNCHANGED <<ending, num>> /\ at[t] = "validating"
        /\ at'[t] \in {"checked", "failing"} /\ Stop(Validator(t))
    BY <1>4, Went DEF RunChecks, StopAfterChecks, Go
  <2>2. Owned \ {Validator(t)} \subseteq Owned'
    <3>1. Mine(t) \ {Validator(t)} \subseteq Mine(t)'
      BY <2>1 DEF Mine
    <3> QED
      BY <1>4, <2>1, <3>1, OwnOwned DEF Own
  <2> QED
    BY <2>1, <2>2, StoppedOwned
<1>5. CASE StartReviewer(t)
  <2>1. /\ running /\ UNCHANGED <<ending, stray, num>> /\ at[t] = "checked"
        /\ \/ at'[t] = "reviewing" /\ StartOK(Reviewer(t))
           \/ at'[t] = "failing" /\ UNCHANGED <<up, open>>
    BY <1>5, Went DEF StartReviewer, Go, StartFails, docker
  <2>2. Owned \subseteq Owned'
    <3>1. Mine(t) \subseteq Mine(t)'
      BY <2>1 DEF Mine
    <3> QED
      BY <1>5, <2>1, <3>1, OwnOwned DEF Own
  <2>3. at'[t] = "reviewing" => Reviewer(t) \in Owned'
    BY OwnedByNext DEF Mine
  <2> QED
    BY <2>1, <2>2, <2>3, StartedOwned DEF StartOK
<1>6. CASE RunReview(t)
  <2>1. /\ running /\ num' = num /\ at[t] = "reviewing" /\ Stop(Reviewer(t))
        /\ \/ at'[t] = "queued" /\ ending' = ending \cup {w}
           \/ at'[t] = "failing" /\ ending' = ending
    BY <1>6, Went DEF RunReview, Go
  <2>2. Owned \ {Reviewer(t)} \subseteq Owned'
    <3>1. Mine(t) \ {Reviewer(t)} \subseteq Mine(t)' \cup ending'
      BY <2>1 DEF Mine
    <3> QED
      BY <1>6, <2>1, <3>1, OwnOwned DEF Own
  <2> QED
    BY <2>1, <2>2, StoppedOwned
<1>7. CASE FailAttempt(t)
  <2>1. /\ running /\ UNCHANGED <<num, ending>>
        /\ \/ at[t] = "failing" /\ Stop(w)
           \/ at[t] = "cleaning" /\ UNCHANGED <<up, open, stray>>
    BY <1>7, Went DEF FailAttempt, Go, docker
  <2>2. Owned \ {w} \subseteq Owned' /\ (at[t] = "cleaning" => Owned \subseteq Owned')
    <3>1. Mine(t) \ {w} = {} /\ (at[t] = "cleaning" => Mine(t) = {})
      BY <2>1 DEF Mine
    <3> QED
      BY <1>7, <2>1, <3>1, OwnOwned DEF Own
  <2> QED
    BY <2>1, <2>2, StoppedOwned, StartedOwned
<1> QED
  BY <1>1, <1>2, <1>3, <1>4, <1>5, <1>6, <1>7 DEF Own

LEMMA OwnedKept ==
  ASSUME BoxTyped, OneItem, ContainersOwned, [Next]_vars
  PROVE  ContainersOwned'
<1> DEFINE q == Validator(MergeQueue)
<1>0. queue \in Seq(QueueItem) /\ merging \in MergeItem \cup {NoItem}
  BY DEF BoxTyped, TypeOK
(* The place of one task changes, from one where it owns nothing.          *)
<1>a. ASSUME NEW t, NEW tag, at' = [at EXCEPT ![t] = tag] \/ at' = at, at[t] = "queued", num' = num
      PROVE  \A u \in Tasks : Mine(u) \subseteq Mine(u)'
  BY <1>a DEF Mine, BoxTyped, TypeOK
<1>1. ASSUME NEW c \in ending, StopApproved(c) PROVE ContainersOwned'
  <2>1. running /\ ending' = ending \ {c} /\ Stop(c) /\ UNCHANGED <<at, num, merging>>
    BY <1>1 DEF StopApproved, mergeq
  <2>2. Owned \ {c} \subseteq Owned'
    BY <2>1, OwnedBy, OwnedByNext DEF Mine, MergeMine
  <2> QED
    BY <2>1, <2>2, StoppedOwned
<1>2. ASSUME NEW t \in Tasks, NEW n \in 1..Attempts[t],
             WriteDraft(t, n) \/ WriteFinal(t, n) \/ SendOutput(t, n) \/ Rewrite(t, n) \/ Exit(t, n)
      PROVE  ContainersOwned'
  <2>1. UNCHANGED <<at, num, ending, merging, open, stray, running>> /\ up' \subseteq up
    BY <1>2 DEF WriteDraft, WriteFinal, SendOutput, Rewrite, Exit, Work, docker, mergeq, past
  <2>2. Owned' = Owned
    BY <2>1, OwnedBy, OwnedByNext DEF Owned
  <2> QED
    BY <2>1, <2>2 DEF ContainersOwned
<1>3. CASE ApplyOutput
  <2>1. /\ running /\ merging = NoItem /\ UNCHANGED <<num, ending, up, open, stray>>
        /\ at' = [at EXCEPT ![Head(queue).task] = "idle"] \/ at' = at
        /\ queue # <<>>
    BY <1>3 DEF ApplyOutput, Requeue, docker
  <2>2. at[Head(queue).task] = "queued"
    <3>1. 1 \in DOMAIN queue /\ Head(queue) = queue[1]
      BY <1>0, <2>1
    <3> QED
      BY <3>1 DEF OneItem
  <2>3. \A u \in Tasks : Mine(u) \subseteq Mine(u)'
    BY <1>a, <2>1, <2>2
  <2>4. Owned \subseteq Owned'
    BY <2>1, <2>3, OwnedBy, OwnedByNext DEF MergeMine
  <2> QED
    BY <2>1, <2>4, StartedOwned
<1>4. CASE StartMergeCheck
  <2>1. /\ running /\ merging # NoItem /\ ~merging.checking /\ UNCHANGED <<num, ending, stray>>
        /\ \/ StartOK(q) /\ merging' = [merging EXCEPT !.checking = TRUE] /\ at' = at
           \/ /\ UNCHANGED <<up, open>>
              /\ at' = [at EXCEPT ![merging.task] = "idle"] \/ at' = at
    BY <1>4 DEF StartMergeCheck, StartFails, Requeue, docker
  <2>2. \A u \in Tasks : Mine(u) \subseteq Mine(u)'
    BY <1>a, <2>1 DEF OneItem
  <2>3. Owned \subseteq Owned'
    BY <2>1, <2>2, OwnedBy, OwnedByNext DEF MergeMine
  <2>4. merging' = [merging EXCEPT !.checking = TRUE] => q \in Owned'
    <3>1. merging' = [merging EXCEPT !.checking = TRUE] => merging' \in MergeItem /\ merging'.checking
      BY <1>0, <2>1 DEF MergeItem
    <3>2. NoItem \notin MergeItem
      BY SandboxAssumption
    <3> QED
      BY <3>1, <3>2, OwnedByNext DEF MergeMine
  <2> QED
    BY <2>1, <2>3, <2>4, StartedOwned DEF StartOK
<1>5. CASE EndMergeCheck
  <2>1. /\ running /\ merging # NoItem /\ UNCHANGED <<num, ending>> /\ Stop(q)
        /\ \E tag : at' = [at EXCEPT ![merging.task] = tag] \/ at' = at
    BY <1>5 DEF EndMergeCheck, Requeue
  <2>2. \A u \in Tasks : Mine(u) \subseteq Mine(u)'
    BY <1>a, <2>1 DEF OneItem
  <2>3. Owned \ {q} \subseteq Owned'
    BY <2>1, <2>2, OwnedBy, OwnedByNext DEF MergeMine
  <2> QED
    BY <2>1, <2>3, StoppedOwned
<1>6. CASE Crash
  BY <1>6 DEF Crash, ContainersOwned
<1>7. CASE Recover
  BY <1>7 DEF Recover, ContainersOwned
<1>8. CASE UNCHANGED vars
  BY <1>8 DEF vars, ContainersOwned, Owned
<1>9. ASSUME NEW t \in Tasks, Own(t) PROVE ContainersOwned'
  BY <1>9, OwnKeepsOwned
<1> QED
  BY <1>1, <1>2, <1>3, <1>4, <1>5, <1>6, <1>7, <1>8, <1>9 DEF Next, Own

-----------------------------------------------------------------------------
(* What a step leaves alone.                                               *)

(* Names are only added; of the workers, the one a task is starting.       *)
RowsGrow ==
  /\ rows \subseteq rows' /\ up' \subseteq up \cup (rows' \ rows)
  /\ \A t \in Tasks, n \in Nat :
       Meeseeks(t, n) \in rows' \ rows => StartMeeseeks(t) /\ n = num'[t]

LEMMA NewRows ==
  ASSUME BoxTyped, [Next]_vars
  PROVE  RowsGrow
<1>1. ASSUME NEW c, StartOK(c) \/ StartFails(c)
      PROVE  rows \subseteq rows' /\ rows' \subseteq rows \cup {c} /\ up' \subseteq up \cup (rows' \ rows)
  BY <1>1 DEF StartOK, StartFails, docker
<1>2. ASSUME NEW c, Stop(c)
      PROVE  rows' = rows /\ up' \subseteq up
  BY <1>2 DEF Stop, StopOK, StopFails, docker
<1>3. ASSUME rows' = rows, up' \subseteq up PROVE RowsGrow
  BY <1>3 DEF RowsGrow
<1>4. ASSUME NEW id, StartOK(Validator(id)) \/ StartFails(Validator(id)) PROVE RowsGrow
  <2>1. \A t, n : Meeseeks(t, n) # Validator(id)
    BY DEF Meeseeks, Validator
  <2> QED
    BY <1>1, <1>4, <2>1 DEF RowsGrow
<1>5. ASSUME NEW t \in Tasks, StartMeeseeks(t) PROVE RowsGrow
  <2>1. StartOK(Meeseeks(t, num'[t])) \/ StartFails(Meeseeks(t, num'[t]))
    BY <1>5 DEF StartMeeseeks
  <2>2. \A u, n : Meeseeks(u, n) = Meeseeks(t, num'[t]) => u = t /\ n = num'[t]
    BY DEF Meeseeks
  <2> QED
    BY <1>1, <1>5, <2>1, <2>2 DEF RowsGrow
<1>6. ASSUME NEW t \in Tasks, StartReviewer(t) PROVE RowsGrow
  <2>1. StartOK(Reviewer(t)) \/ StartFails(Reviewer(t))
    BY <1>6 DEF StartReviewer
  <2>2. \A u, n : Meeseeks(u, n) # Reviewer(t)
    BY DEF Meeseeks, Reviewer
  <2> QED
    BY <1>1, <2>1, <2>2 DEF RowsGrow
<1>7. ASSUME NEW t \in Tasks, StartValidator(t) \/ RunChecks(t) \/ RunReview(t) \/ FailAttempt(t) PROVE RowsGrow
  <2>1. \/ StartOK(Validator(t)) \/ StartFails(Validator(t)) \/ UNCHANGED docker
        \/ \E c : Stop(c)
    BY <1>7 DEF StartValidator, RunChecks, StopAfterChecks, RunReview, FailAttempt
  <2> QED
    BY <1>2, <1>3, <1>4, <2>1 DEF docker
<1>8. ASSUME NEW t \in Tasks, ReadOutput(t) \/ TimeOut(t) PROVE RowsGrow
  BY <1>3, <1>8 DEF ReadOutput, TimeOut, docker
<1>9. ASSUME NEW t \in Tasks, NEW n \in 1..Attempts[t],
             WriteDraft(t, n) \/ WriteFinal(t, n) \/ SendOutput(t, n) \/ Rewrite(t, n) \/ Exit(t, n)
      PROVE  RowsGrow
  BY <1>3, <1>9 DEF WriteDraft, WriteFinal, SendOutput, Rewrite, Exit, Work, docker
<1>10. ASSUME NEW c \in ending, StopApproved(c) PROVE RowsGrow
  BY <1>2, <1>3, <1>10 DEF StopApproved
<1>11. CASE StartMergeCheck
  BY <1>4, <1>11 DEF StartMergeCheck
<1>12. CASE EndMergeCheck
  BY <1>2, <1>3, <1>12 DEF EndMergeCheck
<1>13. CASE ApplyOutput \/ Crash
  BY <1>3, <1>13 DEF ApplyOutput, Crash, docker
<1>14. CASE Recover
  BY <1>3, <1>14 DEF Recover
<1>15. CASE UNCHANGED vars
  BY <1>3, <1>15 DEF vars
<1> QED
  BY <1>5, <1>6, <1>7, <1>8, <1>9, <1>10, <1>11, <1>12, <1>13, <1>14, <1>15 DEF Next

(* A step that concerns another task, or none.                             *)
Still(u) ==
  /\ at'[u] = at[u] /\ num'[u] = num[u] /\ did'[u] = did[u] /\ artifacts'[u] = artifacts[u]
  /\ staging'[u] = staging[u] /\ outbox'[u] = outbox[u] /\ (Misread(u)' <=> Misread(u))
  /\ \A n \in Nat : Meeseeks(u, n) \in detached'.s <=> Meeseeks(u, n) \in detached.s

(* The attempt of u ends: its directories are removed.                     *)
Ends(u) ==
  /\ at'[u] \in Ended /\ num'[u] = num[u] /\ did'[u] = did[u]
  /\ staging'[u] = {} /\ outbox'[u] \subseteq outbox[u]
  /\ \A n \in Nat : Meeseeks(u, n) \in up' => Meeseeks(u, n) \in detached'.s

(* The rows only grow, and no worker of u is started.                      *)
Grown(u) ==
  /\ rows \subseteq rows'
  /\ \A n \in Nat : Meeseeks(u, n) \in rows' => Meeseeks(u, n) \in rows
  /\ \A n \in Nat : Meeseeks(u, n) \in up' => Meeseeks(u, n) \in up

LEMMA NoNewWorker ==
  ASSUME BoxTyped, [Next]_vars, NEW u \in Tasks, ~StartMeeseeks(u)
  PROVE  Grown(u)
<1>1. up \subseteq rows
  BY DEF BoxTyped, TypeOK
<1> QED
  BY <1>1, NewRows DEF Grown, RowsGrow

LEMMA StillKept ==
  ASSUME BoxTyped, NEW u \in Tasks, TaskInv(u), Still(u), Grown(u)
  PROVE  TaskInv(u)'
<1>0. num[u] \in Nat /\ \A n \in 1..num[u] : n \in Nat
  BY DEF BoxTyped
<1>a. \A n : Meeseeks(u, n)' = Meeseeks(u, n)
  BY DEF Meeseeks
<1>1. Numbered(u)'
  BY <1>a DEF TaskInv, Still, Grown, Numbered
<1>2. Unstarted(u)' /\ MessagesSent(u)'
  BY DEF TaskInv, Still, Unstarted, MessagesSent
<1>3. OthersDetached(u)' /\ CurrentMounted(u)'
  BY <1>0 DEF TaskInv, Still, Grown, OthersDetached, CurrentMounted
<1>4. Holds(u)' /\ SentRead(u)' /\ OnFile(u)'
  BY DEF TaskInv, Still, Holds, SentRead, OnFile
<1> QED
  BY <1>1, <1>2, <1>3, <1>4 DEF TaskInv

LEMMA EndsKept ==
  ASSUME BoxTyped, NEW u \in Tasks, TaskInv(u), Ends(u), Grown(u)
  PROVE  TaskInv(u)'
<1>0. num[u] \in Nat /\ \A n \in 1..num[u] : n \in Nat
  BY DEF BoxTyped
<1>1. Numbered(u)'
  BY DEF TaskInv, Ends, Grown, Numbered
<1>2. Unstarted(u)' /\ MessagesSent(u)'
  BY DEF TaskInv, Ends, Unstarted, MessagesSent
<1>3. OthersDetached(u)'
  BY <1>0 DEF Ends, OthersDetached
<1>4. CurrentMounted(u)' /\ Holds(u)' /\ SentRead(u)' /\ OnFile(u)'
  BY DEF Ends, Ended, Active, Judged, CurrentMounted, Holds, SentRead, OnFile
<1> QED
  BY <1>1, <1>2, <1>3, <1>4 DEF TaskInv

(* Removing the directories of t ends its attempt and touches no other's.  *)
LEMMA CleanupEnds ==
  ASSUME BoxTyped, NEW t \in Tasks, CleanupTaskDirs(t), num' = num, at'[t] \in Ended
  PROVE  Ends(t)
<1>1. \A n : Meeseeks(t, n)[1] = "meeseeks" /\ Meeseeks(t, n)[2] = t
  BY DEF Meeseeks
<1> QED
  BY <1>1 DEF CleanupTaskDirs, Ends, BoxTyped

LEMMA CleanupElsewhere ==
  ASSUME BoxTyped, NEW t \in Tasks, CleanupTaskDirs(t), NEW u \in Tasks \ {t}
  PROVE  /\ did'[u] = did[u] /\ staging'[u] = staging[u] /\ outbox'[u] = outbox[u]
         /\ \A n \in Nat : Meeseeks(u, n) \in detached'.s <=> Meeseeks(u, n) \in detached.s
<1>1. \A n : Meeseeks(u, n)[2] = u
  BY DEF Meeseeks
<1> QED
  BY <1>1 DEF CleanupTaskDirs, BoxTyped

LEMMA OwnStill ==
  ASSUME BoxTyped, NEW t \in Tasks, Own(t), NEW u \in Tasks \ {t}
  PROVE  Still(u)
<1>1. at'[u] = at[u] /\ num'[u] = num[u]
  BY OwnMoves
<1>2. CASE ReadOutput(t)
  <2>1. /\ outbox'[u] = outbox[u] /\ UNCHANGED <<did, artifacts, staging, detached>>
        /\ \E x : misread' = misread \/ misread' = misread \cup {<<t, x>>}
    BY <1>2 DEF ReadOutput, BoxTyped
  <2> QED
    BY <1>1, <2>1 DEF Still, Misread
<1>3. CASE FailAttempt(t)
  <2>1. CleanupTaskDirs(t) /\ UNCHANGED <<artifacts, misread>>
    BY <1>3 DEF FailAttempt, past
  <2> QED
    BY <1>1, <2>1, CleanupElsewhere DEF Still, Misread
<1>4. CASE \/ StartMeeseeks(t) \/ TimeOut(t) \/ StartValidator(t) \/ RunChecks(t)
           \/ StartReviewer(t) \/ RunReview(t)
  <2>1. artifacts'[u] = artifacts[u] /\ UNCHANGED <<did, staging, outbox, detached, misread>>
    BY <1>4 DEF StartMeeseeks, TimeOut, StartValidator, RunChecks, StartReviewer, RunReview, dirs, past,
      BoxTyped
  <2> QED
    BY <1>1, <2>1 DEF Still, Misread
<1> QED
  BY <1>2, <1>3, <1>4 DEF Own

LEMMA WorkMoves ==
  ASSUME BoxTyped, NEW t \in Tasks, NEW n \in 1..Attempts[t],
         WriteDraft(t, n) \/ WriteFinal(t, n) \/ SendOutput(t, n) \/ Rewrite(t, n)
  PROVE  /\ \A u \in Tasks \ {t} : Still(u)
         /\ UNCHANGED <<at, num, rows, up, detached, artifacts, misread>> /\ Meeseeks(t, n) \in up
         /\ \A k \in 1..Attempts[t] : k # n => did'[t][k] = did[t][k]
         /\ did[t][n] \in Sent => did'[t][n] \in Sent
<1>1. /\ UNCHANGED <<at, num, rows, up, detached, artifacts, misread>> /\ Meeseeks(t, n) \in up
      /\ \E to : did' = [did EXCEPT ![t][n] = to] /\ (did[t][n] \in Sent => to \in Sent)
  BY DEF WriteDraft, WriteFinal, SendOutput, Rewrite, Work, docker, past, Sent
<1>2. PICK to : did' = [did EXCEPT ![t][n] = to] /\ (did[t][n] \in Sent => to \in Sent)
  BY <1>1
<1>3. did = [u \in Tasks |-> did[u]] /\ did[t] \in [1..Attempts[t] -> Progress]
  BY DEF BoxTyped
<1>4. did'[t] = [did[t] EXCEPT ![n] = to] /\ \A u \in Tasks \ {t} : did'[u] = did[u]
  BY <1>2, <1>3
<1>5. \A u \in Tasks \ {t} : staging'[u] = staging[u] /\ outbox'[u] = outbox[u]
  BY DEF WriteDraft, WriteFinal, SendOutput, Rewrite, BoxTyped
<1> QED
  BY <1>1, <1>2, <1>3, <1>4, <1>5 DEF Still, Misread

LEMMA RestStill ==
  ASSUME NEW u \in Tasks,
         \/ \E c \in ending : StopApproved(c)
         \/ \E t \in Tasks : \E n \in 1..Attempts[t] : Exit(t, n)
         \/ Crash \/ UNCHANGED vars
  PROVE  Still(u)
BY DEF StopApproved, Exit, Crash, vars, dirs, past, Still, Misread

(* The merge queue ends the attempt it lets go of.                         *)
LEMMA MergeMoves ==
  ASSUME BoxTyped, OneItem, ApplyOutput \/ StartMergeCheck \/ EndMergeCheck, NEW u \in Tasks
  PROVE  Still(u) \/ (at[u] = "queued" /\ Ends(u))
<1>1. UNCHANGED <<num, artifacts, misread>>
  BY DEF ApplyOutput, StartMergeCheck, EndMergeCheck, past
<1>2. \/ UNCHANGED <<at, did, staging, outbox, detached>>
      \/ \E t \in Tasks : /\ at[t] = "queued" /\ CleanupTaskDirs(t)
                          /\ \E tag \in Ended : at' = [at EXCEPT ![t] = tag]
  <2>1. CASE ApplyOutput
    <3>1. /\ queue # <<>>
          /\ \/ UNCHANGED <<at, did, staging, outbox, detached>>
             \/ CleanupTaskDirs(Head(queue).task) /\ at' = [at EXCEPT ![Head(queue).task] = "idle"]
      BY <2>1 DEF ApplyOutput, Requeue, dirs
    <3>2. 1 \in DOMAIN queue /\ Head(queue) = queue[1] /\ queue[1] \in QueueItem
      <4>1. queue \in Seq(QueueItem)
        BY DEF BoxTyped, TypeOK
      <4> QED
        BY <3>1, <4>1
    <3> QED
      BY <3>1, <3>2 DEF OneItem, Ended, QueueItem
  <2>2. CASE StartMergeCheck \/ EndMergeCheck
    <3>1. /\ merging # NoItem
          /\ \/ UNCHANGED <<at, did, staging, outbox, detached>>
             \/ /\ CleanupTaskDirs(merging.task)
                /\ \E tag \in Ended : at' = [at EXCEPT ![merging.task] = tag]
      BY <2>2 DEF StartMergeCheck, EndMergeCheck, Requeue, Ended, dirs
    <3>2. merging.task \in Tasks /\ at[merging.task] = "queued"
      BY <3>1 DEF OneItem, BoxTyped, TypeOK, MergeItem
    <3> QED
      BY <3>1, <3>2
  <2> QED
    BY <2>1, <2>2
<1>3. CASE UNCHANGED <<at, did, staging, outbox, detached>>
  BY <1>1, <1>3 DEF Still, Misread
<1>4. ASSUME NEW t \in Tasks, at[t] = "queued", CleanupTaskDirs(t),
             NEW tag \in Ended, at' = [at EXCEPT ![t] = tag]
      PROVE  Still(u) \/ (at[u] = "queued" /\ Ends(u))
  <2>1. at'[t] = tag /\ \A v \in Tasks \ {t} : at'[v] = at[v]
    BY <1>4 DEF BoxTyped, TypeOK
  <2>2. CASE u = t
    BY <1>1, <1>4, <2>1, <2>2, CleanupEnds
  <2>3. CASE u # t
    BY <1>1, <1>4, <2>1, <2>3, CleanupElsewhere DEF Still, Misread
  <2> QED
    BY <2>2, <2>3
<1> QED
  BY <1>2, <1>3, <1>4

LEMMA RecoverEnds ==
  ASSUME BoxTyped, Recover, NEW u \in Tasks
  PROVE  Ends(u)
BY DEF Recover, Ends, Ended, BoxTyped

(* What a worker writes: that of the present attempt into its directory,   *)
(* others into one nobody sees.                                            *)
LEMMA WorkKept ==
  ASSUME BoxTyped, Begun, NEW t \in Tasks, NEW n \in 1..Attempts[t],
         WriteDraft(t, n) \/ WriteFinal(t, n) \/ SendOutput(t, n) \/ Rewrite(t, n), TaskInv(t)
  PROVE  TaskInv(t)'
<1> DEFINE now == num[t]
<1>1. now \in Nat /\ now <= Attempts[t] /\ Attempts[t] \in Nat /\ n \in Nat /\ n \in 1..now
  <2>1. now \in Nat /\ now \in 0..Attempts[t] /\ Attempts[t] \in Nat /\ n \in Nat
    BY SandboxAssumption DEF BoxTyped, TypeOK
  <2>2. Meeseeks(t, n) \in rows
    BY WorkMoves DEF BoxTyped, TypeOK
  <2> QED
    BY <2>1, <2>2 DEF TaskInv, Numbered
<1>2. /\ UNCHANGED <<at, num, rows, up, detached, artifacts, misread>> /\ Meeseeks(t, n) \in up
      /\ \A k \in 1..Attempts[t] : k # n => did'[t][k] = did[t][k]
      /\ did[t][n] \in Sent => did'[t][n] \in Sent
  BY WorkMoves
<1>3. /\ did = [u \in Tasks |-> did[u]] /\ did[t] \in [1..Attempts[t] -> Progress]
      /\ staging \in [Tasks -> SUBSET Outputs] /\ outbox[t] \subseteq 1..now
  BY DEF BoxTyped, TypeOK
(* The four things a worker does, and what they leave in the directory.    *)
<1>4. /\ did'[t][n] \in Sent \/ outbox'[t] = outbox[t]
      /\ outbox'[t] \subseteq outbox[t] \cup {n}
      /\ did'[t][n] # "sent" \/ did[t][n] = "final"
      /\ Meeseeks(t, n) \in detached.s => staging'[t] = staging[t]
      /\ Meeseeks(t, n) \notin detached.s /\ staging[t] = Wrote(n, did[t][n]) =>
           staging'[t] = Wrote(n, did'[t][n])
  <2>1. ASSUME NEW to, did' = [did EXCEPT ![t][n] = to] PROVE did'[t][n] = to
    BY <1>3, <2>1
  <2>2. CASE WriteDraft(t, n)
    <3>1. did[t][n] = "nothing" /\ did' = [did EXCEPT ![t][n] = "draft"] /\ outbox' = outbox
      BY <2>2 DEF WriteDraft, Work
    <3>2. IF Meeseeks(t, n) \in detached.s THEN staging' = staging
          ELSE \E kept \in {{}, staging[t]} : staging'[t] = kept \cup {<<n, "draft">>}
      BY <1>3, <2>2 DEF WriteDraft
    <3> QED
      BY <2>1, <3>1, <3>2 DEF Wrote
  <2>3. CASE WriteFinal(t, n)
    <3>1. did[t][n] = "draft" /\ did' = [did EXCEPT ![t][n] = "final"] /\ outbox' = outbox
      BY <2>3 DEF WriteFinal, Work
    <3>2. IF Meeseeks(t, n) \in detached.s THEN staging' = staging
          ELSE staging'[t] = (staging[t] \ {<<n, "draft">>}) \cup {<<n, "final">>}
      BY <1>3, <2>3 DEF WriteFinal
    <3> QED
      BY <2>1, <3>1, <3>2 DEF Wrote
  <2>4. CASE SendOutput(t, n)
    <3>1. /\ did[t][n] = "final" /\ did' = [did EXCEPT ![t][n] = "sent"]
          /\ outbox'[t] \subseteq outbox[t] \cup {n} /\ staging'[t] = staging[t]
      BY <2>4 DEF SendOutput, Work, BoxTyped
    <3> QED
      BY <2>1, <3>1 DEF Wrote, Sent
  <2>5. CASE Rewrite(t, n)
    <3>1. did[t][n] = "sent" /\ did' = [did EXCEPT ![t][n] = "more"] /\ outbox' = outbox
      BY <2>5 DEF Rewrite, Work
    <3>2. IF Meeseeks(t, n) \in detached.s THEN staging' = staging
          ELSE staging'[t] = (staging[t] \ {<<n, "final">>}) \cup {<<n, "later">>}
      BY <1>3, <2>5 DEF Rewrite
    <3> QED
      BY <2>1, <3>1, <3>2 DEF Wrote
  <2> QED
    BY <2>2, <2>3, <2>4, <2>5
<1>5. Numbered(t)' /\ CurrentMounted(t)' /\ OthersDetached(t)'
  <2>1. Numbered(t)' /\ CurrentMounted(t)'
    BY <1>2 DEF TaskInv, Numbered, CurrentMounted
  <2>2. OthersDetached(t)'
    BY <1>2 DEF TaskInv, OthersDetached
  <2> QED
    BY <2>1, <2>2
<1>6. Unstarted(t)'
  BY <1>1, <1>2 DEF TaskInv, Unstarted
<1>7. MessagesSent(t)'
  <2>1. outbox[t] \subseteq 1..Attempts[t]
    BY <1>1, <1>3
  <2> QED
    BY <1>2, <1>4, <2>1 DEF TaskInv, MessagesSent
<1>8. at[t] \in Active \cup Judged => now \in 1..Attempts[t]
  BY <1>1 DEF Begun, Active, Judged
<1>9. Holds(t)'
  <2>1. ASSUME at[t] \in Ended PROVE staging'[t] = {}
    <3>1. Meeseeks(t, n) \in detached.s
      BY <1>1, <1>2, <2>1 DEF TaskInv, OthersDetached
    <3> QED
      BY <1>4, <2>1, <3>1 DEF TaskInv, Holds
  <2>2. ASSUME at[t] \in Active PROVE staging'[t] = Wrote(now, did'[t][now])
    <3>1. staging[t] = Wrote(now, did[t][now])
      BY <2>2 DEF TaskInv, Holds
    <3>2. CASE n = now
      BY <1>4, <2>2, <3>1, <3>2 DEF TaskInv, CurrentMounted
    <3>3. CASE n # now
      <4>1. Meeseeks(t, n) \in detached.s
        BY <1>1, <1>2, <3>3 DEF TaskInv, OthersDetached
      <4> QED
        BY <1>2, <1>4, <1>8, <2>2, <3>1, <3>3, <4>1
    <3> QED
      BY <3>2, <3>3
  <2> HIDE DEF now
  <2>3. at' = at /\ num'[t] = now
    BY <1>2 DEF now
  <2> QED
    BY <2>1, <2>2, <2>3 DEF Holds, Wrote
<1>10. SentRead(t)'
  BY <1>2, <1>8 DEF TaskInv, SentRead, Misread, Active
<1>11. OnFile(t)'
  <2> SUFFICES ASSUME at[t] \in Judged, ~Misread(t), did'[t][now] = "sent"
               PROVE  artifacts[t] = {<<now, "final">>}
    BY <1>2 DEF OnFile, Misread
  <2>1. did[t][now] \in Sent
    BY DEF TaskInv, SentRead
  <2>2. did[t][now] = "sent"
    BY <1>2, <1>4, <1>8, <2>1 DEF Sent
  <2> QED
    BY <2>2 DEF TaskInv, OnFile
<1> QED
  BY <1>5, <1>6, <1>7, <1>9, <1>10, <1>11 DEF TaskInv

(* The goroutine goes on, with nothing done to the staging directory.      *)
LEMMA OnwardKept ==
  ASSUME BoxTyped, NEW t \in Tasks, TaskInv(t), Grown(t),
         UNCHANGED <<num, did, staging, detached>>, outbox'[t] \subseteq outbox[t],
         at'[t] \notin Ended, at'[t] \in Active => at[t] \in Active,
         SentRead(t)', OnFile(t)'
  PROVE  TaskInv(t)'
<1>0. num[t] \in Nat /\ \A k \in 1..num[t] : k \in Nat
  BY DEF BoxTyped
<1>1. Numbered(t)'
  BY DEF TaskInv, Grown, Numbered
<1>2. Unstarted(t)' /\ MessagesSent(t)'
  BY DEF TaskInv, Unstarted, MessagesSent
<1>3. CurrentMounted(t)' /\ OthersDetached(t)'
  BY <1>0 DEF TaskInv, CurrentMounted, OthersDetached, Grown
<1>4. Holds(t)'
  BY DEF TaskInv, Holds
<1> QED
  BY <1>1, <1>2, <1>3, <1>4 DEF TaskInv

LEMMA OwnKept ==
  ASSUME BoxTyped, NEW t \in Tasks, Own(t), [Next]_vars, TaskInv(t)
  PROVE  TaskInv(t)'
<1> DEFINE now == num[t]
<1>0. now \in Nat /\ now <= Attempts[t] /\ Attempts[t] \in Nat /\ outbox[t] \subseteq 1..now
  BY SandboxAssumption DEF BoxTyped, TypeOK
<1>1. CASE StartMeeseeks(t)
  <2>1. /\ num'[t] = now + 1 /\ now < Attempts[t] /\ UNCHANGED <<did, staging, outbox, detached>>
        /\ at[t] = "idle" /\ at'[t] \in {"executing", "cleaning"}
        /\ Meeseeks(t, num'[t]) \notin rows
    <3>1. \/ Go(t, "idle", "executing") /\ StartOK(Meeseeks(t, num'[t]))
          \/ Go(t, "idle", "cleaning")
      BY <1>1 DEF StartMeeseeks
    <3>2. at[t] = "idle" /\ at'[t] \in {"executing", "cleaning"}
      BY <3>1, Went
    <3>3. UNCHANGED <<did, staging, outbox, detached>> /\ num'[t] = now + 1 /\ now < Attempts[t]
      BY <1>1 DEF StartMeeseeks, dirs, BoxTyped
    <3>4. num'[t] \in Nat /\ num'[t] \notin 1..now
      BY <1>0, <3>3
    <3> QED
      BY <3>2, <3>3, <3>4 DEF TaskInv, Numbered
  <2>2. RowsGrow
    BY NewRows
  <2>3. Numbered(t)'
    BY <1>0, <2>1, <2>2 DEF TaskInv, Numbered, RowsGrow
  <2>4. Unstarted(t)' /\ MessagesSent(t)'
    BY <1>0, <2>1 DEF TaskInv, Unstarted, MessagesSent
  <2>5. SentRead(t)' /\ OnFile(t)'
    BY <2>1 DEF SentRead, OnFile, Judged
  <2>6. CurrentMounted(t)'
    BY <2>1 DEF CurrentMounted, Active, Judged, BoxTyped
  <2>7. OthersDetached(t)'
    <3> SUFFICES ASSUME NEW n \in 1..num'[t], Meeseeks(t, n) \in up', n < num'[t]
                 PROVE  Meeseeks(t, n) \in detached.s
      BY <2>1 DEF OthersDetached, Ended
    <3>1. n \in 1..now /\ n \in Nat /\ n # num'[t]
      BY <1>0, <2>1
    <3>2. Meeseeks(t, n) \in up
      BY <2>2, <3>1 DEF RowsGrow
    <3> QED
      BY <2>1, <3>1, <3>2 DEF TaskInv, OthersDetached, Ended
  <2>8. Holds(t)'
    <3>1. did'[t][num'[t]] = "nothing"
      BY <1>0, <2>1 DEF TaskInv, Unstarted
    <3>2. staging'[t] = {}
      BY <2>1 DEF TaskInv, Holds, Ended
    <3> QED
      BY <2>1, <3>1, <3>2 DEF Holds, Wrote, Ended
  <2> QED
    BY <2>3, <2>4, <2>5, <2>6, <2>7, <2>8 DEF TaskInv
<1>2. CASE FailAttempt(t)
  <2>1. CleanupTaskDirs(t) /\ num' = num /\ at'[t] = "idle" /\ ~StartMeeseeks(t)
    <3>1. (Go(t, "failing", "idle") \/ Go(t, "cleaning", "idle")) /\ CleanupTaskDirs(t) /\ num' = num
      BY <1>2 DEF FailAttempt
    <3> QED
      BY <3>1, Went DEF StartMeeseeks, Go
  <2> QED
    BY <2>1, CleanupEnds, EndsKept, NoNewWorker DEF Ended
<1>3. CASE ~StartMeeseeks(t) /\ ~FailAttempt(t)
  <2>1. Grown(t)
    BY <1>3, NoNewWorker
  <2>2. UNCHANGED <<num, did, staging, detached>> /\ outbox'[t] \subseteq outbox[t]
    <3>1. CASE ReadOutput(t)
      BY <3>1 DEF ReadOutput, BoxTyped
    <3>2. CASE \/ TimeOut(t) \/ StartValidator(t) \/ RunChecks(t) \/ StartReviewer(t) \/ RunReview(t)
      BY <3>2 DEF TimeOut, StartValidator, RunChecks, StartReviewer, RunReview, dirs
    <3> QED
      BY <1>1, <1>2, <1>3, <3>1, <3>2 DEF Own
  <2>3. /\ at'[t] \notin Ended /\ (at'[t] \in Active => at[t] \in Active)
        /\ SentRead(t)' /\ OnFile(t)'
    <3>1. CASE at'[t] = "failing"
      BY <3>1 DEF Active, Judged, Ended, SentRead, OnFile
    <3>2. CASE ReadOutput(t)
      <4>1. PICK n \in outbox[t] :
              /\ Go(t, "executing", "output")
              /\ misread' = IF n = now THEN misread ELSE misread \cup {<<t, now>>}
        BY <3>2 DEF ReadOutput
      <4>2. at[t] = "executing" /\ at'[t] = "output"
        BY <4>1, Went
      <4>3. SentRead(t)'
        BY <2>2, <4>1, <4>2 DEF TaskInv, MessagesSent, SentRead, Misread
      <4> QED
        BY <4>2, <4>3 DEF Active, Judged, Ended, OnFile
    <3>3. CASE StartValidator(t) /\ at'[t] # "failing"
      <4>1. /\ at[t] = "output" /\ at'[t] = "validating" /\ misread' = misread
            /\ artifacts'[t] = staging[t]
        BY <3>3, Went DEF StartValidator, past, BoxTyped
      <4>2. SentRead(t)'
        BY <2>2, <4>1 DEF TaskInv, SentRead, Misread
      <4>3. OnFile(t)'
        <5>1. did[t][now] = "sent" => staging[t] = {<<now, "final">>}
          BY <4>1 DEF TaskInv, Holds, Active, Wrote
        <5> QED
          BY <2>2, <4>1, <5>1 DEF OnFile
      <4> QED
        BY <4>1, <4>2, <4>3 DEF Active, Judged, Ended
    <3>4. CASE (RunChecks(t) \/ StartReviewer(t) \/ RunReview(t)) /\ at'[t] # "failing"
      <4>1. /\ at[t] \in Judged /\ at'[t] \in Judged /\ misread' = misread /\ artifacts' = artifacts
        <5>1. CASE RunChecks(t)
          <6>1. /\ Go(t, "validating", "checked") \/ Go(t, "validating", "failing")
                /\ misread' = misread /\ artifacts' = artifacts
            BY <5>1 DEF RunChecks, past
          <6> QED
            BY <3>4, <6>1, Went DEF Judged
        <5>2. CASE StartReviewer(t)
          BY <3>4, <5>2, Went DEF StartReviewer, past, Judged
        <5>3. CASE RunReview(t)
          BY <3>4, <5>3, Went DEF RunReview, ParseVerdict, past, Judged
        <5> QED
          BY <3>4, <5>1, <5>2, <5>3
      <4>2. SentRead(t)'
        BY <2>2, <4>1 DEF TaskInv, SentRead, Misread
      <4>3. OnFile(t)'
        BY <2>2, <4>1 DEF TaskInv, OnFile, Misread
      <4>4. at[t] \in Active /\ at'[t] \notin Ended
        BY <4>1 DEF Judged, Active, Ended
      <4> QED
        BY <4>2, <4>3, <4>4
    <3>5. TimeOut(t) => at'[t] = "failing"
      BY Went DEF TimeOut
    <3> QED
      BY <1>3, <3>1, <3>2, <3>3, <3>4, <3>5 DEF Own
  <2> QED
    BY <2>1, <2>2, <2>3, OnwardKept
<1> QED
  BY <1>1, <1>2, <1>3

LEMMA TasksKept ==
  ASSUME BoxTyped, Begun, OneItem, \A t \in Tasks : TaskInv(t), [Next]_vars
  PROVE  (\A t \in Tasks : TaskInv(t))'
<1> SUFFICES ASSUME NEW u \in Tasks
             PROVE  TaskInv(u)'
  OBVIOUS
<1>1. CASE Own(u)
  BY <1>1, OwnKept
<1>2. CASE ~Own(u)
  <2>1. Grown(u)
    BY <1>2, NoNewWorker DEF Own
  <2>2. ASSUME NEW t \in Tasks, Own(t) PROVE TaskInv(u)'
    BY <1>2, <2>1, <2>2, OwnStill, StillKept
  <2>3. ASSUME NEW t \in Tasks, NEW n \in 1..Attempts[t],
               WriteDraft(t, n) \/ WriteFinal(t, n) \/ SendOutput(t, n) \/ Rewrite(t, n)
        PROVE  TaskInv(u)'
    BY <2>1, <2>3, WorkMoves, WorkKept, StillKept
  <2>4. CASE \/ \E c \in ending : StopApproved(c)
             \/ \E t \in Tasks : \E n \in 1..Attempts[t] : Exit(t, n)
             \/ Crash \/ UNCHANGED vars
    BY <2>1, <2>4, RestStill, StillKept
  <2>5. CASE ApplyOutput \/ StartMergeCheck \/ EndMergeCheck
    BY <2>1, <2>5, MergeMoves, StillKept, EndsKept
  <2>6. CASE Recover
    BY <2>1, <2>6, RecoverEnds, EndsKept
  <2> QED
    BY <2>2, <2>3, <2>4, <2>5, <2>6 DEF Next, Own
<1> QED
  BY <1>1, <1>2

-----------------------------------------------------------------------------
(* From the queue to the branch.                                           *)

(* No step touches what is on file of a task in the queue or merged, nor    *)
(* whether its worker had finished: an output taken from it stays its own.  *)
LEMMA OutputKept ==
  ASSUME BoxTyped, NEW t \in Tasks, at[t] \in {"queued", "merged"}, NEW n, NEW output,
         Kept(t, n, output), [Next]_vars
  PROVE  Kept(t, n, output)'
<1>1. ASSUME artifacts'[t] = artifacts[t], <<t, n>> \in misread' <=> <<t, n>> \in misread,
             did'[t] = did[t]
      PROVE  Kept(t, n, output)'
  BY <1>1 DEF Kept, OwnOutput
<1>2. ASSUME NEW u \in Tasks, Own(u) PROVE Kept(t, n, output)'
  <2>1. u # t
    BY <1>2, OwnMoves
  <2>2. did'[t] = did[t] /\ artifacts'[t] = artifacts[t]
    BY <1>2, <2>1, OwnStill DEF Still
  <2>3. \E x : misread' = misread \/ misread' = misread \cup {<<u, x>>}
    BY <1>2 DEF Own, StartMeeseeks, ReadOutput, TimeOut, StartValidator, RunChecks, StartReviewer,
      RunReview, FailAttempt, past
  <2> QED
    BY <1>1, <2>1, <2>2, <2>3
<1>3. ASSUME NEW u \in Tasks, NEW k \in 1..Attempts[u],
             WriteDraft(u, k) \/ WriteFinal(u, k) \/ SendOutput(u, k) \/ Rewrite(u, k)
      PROVE  Kept(t, n, output)'
  <2>1. UNCHANGED <<artifacts, misread>> /\ (u # t => did'[t] = did[t])
    BY <1>3, WorkMoves DEF Still
  <2>2. ASSUME u = t, <<t, n>> \notin misread
        PROVE  did'[t][n] \in Sent /\ (did'[t][n] = "sent" => did[t][n] = "sent")
    <3>1. did[t][n] \in Sent /\ n \in 1..Attempts[t]
      BY <2>2 DEF Kept
    <3>2. CASE k # n
      BY <1>3, <2>2, <3>1, <3>2, WorkMoves
    <3>3. CASE k = n
      <4>1. did'[t][n] \in Sent
        BY <1>3, <2>2, <3>1, <3>3, WorkMoves
      <4>2. Rewrite(t, n)
        BY <1>3, <2>2, <3>1, <3>3 DEF WriteDraft, WriteFinal, SendOutput, Work, Sent
      <4>3. did[t][n] = "sent"
        BY <4>2 DEF Rewrite, Work
      <4> QED
        BY <4>1, <4>3
    <3> QED
      BY <3>2, <3>3
  <2> QED
    BY <1>1, <2>1, <2>2 DEF Kept, OwnOutput
<1>4. CASE \/ \E c \in ending : StopApproved(c)
           \/ \E u \in Tasks : \E k \in 1..Attempts[u] : Exit(u, k)
           \/ Crash \/ Recover \/ UNCHANGED vars
  BY <1>1, <1>4 DEF StopApproved, Exit, Crash, Recover, vars, dirs, past
<1>5. CASE ApplyOutput \/ StartMergeCheck \/ EndMergeCheck
  <2>1. UNCHANGED <<artifacts, misread, did>>
    BY <1>5 DEF ApplyOutput, StartMergeCheck, EndMergeCheck, Requeue, CleanupTaskDirs, past, dirs
  <2> QED
    BY <1>1, <2>1
<1> QED
  BY <1>2, <1>3, <1>4, <1>5 DEF Next, Own

LEMMA MergingStays ==
  ASSUME BoxTyped, Begun, OneItem, \A t \in Tasks : TaskInv(t), MergingKept, [Next]_vars
  PROVE  MergingKept'
<1>0. merging \in MergeItem \cup {NoItem}
  BY DEF BoxTyped, TypeOK
(* The item in hand stays in hand. *)
<1>a. ASSUME merging # NoItem, merging'.task = merging.task, merging'.attempt = merging.attempt,
             merging'.output = merging.output
      PROVE  MergingKept'
  <2>1. merging.task \in Tasks /\ at[merging.task] = "queued"
    BY <1>0, <1>a DEF OneItem, MergeItem
  <2>2. Kept(merging.task, merging.attempt, merging.output)'
    <3> DEFINE t == merging.task
               n == merging.attempt
               output == merging.output
    <3>1. t \in Tasks /\ at[t] = "queued" /\ Kept(t, n, output)
      BY <1>a, <2>1 DEF MergingKept
    <3>2. \A x, y, z : x \in Tasks /\ at[x] = "queued" /\ Kept(x, y, z) => Kept(x, y, z)'
      BY OutputKept
    <3>3. t' = t /\ n' = n /\ output' = output
      BY <1>a
    <3> HIDE DEF t, n, output
    <3>4. Kept(t, n, output)'
      BY <3>1, <3>2, <3>3 DEF Kept, OwnOutput
    <3> QED
      BY <3>4 DEF t, n, output
  <2> QED
    BY <2>2 DEF MergingKept
<1>1. CASE ApplyOutput
  <2> DEFINE i == Head(queue)
  <2>1. /\ merging = NoItem /\ queue # <<>> /\ UNCHANGED <<num, did, artifacts, misread>>
        /\ \/ merging' = merging
           \/ merging' = [task |-> i.task, attempt |-> i.attempt, output |-> staging[i.task],
                          checking |-> FALSE]
    BY <1>1 DEF ApplyOutput, past
  <2>2. i.task \in Tasks /\ at[i.task] = "queued" /\ num[i.task] = i.attempt
    <3>1. queue \in Seq(QueueItem)
      BY DEF BoxTyped, TypeOK
    <3>2. 1 \in DOMAIN queue /\ i = queue[1] /\ i \in QueueItem
      BY <2>1, <3>1
    <3> QED
      BY <3>2 DEF OneItem, QueueItem
  <2>3. ASSUME NEW t \in Tasks, at[t] = "queued" PROVE Kept(t, num[t], staging[t])
    <3>1. num[t] \in 1..Attempts[t]
      <4>1. num[t] > 0 /\ num[t] \in 0..Attempts[t] /\ Attempts[t] \in Nat
        BY <2>3, SandboxAssumption DEF Begun, BoxTyped, TypeOK
      <4> QED
        BY <4>1
    <3>2. staging[t] = Wrote(num[t], did[t][num[t]])
      BY <2>3 DEF TaskInv, Holds, Active, Judged
    <3>3. did[t][num[t]] \in Progress
      BY <3>1 DEF BoxTyped
    <3>4. \A o \in staging[t] : o[1] = num[t]
      BY <3>2, <3>3 DEF Wrote, Progress, Sent
    <3>5. ~Misread(t) => did[t][num[t]] \in Sent
      BY <2>3 DEF TaskInv, SentRead, Judged
    <3>6. ~Misread(t) => <<num[t], "draft">> \notin staging[t]
      BY <3>2, <3>5 DEF Wrote, Sent
    <3>7. ~Misread(t) /\ did[t][num[t]] = "sent" => staging[t] = artifacts[t]
      BY <2>3, <3>2 DEF TaskInv, OnFile, Judged, Wrote
    <3> QED
      BY <3>1, <3>4, <3>5, <3>6, <3>7 DEF Kept, OwnOutput, Misread
  <2>4. Kept(i.task, i.attempt, staging[i.task])
    BY <2>2, <2>3
  <2> HIDE DEF i
  <2>5. CASE merging' = merging
    BY <2>1, <2>5 DEF MergingKept
  <2>6. CASE merging' = [task |-> i.task, attempt |-> i.attempt, output |-> staging[i.task],
                         checking |-> FALSE]
    <3>1. merging'.task = i.task /\ merging'.attempt = i.attempt /\ merging'.output = staging[i.task]
      BY <2>6
    <3> QED
      BY <2>1, <2>4, <3>1 DEF MergingKept, Kept, OwnOutput
  <2> QED
    BY <2>1, <2>5, <2>6
<1>2. CASE StartMergeCheck \/ EndMergeCheck
  <2>1. /\ merging # NoItem
        /\ merging' = NoItem \/ merging' = [merging EXCEPT !.checking = TRUE]
    BY <1>2 DEF StartMergeCheck, EndMergeCheck
  <2>2. CASE merging' = NoItem
    BY <2>2 DEF MergingKept
  <2>3. CASE merging' = [merging EXCEPT !.checking = TRUE]
    <3>1. /\ merging'.task = merging.task /\ merging'.attempt = merging.attempt
          /\ merging'.output = merging.output
      BY <1>0, <2>1, <2>3 DEF MergeItem
    <3> QED
      BY <1>a, <2>1, <3>1
  <2> QED
    BY <2>1, <2>2, <2>3
<1>3. CASE ~ApplyOutput /\ ~StartMergeCheck /\ ~EndMergeCheck
  <2>1. merging' = merging \/ merging' = NoItem
    <3>1. ASSUME NEW t \in Tasks, Own(t) PROVE merging' = merging
      BY <3>1, OwnMoves
    <3>2. (\A t \in Tasks : ~Own(t)) => merging' = merging \/ merging' = NoItem
      BY <1>3, OthersMove DEF Crash, Recover, mergeq
    <3> QED
      BY <3>1, <3>2
  <2>2. CASE merging' = NoItem
    BY <2>2 DEF MergingKept
  <2>3. CASE merging' = merging /\ merging # NoItem
    BY <1>a, <2>3
  <2> QED
    BY <2>1, <2>2, <2>3
<1> QED
  BY <1>1, <1>2, <1>3

(* A merged task stays merged. *)
LEMMA StaysMerged ==
  ASSUME BoxTyped, OneItem, NEW u \in Tasks, at[u] = "merged", [Next]_vars
  PROVE  at'[u] = "merged"
<1>1. ASSUME NEW t \in Tasks, Own(t) PROVE at'[u] = "merged"
  <2>1. u # t
    BY <1>1, OwnMoves
  <2> QED
    BY <1>1, <2>1, OwnMoves
<1>2. CASE ApplyOutput \/ StartMergeCheck \/ EndMergeCheck
  BY <1>2, MergeMoves DEF Still
<1>3. CASE Crash \/ Recover
  BY <1>3 DEF Crash, Recover
<1> QED
  BY <1>1, <1>2, <1>3, OthersMove

LEMMA MergedStays ==
  ASSUME BoxTyped, OneItem, MergingKept, MergingKept', MergedKept, [Next]_vars
  PROVE  MergedKept'
<1>1. ASSUME NEW m \in merged PROVE at'[m[1]] = "merged" /\ Kept(m[1], m[2], m[3])'
  <2>1. m[1] \in Tasks /\ at[m[1]] = "merged" /\ Kept(m[1], m[2], m[3])
    BY DEF MergedKept, BoxTyped
  <2>2. at'[m[1]] = "merged"
    BY <2>1, StaysMerged
  <2> QED
    BY <2>1, <2>2, OutputKept
<1>2. CASE merged' = merged
  BY <1>1, <1>2 DEF MergedKept
<1>3. CASE EndMergeCheck
  <2> DEFINE t == merging.task
             new == <<t, merging.attempt, merging.output>>
  <2>1. /\ merging \in MergeItem /\ at[t] = "queued" /\ Kept(t, merging.attempt, merging.output)
    BY <1>3 DEF EndMergeCheck, OneItem, MergingKept, BoxTyped, TypeOK
  <2>2. \/ merged' = merged
        \/ merged' = merged \cup {new} /\ at' = [at EXCEPT ![t] = "merged"]
    BY <1>3 DEF EndMergeCheck
  <2>3. t \in Tasks
    BY <2>1 DEF MergeItem
  <2>4. UNCHANGED <<artifacts, misread, did>>
    BY <1>3 DEF EndMergeCheck, Requeue, CleanupTaskDirs, past
  <2>5. ASSUME NEW m, m = new, at' = [at EXCEPT ![t] = "merged"]
        PROVE  at'[m[1]] = "merged" /\ Kept(m[1], m[2], m[3])'
    <3>1. m[1] = t /\ m[2] = merging.attempt /\ m[3] = merging.output
      BY <2>5
    <3>2. at'[t] = "merged"
      BY <2>3, <2>5 DEF BoxTyped, TypeOK
    <3>3. Kept(m[1], m[2], m[3])
      BY <2>1, <3>1
    <3> HIDE DEF t, new
    <3> QED
      BY <2>4, <3>1, <3>2, <3>3 DEF Kept, OwnOutput
  <2> HIDE DEF t, new
  <2> QED
    BY <1>1, <1>2, <2>2, <2>5 DEF MergedKept
<1>4. CASE ~EndMergeCheck
  <2>1. ASSUME NEW t \in Tasks, Own(t) PROVE merged' = merged
    BY <2>1, OwnMoves
  <2>2. ApplyOutput \/ StartMergeCheck \/ Crash \/ Recover => merged' = merged
    BY DEF ApplyOutput, StartMergeCheck, Crash, Recover, mergeq
  <2> QED
    BY <1>2, <1>4, <2>1, <2>2, OthersMove
<1> QED
  BY <1>3, <1>4

-----------------------------------------------------------------------------
(* The invariant of the specification.                                     *)

LEMMA BoxStarts ==
  ASSUME Init
  PROVE  BoxInv
<1>1. BoxTyped
  BY TypesStart
<1>2. Alive /\ Begun /\ OneItem /\ ContainersOwned
  BY DEF Init, Alive, Begun, OneItem, ContainersOwned
<1>3. ASSUME NEW t \in Tasks PROVE TaskInv(t)
  <2>1. /\ at[t] = "idle" /\ num[t] = 0 /\ rows = {} /\ up = {} /\ outbox[t] = {}
        /\ \A n \in 1..Attempts[t] : did[t][n] = "nothing"
    BY DEF Init
  <2>2. Numbered(t) /\ Unstarted(t) /\ MessagesSent(t)
    BY <2>1 DEF Numbered, Unstarted, MessagesSent
  <2>3. OthersDetached(t) /\ CurrentMounted(t) /\ Holds(t)
    <3>1. staging[t] = {}
      BY DEF Init
    <3> QED
      BY <2>1, <3>1 DEF OthersDetached, CurrentMounted, Holds, Active, Judged
  <2>4. SentRead(t) /\ OnFile(t)
    BY <2>1 DEF SentRead, OnFile, Judged
  <2> QED
    BY <2>2, <2>3, <2>4 DEF TaskInv
<1>4. MergingKept /\ MergedKept
  BY DEF Init, MergingKept, MergedKept
<1> QED
  BY <1>1, <1>2, <1>3, <1>4 DEF BoxInv, OwnedInv

LEMMA BoxKept ==
  ASSUME BoxInv, [Next]_vars
  PROVE  BoxInv'
<1>1. /\ BoxTyped /\ Alive /\ Begun /\ OneItem /\ ContainersOwned
      /\ \A t \in Tasks : TaskInv(t)
      /\ MergingKept /\ MergedKept
  BY DEF BoxInv, OwnedInv
<1>2. \A t \in Tasks : Numbered(t)
  BY <1>1 DEF TaskInv
<1>3. BoxTyped' /\ Alive' /\ Begun' /\ OneItem' /\ ContainersOwned'
  BY <1>1, <1>2, TypesKept, AliveKept, BegunKept, OneItemKept, OwnedKept
<1>4. (\A t \in Tasks : TaskInv(t))' /\ MergingKept'
  BY <1>1, TasksKept, MergingStays
<1>5. MergedKept'
  BY <1>1, <1>4, MergedStays
<1> QED
  BY <1>3, <1>4, <1>5 DEF BoxInv, OwnedInv

LEMMA BoxAlways == Spec => []BoxInv
<1>1. Init => BoxInv
  BY BoxStarts
<1>2. BoxInv /\ [Next]_vars => BoxInv'
  BY BoxKept
<1> QED
  BY <1>1, <1>2, PTL DEF Spec

(* Types are kept: above all, every container that runs or whose row is     *)
(* open was inserted under its name, a name is never forgotten, and the     *)
(* messages in a task's ipc directory are of attempts that were started.    *)
THEOREM SandboxTypes == Spec => []TypeOK
<1>1. BoxInv => TypeOK
  BY DEF BoxInv, OwnedInv, BoxTyped
<1> QED
  BY <1>1, BoxAlways, PTL

(* While the engine runs, every running container is on file as running    *)
(* and is one that the goroutine of its task, a deferred call or the merge *)
(* worker will stop, except those Docker failed to stop or to remove:      *)
(* whatever fails, for any number of tasks, attempts, faults and crashes.  *)
THEOREM ContainersCorrect == Spec => []ContainersOwned
<1>1. BoxInv => ContainersOwned
  BY DEF BoxInv, OwnedInv
<1> QED
  BY <1>1, BoxAlways, PTL

(* What the merge queue commits for an attempt was written by that         *)
(* attempt's worker: no earlier worker, failed merge or restart has its     *)
(* files there.  It is finished, and when the worker wrote nothing after   *)
(* its message it is the output that was put on file, unless the engine     *)
(* took an earlier attempt's message for that of the present one.          *)
THEOREM MergedCorrect == Spec => []MergedIsOwn
<1>1. BoxInv => MergedIsOwn
  BY DEF BoxInv, MergedKept, Kept, MergedIsOwn
<1> QED
  BY <1>1, BoxAlways, PTL
=============================================================================
