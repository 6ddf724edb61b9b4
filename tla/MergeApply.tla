------------------------------ MODULE MergeApply ------------------------------
(***************************************************************************)
(* What the merge queue does to the project: the manifest of an approved   *)
(* attempt, the files it writes and removes one by one, the integration    *)
(* checks, the commit, the revert of a failure; and, beside it, CancelRun, *)
(* which cleans the same working tree.  Pipeline has the attempts' phases, *)
(* Scheduler the locks: here an attempt is running, queued or merging, and *)
(* the locks are those of its target files while it is.                    *)
(***************************************************************************)
EXTENDS GitRepo, FiniteSets

CONSTANTS
  Items,           \* tasks
  NoItem,          \* no task
  base, work,      \* the branches of the run
  Initial,         \* paths the base branch has when the run starts
  targets,         \* task |-> its target files; {} for a task without any
  Covers,          \* pairs <<p, q>>: the string q is a prefix of the string p
  Manifests,       \* task |-> manifests its attempt may come with
  Partial,         \* what an interrupted copy leaves
  Faults,          \* commands that may fail: "head", "diff", "remove", "copy", "add", "commit"
  MaxTries,        \* bound on the attempts of each task
  MaxFaults, MaxCrashes, MaxCancels

Content == Paths \cup Items \cup {Partial, Absent}
Unset == <<>>
Manifest == [added : SUBSET Paths, modified : SUBSET Paths, deleted : SUBSET Paths,
             renamed : SUBSET (Paths \X Paths)]

(* What the constants are. *)
ASSUME MergeAssumption ==
  /\ Absent \notin Paths \cup Items \cup {Partial} /\ NoItem \notin Items
  /\ Unset \notin Content
  /\ Branches = {base, work} /\ base # work
  /\ Initial \subseteq Paths
  /\ targets \in [Items -> SUBSET Paths]
  /\ Covers \subseteq Paths \X Paths /\ \A p \in Paths : <<p, p>> \in Covers
  /\ \A i \in Items : Manifests[i] \subseteq Manifest
  /\ MaxTries \in [Items -> Nat] /\ {MaxFaults, MaxCrashes, MaxCancels} \subseteq Nat

VARIABLES
  repo,            \* the project's git repository
  stage,           \* task |-> where its attempt is
  tries,           \* task |-> its number of attempts
  snapshot,        \* task |-> base_snapshot of its attempt
  manifest,        \* task |-> the validated manifest
  queue, mpc, cur, \* the merge queue, its worker and the item in hand
  todo,            \* what applyOutput has left: <<"remove" or "copy", path>>
  backup,          \* fileBackup: path |-> what was there, Unset if not recorded
  cancel,          \* the next step of CancelRun
  faults, crashes, \* counters for the bounds
  checked,         \* history: the tree the integration checks passed
  left             \* history: paths a failure or a cancel may have left changed

worker  == <<queue, mpc, cur, todo, backup>>
attempts == <<stage, tries, snapshot, manifest>>
vars == <<repo, attempts, worker, cancel, faults, crashes, checked, left>>

NoManifest == [added |-> {}, modified |-> {}, deleted |-> {}, renamed |-> {}]
NoBackup == [p \in Paths |-> Unset]

OutputFiles(m) == m.added \cup m.modified \cup {r[2] : r \in m.renamed}
RemovedFiles(m) == m.deleted \cup {r[1] : r \in m.renamed}
ReferencedFiles(m) == OutputFiles(m) \cup RemovedFiles(m)

TypeOK ==
  /\ repo.log \in Seq([tree : [Paths -> Content], item : Items \cup {Absent}])
  /\ repo.tip \in [Branches -> DOMAIN repo.log] /\ repo.branch \in Branches
  /\ repo.index \in [Paths -> Content] /\ repo.tree \in [Paths -> Content]
  /\ stage \in [Items -> {"new", "running", "queued", "merging", "done"}]
  /\ tries \in [Items -> Nat]
  /\ snapshot \in [Items -> Nat]
  /\ manifest \in [Items -> Manifest]
  /\ queue \in Seq(Items) /\ cur \in Items \cup {NoItem}
  /\ mpc \in {"idle", "apply", "add", "commit", "finish"}
  /\ todo \subseteq {"remove", "copy"} \X Paths
  /\ backup \in [Paths -> Content \cup {Unset}]
  /\ cancel \in {"no", "reset", "clean", "checkout", "done"}
  /\ faults \in 0..MaxFaults /\ crashes \in 0..MaxCrashes
  /\ checked \in [Paths -> Content] /\ left \subseteq Paths

(* A run has started: its work branch is checked out and the tree is clean. *)
Init ==
  /\ repo = LET r == NewRepo([p \in Paths |-> IF p \in Initial THEN p ELSE Absent], base)
            IN  SetupWorkBranch(r, base, work)
  /\ stage = [i \in Items |-> "new"] /\ tries = [i \in Items |-> 0]
  /\ snapshot = [i \in Items |-> 0] /\ manifest = [i \in Items |-> NoManifest]
  /\ queue = <<>> /\ mpc = "idle" /\ cur = NoItem
  /\ todo = {} /\ backup = NoBackup
  /\ cancel = "no" /\ faults = 0 /\ crashes = 0
  /\ checked = repo.tree /\ left = {}

Fault(kind) == kind \in Faults /\ faults < MaxFaults /\ faults' = faults + 1

-----------------------------------------------------------------------------
(* The attempt: dispatched from HEAD under the locks of its target files,  *)
(* it comes back with a manifest.                                          *)

InFlight(i) == stage[i] \in {"running", "queued", "merging"}

Dispatch(i) ==
  /\ cancel = "no" /\ stage[i] = "new" /\ tries[i] < MaxTries[i]
  /\ \A j \in Items : InFlight(j) => targets[i] \cap targets[j] = {}
  /\ stage' = [stage EXCEPT ![i] = "running"]
  /\ tries' = [tries EXCEPT ![i] = @ + 1]
  /\ snapshot' = [snapshot EXCEPT ![i] = CurrentHEAD(repo)]
  /\ UNCHANGED <<repo, manifest, worker, cancel, faults, crashes, checked, left>>

(* isInScope compares prefixes; a task without targets has no scope. *)
isInScope(p, scope) == scope = {} \/ \E q \in scope : <<p, q>> \in Covers

ValidateManifest(i, m) ==
  /\ m.added \cap m.modified = {}
  /\ \A r \in m.renamed : /\ r[2] \notin m.added \cup m.modified
                          /\ \A s \in m.renamed : r[2] = s[2] => r = s
  /\ \A p \in ReferencedFiles(m) : isInScope(p, targets[i])

Finish(i) ==
  /\ stage[i] = "running"
  /\ \E m \in Manifests[i] :
       IF ValidateManifest(i, m)
       THEN /\ stage' = [stage EXCEPT ![i] = "queued"]
            /\ manifest' = [manifest EXCEPT ![i] = m]
            /\ queue' = Append(queue, i)
       ELSE /\ stage' = [stage EXCEPT ![i] = "new"]
            /\ UNCHANGED <<manifest, queue>>
  /\ UNCHANGED <<repo, tries, snapshot, mpc, cur, todo, backup, cancel, faults, crashes,
                 checked, left>>

-----------------------------------------------------------------------------
(* The worker: one item from the queue to its commit or its failure. *)

Released(next) == /\ stage' = [stage EXCEPT ![cur] = next]
                  /\ mpc' = "idle" /\ cur' = NoItem /\ todo' = {} /\ backup' = NoBackup

(* failItem gives the task back to the scheduler. *)
FailItem == Released("new") /\ UNCHANGED <<tries, snapshot, manifest, queue>>

checkAddedOnly(i, changed) == manifest[i].added \cap changed # {}

checkConflicts(i, changed) == OutputFiles(manifest[i]) \cap changed # {}

(* When git cannot tell what changed, an output that exists is a conflict. *)
checkConflictsConservative(i) == \E p \in OutputFiles(manifest[i]) : repo.tree[p] # Absent

Stale(i) == snapshot[i] # CurrentHEAD(repo)

(* The item is dequeued; if HEAD has moved since its snapshot it may have   *)
(* been overtaken, and is requeued if so.                                  *)
StartMerge(conflict) ==
  /\ mpc = "idle" /\ queue # <<>>
  /\ LET i == Head(queue)
         m == manifest[i]
     IN  IF conflict
         THEN stage' = [stage EXCEPT ![i] = "new"] /\ UNCHANGED <<mpc, cur, todo, backup>>
         ELSE /\ stage' = [stage EXCEPT ![i] = "merging"]
              /\ mpc' = "apply" /\ cur' = i /\ backup' = NoBackup
              /\ todo' = ({"remove"} \X RemovedFiles(m)) \cup ({"copy"} \X OutputFiles(m))
  /\ queue' = Tail(queue)
  /\ UNCHANGED <<repo, tries, snapshot, manifest, cancel, crashes, checked, left>>

ProcessItem ==
  /\ queue # <<>>
  /\ LET i == Head(queue)
     IN  \/ /\ StartMerge(Stale(i) /\ checkConflicts(i, ChangedFilesSince(repo, snapshot[i])))
            /\ UNCHANGED faults
         \/ Stale(i) /\ Fault("diff") /\ StartMerge(checkConflictsConservative(i))
         \/ Fault("head") /\ StartMerge(TRUE)

(* The staged file of an addition or a modification is new; that of a      *)
(* rename is the file the attempt was given under the old name.            *)
StagedContent(i, p) ==
  LET old == TreeOf(repo, snapshot[i])
      from == {q \in Paths : <<q, p>> \in manifest[i].renamed /\ old[q] # Absent}
  IN  IF from = {} THEN i ELSE old[CHOOSE q \in from : TRUE]

Write(p, content) == [repo EXCEPT !.tree = [@ EXCEPT ![p] = content]]

RemoveUnsaved ==
  /\ mpc = "apply"
  /\ \E p \in Paths :
       /\ <<"remove", p>> \in todo
       /\ repo' = Write(p, Absent)
       /\ todo' = todo \ {<<"remove", p>>}
  /\ UNCHANGED <<attempts, queue, mpc, cur, backup, cancel, faults, crashes, checked, left>>

(* Renamed and deleted paths first; only one that exists is backed up. *)
RemoveFile ==
  /\ mpc = "apply"
  /\ \E p \in Paths :
       /\ <<"remove", p>> \in todo
       /\ backup' = IF repo.tree[p] = Absent THEN backup
                    ELSE [backup EXCEPT ![p] = repo.tree[p]]
       /\ repo' = Write(p, Absent)
       /\ todo' = todo \ {<<"remove", p>>}
  /\ UNCHANGED <<attempts, queue, mpc, cur, cancel, faults, crashes, checked, left>>

(* The error of the removal is dropped: the file stays, and the merge goes on. *)
RemoveFails ==
  /\ Fault("remove") /\ mpc = "apply"
  /\ \E p \in Paths :
       /\ <<"remove", p>> \in todo /\ repo.tree[p] # Absent
       /\ backup' = [backup EXCEPT ![p] = repo.tree[p]]
       /\ todo' = todo \ {<<"remove", p>>}
       /\ left' = left \cup {p}
  /\ UNCHANGED <<repo, attempts, queue, mpc, cur, cancel, crashes, checked>>

NextCopy(p) == mpc = "apply" /\ <<"copy", p>> \in todo /\ \A s \in todo : s[1] = "copy"

CopyFile ==
  /\ \E p \in Paths :
       /\ NextCopy(p)
       /\ backup' = [backup EXCEPT ![p] = repo.tree[p]]
       /\ repo' = Write(p, StagedContent(cur, p))
       /\ todo' = todo \ {<<"copy", p>>}
  /\ UNCHANGED <<attempts, queue, mpc, cur, cancel, faults, crashes, checked, left>>

(* An error of applyOutput: processItem returns without a revert. *)
CopyFails ==
  /\ Fault("copy")
  /\ \E p \in Paths : NextCopy(p) /\ \E c \in {repo.tree[p], Partial} : repo' = Write(p, c)
  /\ left' = left \cup ReferencedFiles(manifest[cur])
  /\ FailItem /\ UNCHANGED <<cancel, crashes, checked>>

ChecksPass ==
  /\ mpc = "apply" /\ todo = {}
  /\ checked' = repo.tree /\ mpc' = "add"
  /\ UNCHANGED <<repo, attempts, queue, cur, todo, backup, cancel, faults, crashes, left>>

RevertKeepsNew(r) ==
  [r EXCEPT !.tree = [p \in Paths |-> IF backup[p] \in {Unset, Absent} THEN @[p]
                                      ELSE backup[p]]]

(* An output that is also removed has its backup overwritten by the second *)
(* reading, which found no file.                                           *)
RevertOutput(r) ==
  [r EXCEPT !.tree = [p \in Paths |-> IF backup[p] = Unset THEN @[p] ELSE backup[p]]]

Overwritten(m) == OutputFiles(m) \cap RemovedFiles(m)

(* The checks refuse the tree, or there was an error. *)
ChecksFail ==
  /\ mpc = "apply" /\ todo = {}
  /\ repo' = RevertOutput(repo) /\ FailItem
  /\ left' = left \cup Overwritten(manifest[cur])
  /\ UNCHANGED <<cancel, faults, crashes, checked>>

allOutputsOnly(m) == OutputFiles(m)
allGitFiles(m) == OutputFiles(m) \cup RemovedFiles(m)

StageFiles ==
  /\ mpc = "add" /\ CanAdd(repo, allGitFiles(manifest[cur]))
  /\ repo' = AddFiles(repo, allGitFiles(manifest[cur]))
  /\ mpc' = "commit"
  /\ UNCHANGED <<attempts, queue, cur, todo, backup, cancel, faults, crashes, checked, left>>

StageFails ==
  /\ mpc = "add"
  /\ \/ ~CanAdd(repo, allGitFiles(manifest[cur])) /\ UNCHANGED faults
     \/ Fault("add")
  /\ repo' = RevertOutput(repo) /\ FailItem
  /\ left' = left \cup Overwritten(manifest[cur])
  /\ UNCHANGED <<cancel, crashes, checked>>

CommitItem ==
  /\ mpc = "commit" /\ CanCommit(repo)
  /\ repo' = Commit(repo, cur)
  /\ mpc' = "finish"
  /\ UNCHANGED <<attempts, queue, cur, todo, backup, cancel, faults, crashes, checked, left>>

(* The revert puts the files back and leaves them in the index. *)
CommitFails ==
  /\ mpc = "commit"
  /\ \/ ~CanCommit(repo) /\ left' = left \cup Overwritten(manifest[cur]) /\ UNCHANGED faults
     \/ Fault("commit") /\ left' = left \cup ReferencedFiles(manifest[cur])
  /\ repo' = RevertOutput(repo) /\ FailItem
  /\ UNCHANGED <<cancel, crashes, checked>>

CompleteTask ==
  /\ mpc = "finish" /\ Released("done")
  /\ UNCHANGED <<repo, tries, snapshot, manifest, queue, cancel, faults, crashes, checked,
                 left>>

-----------------------------------------------------------------------------
(* CancelRun: the run's status, then the three commands of CancelCleanup.  *)
(* Nothing here or in the merge queue looks at the other.                  *)

CancelStatus ==
  /\ cancel = "no" /\ MaxCancels > 0
  /\ cancel' = "reset" /\ left' = Paths
  /\ UNCHANGED <<repo, attempts, worker, faults, crashes, checked>>

CancelStep(here, next) ==
  /\ cancel = here /\ cancel' = next
  /\ UNCHANGED <<attempts, worker, faults, crashes, checked, left>>

CancelReset == CancelStep("reset", "clean") /\ repo' = ResetHard(repo)
CancelClean == CancelStep("clean", "checkout") /\ repo' = CleanUntracked(repo)
CancelCheckout ==
  /\ CancelStep("checkout", "done")
  /\ repo' = IF CanCheckout(repo, base) THEN CheckoutBranch(repo, base) ELSE repo

(* A crash: the queue is lost, the tasks are queued again by the recovery, *)
(* the files and the index stay as they are.                               *)
Crash ==
  /\ crashes < MaxCrashes /\ crashes' = crashes + 1
  /\ stage' = [i \in Items |-> IF InFlight(i) THEN "new" ELSE stage[i]]
  /\ queue' = <<>> /\ mpc' = "idle" /\ cur' = NoItem /\ todo' = {} /\ backup' = NoBackup
  /\ cancel' = IF cancel = "no" THEN "no" ELSE "done"
  /\ left' = IF cur = NoItem THEN left ELSE left \cup ReferencedFiles(manifest[cur])
  /\ UNCHANGED <<repo, tries, snapshot, manifest, faults, checked>>

Next ==
  \/ \E i \in Items : Dispatch(i) \/ Finish(i)
  \/ ProcessItem \/ RemoveFile \/ RemoveFails \/ CopyFile \/ CopyFails
  \/ ChecksPass \/ ChecksFail \/ StageFiles \/ StageFails
  \/ CommitItem \/ CommitFails \/ CompleteTask
  \/ CancelStatus \/ CancelReset \/ CancelClean \/ CancelCheckout
  \/ Crash

Spec == Init /\ [][Next]_vars

-----------------------------------------------------------------------------
Committing == Len(repo'.log) > Len(repo.log)

(* A commit changes exactly the files of its item: what it removes is gone, *)
(* what it puts out is the staged file, everything else is as it was in the *)
(* commit before (mergequeue.processItem).  Paths an earlier failure may    *)
(* have left changed are excepted.                                          *)
CommitsItem ==
  Committing =>
    LET m == manifest[cur]
    IN  \A p \in Paths \ left :
          HeadTree(repo')[p] = IF p \in OutputFiles(m) THEN StagedContent(cur, p)
                               ELSE IF p \in RemovedFiles(m) THEN Absent
                               ELSE HeadTree(repo)[p]

(* What is committed is what the integration checks ran on.  The checks see *)
(* the working tree, the commit takes the index.                            *)
CommitsChecked ==
  Committing => \A p \in Paths \ left : HeadTree(repo')[p] = checked[p]

CommitIsOutput == [][CommitsItem /\ CommitsChecked]_vars

(* An item whose snapshot was overtaken does not overwrite a change it has  *)
(* not seen: each of its outputs is as in its snapshot, or was moved away.  *)
CommitsSeen ==
  Committing /\ cancel = "no" =>
    \A p \in OutputFiles(manifest[cur]) \ left :
      HeadTree(repo)[p] \in {TreeOf(repo, snapshot[cur])[p], Absent}
NoLostUpdate == [][CommitsSeen]_vars

(* A failed merge is undone, and a merge in progress touches no file but    *)
(* its own: elsewhere the working tree and the index are those of HEAD.     *)
TreeIsClean ==
  \A p \in Paths \ (left \cup (IF cur = NoItem THEN {} ELSE ReferencedFiles(manifest[cur]))) :
    repo.tree[p] = HeadTree(repo)[p] /\ repo.index[p] = HeadTree(repo)[p]

(* ARCHITECTURE.md 23.1: all task commits are made to the work branch; the  *)
(* branch the user had checked out is not modified.                         *)
OnlyWorkBranch == repo.tip[base] = 1

=============================================================================
