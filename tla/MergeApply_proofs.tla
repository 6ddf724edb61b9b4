-------------------------- MODULE MergeApply_proofs --------------------------
(***************************************************************************)
(* What the merge queue leaves in the working tree and in the commits.     *)
(***************************************************************************)
EXTENDS MergeApplyInv, Services_proofs, Requests_proofs

-----------------------------------------------------------------------------
(* What the git commands make of a repository. *)

LEMMA TreesOf ==
  ASSUME NEW r, RepoOK(r)
  PROVE  /\ HeadTree(r) \in Tree
         /\ \A k \in DOMAIN r.log : TreeOf(r, k) \in Tree
         /\ \A b \in Branches : TreeOf(r, r.tip[b]) \in Tree
<1>1. r.log \in Seq(Revision) /\ r.branch \in Branches /\ \A b \in Branches : r.tip[b] \in DOMAIN r.log
  BY DEF RepoOK, Repo
<1>2. ASSUME NEW k \in DOMAIN r.log PROVE r.log[k].tree \in Tree
  <2>1. r.log[k] \in Revision
    BY <1>1
  <2> QED
    BY <2>1 DEF Revision
<1> QED
  BY <1>1, <1>2 DEF HeadTree, TreeOf, CurrentHEAD

(* A step that leaves the commits and the branch alone. *)
LEMMA SameHead ==
  ASSUME NEW r, NEW s, s.log = r.log, s.tip = r.tip, s.branch = r.branch
  PROVE  HeadTree(s) = HeadTree(r) /\ \A k : TreeOf(s, k) = TreeOf(r, k)
BY DEF HeadTree, TreeOf, CurrentHEAD

LEMMA Checkout ==
  ASSUME NEW r, RepoOK(r), NEW b \in Branches
  PROVE  RepoOK(CheckoutBranch(r, b)) /\ CheckoutBranch(r, b).log = r.log
<1> DEFINE s == CheckoutBranch(r, b)
           there == TreeOf(r, r.tip[b])
           take(t) == [p \in Paths |-> IF p \in Taken(r, b) THEN there[p] ELSE t[p]]
<1>1. there \in Tree
  BY TreesOf
<1>2. r.index \in Tree /\ r.tree \in Tree
  BY DEF RepoOK, Repo
<1>3. s = [r EXCEPT !.branch = b, !.index = take(r.index), !.tree = take(r.tree)]
  BY DEF CheckoutBranch, RepoOK, Repo
<1>4. ASSUME NEW t \in Tree PROVE take(t) \in Tree
  BY <1>1, <1>4 DEF Tree
<1>5. s.log = r.log /\ s.tip = r.tip /\ s \in Repo
  <2> HIDE DEF s, take, there
  <2> QED
    BY <1>2, <1>3, <1>4 DEF RepoOK, Repo
<1> QED
  BY <1>5 DEF RepoOK

LEMMA Reset ==
  ASSUME NEW r, RepoOK(r)
  PROVE  RepoOK(ResetHard(r)) /\ ResetHard(r).log = r.log
<1> DEFINE head == HeadTree(r)
           t == [p \in Paths |-> IF r.index[p] = Absent /\ head[p] = Absent
                                 THEN r.tree[p] ELSE head[p]]
           s == ResetHard(r)
<1>1. head \in Tree /\ r.tree \in Tree
  BY TreesOf DEF RepoOK, Repo
<1>2. t \in Tree
  BY <1>1 DEF Tree
<1>3. s = [r EXCEPT !.index = head, !.tree = t]
  BY DEF ResetHard, RepoOK, Repo
<1> HIDE DEF head, t, s
<1>4. s.log = r.log /\ s.tip = r.tip /\ s \in Repo
  BY <1>1, <1>2, <1>3 DEF RepoOK, Repo
<1> QED
  BY <1>4 DEF RepoOK, s

LEMMA CleanTyped ==
  ASSUME NEW r, RepoOK(r), Absent \in Content
  PROVE  RepoOK(CleanUntracked(r)) /\ CleanUntracked(r).log = r.log
<1> DEFINE t == [p \in Paths |-> IF r.index[p] = Absent THEN Absent ELSE r.tree[p]]
           s == CleanUntracked(r)
<1>1. t \in Tree
  BY DEF RepoOK, Repo, Tree
<1>2. s = [r EXCEPT !.tree = t]
  BY DEF CleanUntracked, RepoOK, Repo
<1> HIDE DEF t, s
<1>3. s.log = r.log /\ s.tip = r.tip /\ s \in Repo
  BY <1>1, <1>2 DEF RepoOK, Repo
<1> QED
  BY <1>3 DEF RepoOK, s

(* A commit has the index as its tree and is the new head. *)
LEMMA Committed ==
  ASSUME NEW r, RepoOK(r), NEW i \in Items
  PROVE  LET s == Commit(r, i)
         IN  /\ RepoOK(s) /\ HeadTree(s) = r.index
             /\ s.tree = r.tree /\ s.index = r.index
             /\ Len(s.log) = Len(r.log) + 1
             /\ DOMAIN r.log \subseteq DOMAIN s.log
             /\ \A k \in DOMAIN r.log : TreeOf(s, k) = TreeOf(r, k)
<1> DEFINE entry == [tree |-> r.index, item |-> i]
           L == Append(r.log, entry)
           T == [r.tip EXCEPT ![r.branch] = Len(r.log) + 1]
           s == Commit(r, i)
<1>1. r.index \in Tree /\ r.log \in Seq(Revision) /\ r.tip \in [Branches -> Nat] /\ r.branch \in Branches
  BY DEF RepoOK, Repo
<1>2. entry \in Revision /\ entry.tree = r.index
  BY <1>1 DEF Revision
<1> HIDE DEF entry
<1>3. /\ L \in Seq(Revision) /\ Len(L) = Len(r.log) + 1 /\ Len(r.log) \in Nat
      /\ L[Len(r.log) + 1] = entry /\ T \in [Branches -> Nat] /\ T[r.branch] = Len(r.log) + 1
      /\ \A k \in DOMAIN r.log : L[k] = r.log[k] /\ k \in DOMAIN L
      /\ Len(r.log) + 1 \in DOMAIN L
  BY <1>1, <1>2
<1>4. \A b \in Branches : T[b] \in DOMAIN L
  BY <1>1, <1>3 DEF RepoOK
<1>5. s = [r EXCEPT !.log = L, !.tip = T]
  BY DEF Commit, RepoOK, Repo, entry
<1> HIDE DEF L, T, s
<1>6. s.log = L /\ s.tip = T /\ s.branch = r.branch /\ s.index = r.index /\ s.tree = r.tree /\ s \in Repo
  BY <1>3, <1>5 DEF RepoOK, Repo
<1>7. RepoOK(s)
  BY <1>4, <1>6 DEF RepoOK
<1>8. HeadTree(s) = r.index /\ \A k \in DOMAIN r.log : TreeOf(s, k) = TreeOf(r, k)
  BY <1>2, <1>3, <1>6 DEF HeadTree, TreeOf, CurrentHEAD
<1>9. DOMAIN r.log \subseteq DOMAIN s.log /\ Len(s.log) = Len(r.log) + 1
  BY <1>3, <1>6
<1> QED
  BY <1>6, <1>7, <1>8, <1>9 DEF s

-----------------------------------------------------------------------------
(* Types. *)

LEMMA RepoTyped ==
  ASSUME NEW r, RepoOK(r)
  PROVE  /\ r.log \in Seq([tree : [Paths -> Content], item : Items \cup {Absent}])
         /\ r.tip \in [Branches -> DOMAIN r.log] /\ r.branch \in Branches
         /\ r.index \in [Paths -> Content] /\ r.tree \in [Paths -> Content]
<1>1. /\ r.log \in Seq(Revision) /\ r.tip \in [Branches -> Nat] /\ r.branch \in Branches
      /\ r.index \in Tree /\ r.tree \in Tree /\ \A b \in Branches : r.tip[b] \in DOMAIN r.log
  BY DEF RepoOK, Repo
<1>2. r.tip \in [Branches -> DOMAIN r.log]
  BY <1>1
<1> QED
  BY <1>1, <1>2 DEF Revision, Tree

LEMMA FilesOf ==
  ASSUME NEW m \in Manifest
  PROVE  OutputFiles(m) \subseteq Paths /\ RemovedFiles(m) \subseteq Paths
         /\ ReferencedFiles(m) \subseteq Paths /\ Overwritten(m) \subseteq Paths
         /\ ReferencedFiles(m) = OutputFiles(m) \cup RemovedFiles(m)
BY DEF Manifest, OutputFiles, RemovedFiles, ReferencedFiles, Overwritten

LEMMA StagedTyped ==
  ASSUME MergeTyped, NEW i \in Items, Known(i), NEW p
  PROVE  StagedContent(i, p) \in Content
<1> DEFINE old == TreeOf(repo, snapshot[i])
           from == {q \in Paths : <<q, p>> \in manifest[i].renamed /\ old[q] # Absent}
<1>1. old \in Tree
  BY TreesOf DEF MergeTyped, Known
<1>2. from # {} => (CHOOSE q \in from : TRUE) \in Paths
  <2>1. from # {} => (CHOOSE q \in from : TRUE) \in from
    BY Zenon
  <2> QED
    BY <2>1
<1> HIDE DEF old
<1>3. i \in Content
  BY DEF Content
<1>4. StagedContent(i, p) = IF from = {} THEN i ELSE old[CHOOSE q \in from : TRUE]
  BY DEF StagedContent, old
<1> HIDE DEF from
<1> QED
  BY <1>1, <1>2, <1>3, <1>4 DEF Tree

LEMMA FileWritten ==
  ASSUME RepoOK(repo), NEW p \in Paths, NEW c \in Content
  PROVE  LET s == Write(p, c)
         IN  /\ RepoOK(s) /\ s.log = repo.log /\ s.tip = repo.tip /\ s.branch = repo.branch
             /\ s.index = repo.index
             /\ \A q \in Paths : s.tree[q] = IF q = p THEN c ELSE repo.tree[q]
<1> DEFINE s == Write(p, c)
           t == [repo.tree EXCEPT ![p] = c]
<1>1. t \in Tree /\ \A q \in Paths : t[q] = IF q = p THEN c ELSE repo.tree[q]
  BY DEF RepoOK, Repo, Tree
<1>2. s = [repo EXCEPT !.tree = t]
  BY DEF Write, RepoOK, Repo
<1> HIDE DEF s, t
<1>3. s \in Repo /\ s.log = repo.log /\ s.tip = repo.tip /\ s.branch = repo.branch
      /\ s.index = repo.index /\ s.tree = t
  BY <1>1, <1>2 DEF RepoOK, Repo
<1>4. RepoOK(s)
  BY <1>3 DEF RepoOK
<1> QED
  BY <1>1, <1>3, <1>4 DEF s

LEMMA Reverted ==
  ASSUME RepoOK(repo), backup \in [Paths -> Content \cup {Unset}]
  PROVE  LET s == RevertOutput(repo)
         IN  /\ RepoOK(s) /\ s.log = repo.log /\ s.tip = repo.tip /\ s.branch = repo.branch
             /\ s.index = repo.index
             /\ \A q \in Paths : s.tree[q] = IF backup[q] = Unset THEN repo.tree[q] ELSE backup[q]
<1> DEFINE s == RevertOutput(repo)
           t == [p \in Paths |-> IF backup[p] = Unset THEN repo.tree[p] ELSE backup[p]]
<1>1. t \in Tree /\ \A q \in Paths : t[q] = IF backup[q] = Unset THEN repo.tree[q] ELSE backup[q]
  BY DEF RepoOK, Repo, Tree
<1>2. s = [repo EXCEPT !.tree = t]
  BY DEF RevertOutput, RepoOK, Repo
<1> HIDE DEF s, t
<1>3. s \in Repo /\ s.log = repo.log /\ s.tip = repo.tip /\ s.branch = repo.branch
      /\ s.index = repo.index /\ s.tree = t
  BY <1>1, <1>2 DEF RepoOK, Repo
<1>4. RepoOK(s)
  BY <1>3 DEF RepoOK
<1> QED
  BY <1>1, <1>3, <1>4 DEF s

LEMMA Staged ==
  ASSUME RepoOK(repo), NEW named
  PROVE  LET s == AddFiles(repo, named)
         IN  /\ RepoOK(s) /\ s.log = repo.log /\ s.tip = repo.tip /\ s.branch = repo.branch
             /\ s.tree = repo.tree
             /\ \A q \in Paths : s.index[q] = IF q \in named THEN repo.tree[q] ELSE repo.index[q]
<1> DEFINE s == AddFiles(repo, named)
           t == [p \in Paths |-> IF p \in named THEN repo.tree[p] ELSE repo.index[p]]
<1>1. t \in Tree /\ \A q \in Paths : t[q] = IF q \in named THEN repo.tree[q] ELSE repo.index[q]
  BY DEF RepoOK, Repo, Tree
<1>2. s = [repo EXCEPT !.index = t]
  BY DEF AddFiles, RepoOK, Repo
<1> HIDE DEF s, t
<1>3. s \in Repo /\ s.log = repo.log /\ s.tip = repo.tip /\ s.branch = repo.branch
      /\ s.index = t /\ s.tree = repo.tree
  BY <1>1, <1>2 DEF RepoOK, Repo
<1>4. RepoOK(s)
  BY <1>3 DEF RepoOK
<1> QED
  BY <1>1, <1>3, <1>4 DEF s

(* The commits only grow. *)
LogGrows == /\ DOMAIN repo.log \subseteq DOMAIN repo'.log
            /\ \A k \in DOMAIN repo.log : TreeOf(repo', k) = TreeOf(repo, k)

(* Steps of the item in hand have one. *)
LEMMA ItemInHand ==
  ASSUME MergeTyped, mpc # "idle"
  PROVE  /\ cur \in Items /\ stage[cur] = "merging" /\ Known(cur) /\ manifest[cur] \in Manifest
         /\ Touched = ReferencedFiles(manifest[cur])
BY DEF MergeTyped, InHand, TypeOK, SnapshotsKnown, InFlight, Touched

LEMMA RepoKept ==
  ASSUME MergeTyped, [Next]_vars
  PROVE  RepoOK(repo') /\ LogGrows /\ (CommitItem \/ repo'.log = repo.log)
<1> USE DEF MergeTyped
<1> DEFINE Kept == RepoOK(repo') /\ LogGrows /\ (CommitItem \/ repo'.log = repo.log)
<1> SUFFICES Kept
  OBVIOUS
<1>1. CASE repo' = repo
  BY <1>1 DEF LogGrows
<1>2. ASSUME NEW s, RepoOK(s), s.log = repo.log, repo' = s PROVE Kept
  BY <1>2 DEF LogGrows, TreeOf
<1> HIDE DEF Kept
<1>3. CASE RemoveFile
  <2>1. PICK p \in Paths : repo' = Write(p, Absent)
    BY <1>3 DEF RemoveFile
  <2> QED
    BY <1>2, <2>1, FileWritten DEF Content
<1>4. CASE CopyFile
  <2>1. PICK p \in Paths : repo' = Write(p, StagedContent(cur, p))
    BY <1>4 DEF CopyFile
  <2>2. mpc = "apply"
    BY <1>4 DEF CopyFile, NextCopy
  <2>3. StagedContent(cur, p) \in Content
    BY <2>2, ItemInHand, StagedTyped
  <2> QED
    BY <1>2, <2>1, <2>3, FileWritten
<1>5. CASE CopyFails
  <2>1. PICK p \in Paths : \E c \in {repo.tree[p], Partial} : repo' = Write(p, c)
    BY <1>5 DEF CopyFails
  <2>2. \E c \in Content : repo' = Write(p, c)
    BY <2>1 DEF Content, TypeOK
  <2> QED
    BY <1>2, <2>2, FileWritten
<1>6. CASE ChecksFail \/ StageFails \/ CommitFails
  <2>1. repo' = RevertOutput(repo) /\ backup \in [Paths -> Content \cup {Unset}]
    BY <1>6 DEF ChecksFail, StageFails, CommitFails, TypeOK
  <2> QED
    BY <1>2, <2>1, Reverted
<1>7. CASE StageFiles
  BY <1>2, <1>7, Staged DEF StageFiles
<1>8. CASE CommitItem
  <2>1. cur \in Items /\ repo' = Commit(repo, cur)
    BY <1>8, ItemInHand DEF CommitItem
  <2> QED
    BY <1>8, <2>1, Committed DEF Kept, LogGrows
<1>9. CASE CancelReset \/ CancelClean \/ CancelCheckout
  <2>1. base \in Branches /\ Absent \in Content
    BY MergeAssumption DEF Content
  <2>2. CASE CancelReset
    BY <1>2, <2>2, Reset DEF CancelReset
  <2>3. CASE CancelClean
    BY <1>2, <2>1, <2>3, CleanTyped DEF CancelClean
  <2>4. CASE CancelCheckout
    BY <1>1, <1>2, <2>1, <2>4, Checkout DEF CancelCheckout
  <2> QED
    BY <1>9, <2>2, <2>3, <2>4
<1>10. ASSUME \/ \E i \in Items : Dispatch(i) \/ Finish(i)
              \/ ProcessItem \/ RemoveFails \/ ChecksPass \/ CompleteTask \/ CancelStatus
              \/ Crash \/ UNCHANGED vars
       PROVE  repo' = repo
  BY <1>10 DEF Dispatch, Finish, ProcessItem, StartMerge, RemoveFails, ChecksPass, CompleteTask, CancelStatus,
    Crash, vars
<1> QED
  BY <1>1, <1>3, <1>4, <1>5, <1>6, <1>7, <1>8, <1>9, <1>10 DEF Next

LEMMA TypedKept ==
  ASSUME MergeTyped, [Next]_vars
  PROVE  MergeTyped'
<1> USE DEF MergeTyped
<1> DEFINE Rest == TypeOK' /\ SnapshotsKnown' /\ InHand'
<1>0. /\ RepoOK(repo')
      /\ repo'.log \in Seq([tree : [Paths -> Content], item : Items \cup {Absent}])
      /\ repo'.tip \in [Branches -> DOMAIN repo'.log] /\ repo'.branch \in Branches
      /\ repo'.index \in [Paths -> Content] /\ repo'.tree \in [Paths -> Content]
      /\ DOMAIN repo.log \subseteq DOMAIN repo'.log
  BY RepoKept, RepoTyped DEF LogGrows
<1>a. CurrentHEAD(repo) \in DOMAIN repo.log /\ CurrentHEAD(repo) \in Nat
  BY DEF RepoOK, Repo, CurrentHEAD
<1>b. \A kind : Fault(kind) => faults' \in 0..MaxFaults
  BY MergeAssumption DEF Fault, TypeOK
<1> SUFFICES Rest
  BY <1>0
<1>1. ASSUME NEW i \in Items, Dispatch(i) PROVE Rest
  <2>1. /\ stage' \in [Items -> {"new", "running", "queued", "merging", "done"}]
        /\ stage'[i] = "running" /\ stage[i] = "new"
        /\ \A j \in Items \ {i} : stage'[j] = stage[j] /\ snapshot'[j] = snapshot[j]
        /\ snapshot' \in [Items -> Nat] /\ snapshot'[i] = CurrentHEAD(repo)
        /\ tries' \in [Items -> Nat]
    BY <1>1, <1>a DEF Dispatch, TypeOK
  <2>2. UNCHANGED <<manifest, queue, mpc, cur, todo, backup, cancel, faults, crashes, checked, left>>
    BY <1>1 DEF Dispatch, worker
  <2>3. TypeOK'
    BY <1>0, <2>1, <2>2 DEF TypeOK
  <2>4. SnapshotsKnown'
    <3>1. \A j \in Items : Known(j) => snapshot'[j] \in DOMAIN repo'.log
      BY <1>0, <1>a, <2>1 DEF Known
    <3>2. \A j \in Items : j = i \/ stage'[j] = stage[j]
      BY <2>1
    <3>3. snapshot'[i] \in DOMAIN repo'.log
      BY <1>0, <1>a, <2>1
    <3>4. \A k \in DOMAIN queue : queue[k] \in Items
      BY DEF TypeOK
    <3> QED
      BY <2>2, <3>1, <3>2, <3>3, <3>4 DEF SnapshotsKnown, Known, InFlight
  <2>5. InHand'
    BY <2>1, <2>2 DEF TypeOK, InHand, Touched
  <2> QED
    BY <2>3, <2>4, <2>5
<1>2. ASSUME NEW i \in Items, Finish(i) PROVE Rest
  <2>1. Manifests[i] \subseteq Manifest
    BY MergeAssumption
  <2>2. /\ stage' \in [Items -> {"new", "running", "queued", "merging", "done"}]
        /\ stage[i] = "running" /\ stage'[i] \in {"queued", "new"}
        /\ \A j \in Items \ {i} : stage'[j] = stage[j] /\ manifest'[j] = manifest[j]
        /\ manifest' \in [Items -> Manifest]
        /\ queue' = queue \/ queue' = Append(queue, i)
    BY <1>2, <2>1 DEF Finish, TypeOK
  <2>3. UNCHANGED <<tries, snapshot, mpc, cur, todo, backup, cancel, faults, crashes, checked, left>>
    BY <1>2 DEF Finish
  <2>4. /\ queue' \in Seq(Items)
        /\ \A k \in DOMAIN queue' : queue'[k] = i \/ (k \in DOMAIN queue /\ queue'[k] = queue[k])
    <3>1. queue \in Seq(Items)
      BY DEF TypeOK
    <3>2. CASE queue' = queue
      BY <3>1, <3>2
    <3>3. CASE queue' = Append(queue, i)
      BY <3>1, <3>3
    <3> QED
      BY <2>2, <3>2, <3>3
  <2>5. TypeOK'
    BY <1>0, <2>2, <2>3, <2>4 DEF TypeOK
  <2>6. SnapshotsKnown'
    <3>1. Known(i)
      BY <2>2 DEF SnapshotsKnown, InFlight
    <3>2. \A j \in Items : Known(j) => Known(j)'
      BY <1>0, <2>3 DEF Known
    <3>3. \A k \in DOMAIN queue' : Known(queue'[k])
      BY <2>4, <3>1 DEF SnapshotsKnown
    <3>4. \A k \in DOMAIN queue' : snapshot'[queue'[k]] \in DOMAIN repo'.log
      BY <1>0, <2>3, <3>3 DEF Known
    <3> QED
      BY <2>2, <3>2, <3>4 DEF SnapshotsKnown, InFlight, Known
  <2>7. InHand'
    BY <2>2, <2>3 DEF TypeOK, InHand, Touched
  <2> QED
    BY <2>5, <2>6, <2>7
<1>3. CASE ProcessItem
  <2> DEFINE i == Head(queue)
             m == manifest[i]
  <2>1. /\ mpc = "idle" /\ queue # <<>> /\ queue' = Tail(queue)
        /\ UNCHANGED <<repo, tries, snapshot, manifest, cancel, crashes, checked, left>>
        /\ faults' \in 0..MaxFaults
        /\ \/ stage' = [stage EXCEPT ![i] = "new"] /\ UNCHANGED <<mpc, cur, todo, backup>>
           \/ /\ stage' = [stage EXCEPT ![i] = "merging"]
              /\ mpc' = "apply" /\ cur' = i /\ backup' = NoBackup
              /\ todo' = ({"remove"} \X RemovedFiles(m)) \cup ({"copy"} \X OutputFiles(m))
    BY <1>3, <1>b DEF ProcessItem, StartMerge, TypeOK
  <2>2. /\ i \in Items /\ queue' \in Seq(Items) /\ Known(i)
        /\ \A k \in DOMAIN queue' : k + 1 \in DOMAIN queue /\ queue'[k] = queue[k + 1]
    <3>1. queue \in Seq(Items) /\ 1 \in DOMAIN queue /\ i = queue[1]
      BY <2>1 DEF TypeOK
    <3> QED
      BY <2>1, <3>1 DEF SnapshotsKnown
  <2>3. m \in Manifest /\ RemovedFiles(m) \subseteq Paths /\ OutputFiles(m) \subseteq Paths
    BY <2>2, FilesOf DEF TypeOK
  <2> HIDE DEF i
  <2>4. SnapshotsKnown'
    BY <2>1, <2>2 DEF TypeOK, SnapshotsKnown, Known, InFlight
  <2>5. NoItem \notin Items /\ cur = NoItem /\ todo = {} /\ backup \in [Paths -> Content \cup {Unset}]
    BY <2>1, MergeAssumption DEF InHand, TypeOK
  <2>6. CASE stage' = [stage EXCEPT ![i] = "new"] /\ UNCHANGED <<mpc, cur, todo, backup>>
    BY <1>0, <2>1, <2>2, <2>4, <2>5, <2>6 DEF TypeOK, InHand, Touched
  <2>7. CASE /\ stage' = [stage EXCEPT ![i] = "merging"]
             /\ mpc' = "apply" /\ cur' = i /\ backup' = NoBackup
             /\ todo' = ({"remove"} \X RemovedFiles(m)) \cup ({"copy"} \X OutputFiles(m))
    <3> HIDE DEF m
    <3>1. TypeOK'
      BY <1>0, <2>1, <2>2, <2>3, <2>7 DEF TypeOK, NoBackup
    <3>2. manifest'[cur'] = m
      BY <2>1, <2>7 DEF m
    <3>3. InHand'
      BY <2>2, <2>5, <2>7, <3>2 DEF TypeOK, InHand, NoBackup
    <3> QED
      BY <2>4, <3>1, <3>3
  <2> QED
    BY <2>1, <2>6, <2>7
<1>4. CASE RemoveFile
  <2>1. PICK p \in Paths :
          /\ p \in Touched
          /\ backup' = backup \/ \E c \in Content : backup' = [backup EXCEPT ![p] = c]
          /\ todo' \subseteq todo
    <3>1. mpc = "apply" /\ \A p \in Paths : repo.tree[p] \in Content
      BY <1>4 DEF RemoveFile, TypeOK
    <3>2. \A p : <<"remove", p>> \in todo => p \in Touched
      BY <3>1, ItemInHand, FilesOf DEF InHand
    <3> QED
      BY <1>4, <3>1, <3>2 DEF RemoveFile
  <2>2. UNCHANGED <<attempts, queue, mpc, cur, cancel, faults, crashes, checked, left>>
    BY <1>4 DEF RemoveFile
  <2>3. backup' \in [Paths -> Content \cup {Unset}] /\ \A q \in Paths \ Touched : backup'[q] = Unset
    BY <2>1 DEF TypeOK, InHand
  <2>4. TypeOK'
    BY <1>0, <2>1, <2>2, <2>3 DEF TypeOK, attempts
  <2>5. SnapshotsKnown'
    BY <1>0, <2>2 DEF TypeOK, SnapshotsKnown, Known, InFlight, attempts
  <2>6. InHand'
    BY <2>1, <2>2, <2>3, <1>4 DEF InHand, Touched, attempts, RemoveFile
  <2> QED
    BY <2>4, <2>5, <2>6
<1>5. CASE CopyFile
  <2>1. PICK p \in Paths :
          /\ p \in Touched
          /\ backup' = backup \/ \E c \in Content : backup' = [backup EXCEPT ![p] = c]
          /\ todo' \subseteq todo
    <3>1. mpc = "apply" /\ \A p \in Paths : repo.tree[p] \in Content
      BY <1>5 DEF CopyFile, NextCopy, TypeOK
    <3>2. \A p : <<"copy", p>> \in todo => p \in Touched
      BY <3>1, ItemInHand, FilesOf DEF InHand
    <3> QED
      BY <1>5, <3>1, <3>2 DEF CopyFile, NextCopy
  <2>2. UNCHANGED <<attempts, queue, mpc, cur, cancel, faults, crashes, checked, left>>
    BY <1>5 DEF CopyFile
  <2>3. backup' \in [Paths -> Content \cup {Unset}] /\ \A q \in Paths \ Touched : backup'[q] = Unset
    BY <2>1 DEF TypeOK, InHand
  <2>4. TypeOK'
    BY <1>0, <2>1, <2>2, <2>3 DEF TypeOK, attempts
  <2>5. SnapshotsKnown'
    BY <1>0, <2>2 DEF TypeOK, SnapshotsKnown, Known, InFlight, attempts
  <2>6. InHand'
    BY <2>1, <2>2, <2>3, <1>5 DEF InHand, Touched, attempts, CopyFile, NextCopy
  <2> QED
    BY <2>4, <2>5, <2>6
<1>6. CASE CopyFails
  BY <1>0, <1>6, <1>b, ItemInHand, FilesOf DEF CopyFails, NextCopy, FailItem, Released, TypeOK,
    SnapshotsKnown, InHand, Known, InFlight, Touched, NoBackup
<1>7. CASE ChecksPass
  BY <1>0, <1>7 DEF ChecksPass, TypeOK, SnapshotsKnown, InHand, Known, InFlight, Touched, attempts
<1>8. CASE ChecksFail
  BY <1>0, <1>8, ItemInHand, FilesOf DEF ChecksFail, FailItem, Released, TypeOK, SnapshotsKnown,
    InHand, Known, InFlight, Touched, NoBackup
<1>9. CASE StageFiles
  BY <1>0, <1>9 DEF StageFiles, TypeOK, SnapshotsKnown, InHand, Known, InFlight, Touched, attempts
<1>10. CASE StageFails
  BY <1>0, <1>10, <1>b, ItemInHand, FilesOf DEF StageFails, FailItem, Released, TypeOK, SnapshotsKnown,
    InHand, Known, InFlight, Touched, NoBackup
<1>11. CASE CommitItem
  BY <1>0, <1>11 DEF CommitItem, TypeOK, SnapshotsKnown, InHand, Known, InFlight, Touched, attempts
<1>12. CASE CommitFails
  BY <1>0, <1>12, <1>b, ItemInHand, FilesOf DEF CommitFails, FailItem, Released, TypeOK, SnapshotsKnown,
    InHand, Known, InFlight, Touched, NoBackup
<1>13. CASE CompleteTask
  BY <1>0, <1>13, ItemInHand DEF CompleteTask, Released, TypeOK, SnapshotsKnown, InHand, Known, InFlight,
    Touched, NoBackup
<1>14. CASE CancelStatus \/ CancelReset \/ CancelClean \/ CancelCheckout
  BY <1>0, <1>14 DEF CancelStatus, CancelReset, CancelClean, CancelCheckout, CancelStep, TypeOK,
    SnapshotsKnown, InHand, Known, InFlight, Touched, attempts, worker
<1>15. CASE Crash
  <2>1. /\ stage' = [i \in Items |-> IF InFlight(i) THEN "new" ELSE stage[i]]
        /\ queue' = <<>> /\ mpc' = "idle" /\ cur' = NoItem /\ todo' = {} /\ backup' = NoBackup
        /\ cancel' \in {"no", "done"} /\ crashes' \in 0..MaxCrashes
        /\ UNCHANGED <<repo, tries, snapshot, manifest, faults, checked>>
    BY <1>15, MergeAssumption DEF Crash, TypeOK
  <2>2. left' \subseteq Paths
    BY <1>15, ItemInHand, FilesOf DEF Crash, TypeOK, InHand
  <2>3. TypeOK'
    BY <1>0, <2>1, <2>2 DEF TypeOK, NoBackup
  <2>4. SnapshotsKnown' /\ InHand'
    BY <2>1 DEF TypeOK, SnapshotsKnown, InHand, InFlight, NoBackup, Touched
  <2> QED
    BY <2>3, <2>4
<1>16. CASE RemoveFails
  <2>1. PICK p \in Paths :
          /\ <<"remove", p>> \in todo
          /\ backup' = [backup EXCEPT ![p] = repo.tree[p]]
          /\ todo' = todo \ {<<"remove", p>>}
          /\ left' = left \cup {p}
    BY <1>16 DEF RemoveFails
  <2>2. /\ mpc = "apply" /\ faults' \in 0..MaxFaults
        /\ UNCHANGED <<repo, attempts, queue, mpc, cur, cancel, crashes, checked>>
    BY <1>16, <1>b DEF RemoveFails
  <2>3. p \in Touched
    BY <2>1, <2>2, ItemInHand, FilesOf DEF InHand
  <2>4. backup' \in [Paths -> Content \cup {Unset}] /\ \A q \in Paths \ Touched : backup'[q] = Unset
    BY <2>1, <2>3 DEF TypeOK, InHand
  <2>5. TypeOK'
    BY <1>0, <2>1, <2>2, <2>4 DEF TypeOK, attempts
  <2>6. SnapshotsKnown'
    BY <1>0, <2>2 DEF TypeOK, SnapshotsKnown, Known, InFlight, attempts
  <2>7. InHand'
    BY <2>1, <2>2, <2>4 DEF InHand, Touched, attempts
  <2> QED
    BY <2>5, <2>6, <2>7
<1>17. CASE UNCHANGED vars
  BY <1>0, <1>17 DEF vars, attempts, worker, TypeOK, SnapshotsKnown, InHand, Known, InFlight, Touched
<1> QED
  BY <1>1, <1>2, <1>3, <1>4, <1>5, <1>6, <1>7, <1>8, <1>9, <1>10, <1>11, <1>12, <1>13, <1>14, <1>15,
    <1>16, <1>17 DEF Next

-----------------------------------------------------------------------------
(* Where the files are. *)

LEMMA CancelKept ==
  ASSUME MergeTyped, CancelExcused, [Next]_vars
  PROVE  CancelExcused'
<1>1. ASSUME cancel' = cancel, left \subseteq left', left' \subseteq Paths PROVE CancelExcused'
  BY <1>1 DEF CancelExcused
<1>2. CASE \/ \E i \in Items : Dispatch(i) \/ Finish(i)
           \/ ProcessItem \/ RemoveFile \/ CopyFile \/ ChecksPass \/ StageFiles \/ CommitItem
           \/ CompleteTask \/ UNCHANGED vars
  BY <1>1, <1>2 DEF MergeTyped, TypeOK, Dispatch, Finish, ProcessItem, StartMerge, RemoveFile, CopyFile,
    ChecksPass, StageFiles, CommitItem, CompleteTask, worker, vars
<1>3. CASE RemoveFails \/ CopyFails \/ ChecksFail \/ StageFails \/ CommitFails
  <2>1. mpc # "idle"
    BY <1>3 DEF RemoveFails, CopyFails, NextCopy, ChecksFail, StageFails, CommitFails
  <2> QED
    BY <1>1, <1>3, <2>1, ItemInHand, FilesOf DEF MergeTyped, TypeOK, RemoveFails, CopyFails, ChecksFail,
      StageFails, CommitFails
<1>4. CASE CancelStatus \/ CancelReset \/ CancelClean \/ CancelCheckout
  BY <1>4 DEF CancelExcused, CancelStatus, CancelReset, CancelClean, CancelCheckout, CancelStep
<1>5. CASE Crash
  <2>1. left \subseteq left' /\ left' \subseteq Paths /\ (cancel = "no" => cancel' = "no")
    BY <1>5, ItemInHand, FilesOf DEF MergeTyped, TypeOK, InHand, Crash
  <2> QED
    BY <2>1 DEF CancelExcused
<1> QED
  BY <1>2, <1>3, <1>4, <1>5 DEF Next

LEMMA OrderKept ==
  ASSUME MergeTyped, RemovesFirst, [Next]_vars
  PROVE  RemovesFirst'
<1> USE DEF RemovesFirst, Working
<1>1. CASE \E i \in Items : Dispatch(i) \/ Finish(i)
  <2>1. UNCHANGED <<mpc, cur, todo>> /\ (mpc # "idle" => manifest'[cur] = manifest[cur])
    BY <1>1, ItemInHand DEF MergeTyped, TypeOK, Dispatch, Finish, worker
  <2> QED
    BY <2>1
<1>2. CASE ProcessItem
  <2>1. mpc = "idle" /\ (mpc' = "idle" \/ \E i : /\ cur' = i /\ manifest' = manifest
            /\ todo' = ({"remove"} \X RemovedFiles(manifest[i])) \cup ({"copy"} \X OutputFiles(manifest[i])))
    BY <1>2 DEF ProcessItem, StartMerge
  <2> QED
    BY <2>1
<1>3. CASE RemoveFile \/ RemoveFails
  BY <1>3 DEF RemoveFile, RemoveFails, attempts
<1>4. CASE CopyFile
  BY <1>4 DEF CopyFile, NextCopy, attempts
<1>5. CASE CopyFails \/ ChecksFail \/ StageFails \/ CommitFails \/ CompleteTask \/ Crash
  BY <1>5 DEF CopyFails, ChecksFail, StageFails, CommitFails, CompleteTask, Crash, FailItem, Released
<1>6. CASE \/ ChecksPass \/ StageFiles \/ CommitItem
           \/ CancelStatus \/ CancelReset \/ CancelClean \/ CancelCheckout \/ UNCHANGED vars
  <2>1. UNCHANGED <<cur, todo, manifest>> /\ (mpc' = mpc \/ mpc \in {"apply", "add"} \/ mpc' = "finish")
    BY <1>6 DEF ChecksPass, StageFiles, CommitItem, CancelStatus, CancelReset, CancelClean,
      CancelCheckout, CancelStep, attempts, worker, vars
  <2> QED
    BY <2>1
<1> QED
  BY <1>1, <1>2, <1>3, <1>4, <1>5, <1>6 DEF Next

LEMMA StagedSame ==
  ASSUME cur' = cur, manifest'[cur] = manifest[cur],
         TreeOf(repo, snapshot[cur])' = TreeOf(repo, snapshot[cur])
  PROVE  \A p : StagedContent(cur, p)' = StagedContent(cur, p)
<1> DEFINE From(m, old, p) == {q \in Paths : <<q, p>> \in m.renamed /\ old[q] # Absent}
           Copying(i, m, old, p) == IF From(m, old, p) = {} THEN i
                                    ELSE old[CHOOSE q \in From(m, old, p) : TRUE]
<1>1. \A p : StagedContent(cur, p) = Copying(cur, manifest[cur], TreeOf(repo, snapshot[cur]), p)
  BY DEF StagedContent
<1>2. \A p : StagedContent(cur, p)' =
              Copying(cur', manifest'[cur'], TreeOf(repo, snapshot[cur])', p)
  BY DEF StagedContent
<1> HIDE DEF Copying
<1> QED
  BY <1>1, <1>2

(* A step that leaves the worker, its item and the files alone. *)
LEMMA WorkerIdles ==
  ASSUME MergeTyped, FilesKnown,
         repo' = repo, mpc' = mpc, cur' = cur, todo' = todo, backup' = backup,
         checked' = checked, left' = left,
         mpc # "idle" => manifest'[cur] = manifest[cur] /\ snapshot'[cur] = snapshot[cur]
  PROVE  FilesKnown'
<1>1. mpc = "idle" => cur = NoItem
  BY DEF MergeTyped, InHand
<1>2. cur # NoItem => mpc # "idle"
  BY DEF MergeTyped, InHand
<1>3. mpc # "idle" =>
        /\ \A p : StagedContent(cur, p)' = StagedContent(cur, p)
        /\ TreeOf(repo, snapshot[cur])' = TreeOf(repo, snapshot[cur])
  <2> SUFFICES ASSUME mpc # "idle"
               PROVE  /\ \A p : StagedContent(cur, p)' = StagedContent(cur, p)
                      /\ TreeOf(repo, snapshot[cur])' = TreeOf(repo, snapshot[cur])
    OBVIOUS
  <2>1. TreeOf(repo, snapshot[cur])' = TreeOf(repo, snapshot[cur])
    BY DEF TreeOf
  <2> QED
    BY <2>1, StagedSame
<1>4. TreeIsClean'
  BY <1>2 DEF FilesKnown, TreeIsClean
<1>5. Touched' = Touched /\ Working' = Working
  BY <1>2 DEF Touched, Working
<1>6. Working => mpc # "idle"
  BY DEF Working
<1>7. Applied'
  <2>1. ASSUME mpc # "idle", NEW p PROVE (AppliedAt(p) => AppliedAt(p)') /\ (CleanAt(p) => CleanAt(p)')
    BY <1>3, <2>1 DEF AppliedAt, CleanAt, Copied, Removed, Head0
  <2> QED
    BY <1>5, <1>6, <2>1 DEF FilesKnown, Applied
<1>8. CheckedIsTree'
  BY DEF FilesKnown, CheckedIsTree
<1>9. OutputsSeen'
  BY <1>3, <1>5, <1>6 DEF FilesKnown, OutputsSeen, Head0
<1> QED
  BY <1>4, <1>7, <1>8, <1>9 DEF FilesKnown

(* A failure: whatever the item may have left changed is excused, the rest  *)
(* is clean.                                                               *)
LEMMA WorkerGivesUp ==
  ASSUME mpc' = "idle", cur' = NoItem,
         \A p \in Paths \ left' : CleanAt(p)'
  PROVE  FilesKnown'
BY DEF FilesKnown, TreeIsClean, CleanAt, Head0, Applied, Working, CheckedIsTree, OutputsSeen

(* Nothing is claimed of a cancelled run. *)
LEMMA CancelledKnown ==
  ASSUME MergeTyped', left' = Paths
  PROVE  FilesKnown'
<1>1. TreeIsClean' /\ CheckedIsTree'
  BY DEF TreeIsClean, CheckedIsTree
<1>2. ASSUME mpc' # "idle" PROVE Touched' \subseteq Paths /\ OutputFiles(manifest'[cur']) \subseteq Paths
  <2>1. cur' # NoItem
    BY <1>2 DEF MergeTyped, InHand
  <2>2. manifest'[cur'] \in Manifest
    BY <2>1 DEF MergeTyped, TypeOK
  <2> QED
    BY <2>1, <2>2, FilesOf DEF Touched
<1>3. Applied' /\ OutputsSeen'
  BY <1>2 DEF Applied, OutputsSeen, Working
<1> QED
  BY <1>1, <1>3 DEF FilesKnown

-----------------------------------------------------------------------------
(* The steps of the merge. *)

LEMMA ItemTaken ==
  ASSUME MergeTyped, FilesKnown, ProcessItem
  PROVE  FilesKnown'
<1> DEFINE i == Head(queue)
           m == manifest[i]
           changed == ChangedFilesSince(repo, snapshot[i])
<1>1. /\ mpc = "idle" /\ cur = NoItem /\ i \in Items /\ m \in Manifest /\ Known(i)
      /\ UNCHANGED <<repo, snapshot, manifest, checked, left>>
  <2>1. mpc = "idle" /\ queue # <<>> /\ UNCHANGED <<repo, snapshot, manifest, checked, left>>
    BY DEF ProcessItem, StartMerge
  <2>2. queue \in Seq(Items) /\ i = queue[1] /\ 1 \in DOMAIN queue
    BY <2>1 DEF MergeTyped, TypeOK
  <2> QED
    BY <2>1, <2>2 DEF MergeTyped, TypeOK, InHand, SnapshotsKnown
<1>2. CASE UNCHANGED <<mpc, cur, todo, backup>>
  BY <1>1, <1>2, WorkerIdles
<1>3. ASSUME /\ mpc' = "apply" /\ cur' = i /\ backup' = NoBackup
             /\ todo' = ({"remove"} \X RemovedFiles(m)) \cup ({"copy"} \X OutputFiles(m)),
             \/ ~Stale(i)
             \/ Stale(i) /\ ~checkConflicts(i, changed)
             \/ Stale(i) /\ ~checkConflictsConservative(i)
      PROVE  FilesKnown'
  <2>1. /\ manifest'[cur'] = m /\ snapshot'[cur'] = snapshot[i] /\ Working' /\ mpc' = "apply"
        /\ \A p : Head0(p)' = Head0(p)
        /\ \A p : TreeOf(repo', snapshot'[cur'])[p] = TreeOf(repo, snapshot[i])[p]
    BY <1>1, <1>3 DEF Working, Head0, HeadTree, TreeOf, CurrentHEAD
  <2>2. OutputFiles(m) \subseteq Paths /\ RemovedFiles(m) \subseteq Paths
    BY <1>1, FilesOf
  <2>3. \A p \in Paths \ left : CleanAt(p)
    BY <1>1 DEF FilesKnown, TreeIsClean, CleanAt, Head0
  <2>4. TreeIsClean'
    BY <1>1, <2>1, <2>3 DEF TreeIsClean, CleanAt, Head0
  <2>5. Applied'
    <3>1. ASSUME NEW p \in Paths \ left PROVE AppliedAt(p)'
      <4>1. ~Copied(p)' /\ ~Removed(p)'
        BY <1>3, <2>1 DEF Copied, Removed
      <4>2. backup'[p] = Unset
        BY <1>3 DEF NoBackup
      <4> QED
        BY <1>1, <2>1, <2>3, <4>1, <4>2 DEF AppliedAt, CleanAt
    <3>2. Touched' \subseteq Paths
      BY <1>1, <1>3, <2>1, FilesOf DEF Touched
    <3> QED
      BY <1>1, <2>1, <3>1, <3>2 DEF Applied
  <2>6. CheckedIsTree'
    BY <2>1 DEF CheckedIsTree
  <2>7. ASSUME NEW p \in OutputFiles(m) \ left
        PROVE  Head0(p) \in {TreeOf(repo, snapshot[i])[p], Absent}
    <3>1. CASE ~Stale(i)
      BY <3>1 DEF Stale, Head0, HeadTree
    <3>2. CASE ~checkConflicts(i, changed)
      <4>1. p \in Paths /\ p \notin changed
        BY <2>2, <2>7, <3>2 DEF checkConflicts
      <4> QED
        BY <4>1 DEF ChangedFilesSince, Head0
    <3>3. CASE ~checkConflictsConservative(i)
      <4>1. repo.tree[p] = Absent /\ p \in Paths \ left
        BY <2>2, <2>7, <3>3 DEF checkConflictsConservative
      <4> QED
        BY <2>3, <4>1 DEF CleanAt
    <3> QED
      BY <1>3, <3>1, <3>2, <3>3
  <2>8. OutputsSeen'
    BY <1>1, <2>1, <2>7 DEF OutputsSeen
  <2> QED
    BY <2>4, <2>5, <2>6, <2>8 DEF FilesKnown
<1> QED
  BY <1>2, <1>3 DEF ProcessItem, StartMerge

(* A step that writes one of the item's files. *)
LEMMA FileRemoved ==
  ASSUME MergeTyped, RemovesFirst, FilesKnown, RemoveFile
  PROVE  FilesKnown'
<1> DEFINE m == manifest[cur]
<1>1. PICK p \in Paths :
        /\ <<"remove", p>> \in todo
        /\ backup' = IF repo.tree[p] = Absent THEN backup ELSE [backup EXCEPT ![p] = repo.tree[p]]
        /\ repo' = Write(p, Absent)
        /\ todo' = todo \ {<<"remove", p>>}
  BY DEF RemoveFile
<1>2. /\ mpc = "apply" /\ cur \in Items /\ m \in Manifest
      /\ UNCHANGED <<stage, tries, snapshot, manifest, mpc, cur, checked, left>>
  BY ItemInHand DEF RemoveFile, attempts
<1>3. /\ repo'.log = repo.log /\ repo'.tip = repo.tip /\ repo'.branch = repo.branch
      /\ repo'.index = repo.index
      /\ \A q \in Paths : repo'.tree[q] = IF q = p THEN Absent ELSE repo.tree[q]
  BY <1>1, FileWritten DEF MergeTyped, Content
<1>4. HeadTree(repo') = HeadTree(repo) /\ \A k : TreeOf(repo', k) = TreeOf(repo, k)
  BY <1>3, SameHead
<1>5. /\ \A q : StagedContent(cur, q)' = StagedContent(cur, q)
      /\ Touched' = Touched /\ Working' /\ Working /\ \A q : Head0(q)' = Head0(q)
  BY <1>2, <1>4, StagedSame DEF Touched, Working, Head0
<1>6. Touched = ReferencedFiles(m) /\ p \in RemovedFiles(m) /\ p \in Touched
  <2>1. p \in RemovedFiles(m)
    BY <1>1, <1>2, ItemInHand DEF MergeTyped, InHand
  <2> QED
    BY <1>2, <2>1, ItemInHand DEF ReferencedFiles
<1>7. TreeIsClean'
  <2>1. \A q \in Paths \ (left \cup Touched) : CleanAt(q)
    BY DEF FilesKnown, TreeIsClean, CleanAt, Head0, Touched
  <2>2. \A q \in Paths \ (left \cup Touched) : CleanAt(q)'
    BY <1>3, <1>5, <1>6, <2>1 DEF CleanAt
  <2> QED
    BY <1>2, <1>5, <2>2 DEF TreeIsClean, CleanAt, Head0, Touched
<1>8. Applied'
  <2>1. ASSUME NEW q \in Touched \ left PROVE AppliedAt(q)'
    <3>1. q \in Paths /\ AppliedAt(q)
      BY <1>2, <1>5, <1>6, FilesOf DEF FilesKnown, Applied
    <3>2. Copied(q)' = Copied(q)
      BY <1>1, <1>2 DEF Copied
    <3>3. CASE q # p
      <4>1. Removed(q)' = Removed(q) /\ backup'[q] = backup[q]
        BY <1>1, <1>2, <3>1, <3>3 DEF Removed, MergeTyped, TypeOK
      <4> QED
        BY <1>2, <1>3, <1>5, <3>1, <3>2, <3>3, <4>1 DEF AppliedAt
    <3>4. CASE q = p
      <4>1. Removed(q)' /\ ~Removed(q) /\ ~Copied(q)
        BY <1>1, <1>2, <1>5, <1>6, <3>4 DEF Removed, Copied, RemovesFirst
      <4>2. repo.tree[q] = Head0(q) /\ repo.index[q] = Head0(q)
        BY <1>2, <3>1, <4>1 DEF AppliedAt
      <4>3. q \notin Overwritten(m) =>
              backup'[q] = IF Head0(q) # Absent THEN Head0(q) ELSE Unset
        BY <1>1, <3>1, <3>4, <4>1, <4>2 DEF AppliedAt, MergeTyped, TypeOK
      <4> QED
        BY <1>2, <1>3, <1>5, <3>1, <3>2, <3>4, <4>1, <4>2, <4>3 DEF AppliedAt
    <3> QED
      BY <3>3, <3>4
  <2> QED
    BY <1>2, <1>5, <2>1 DEF Applied
<1>9. CheckedIsTree' /\ OutputsSeen'
  BY <1>2, <1>4, <1>5 DEF CheckedIsTree, OutputsSeen, FilesKnown
<1> QED
  BY <1>7, <1>8, <1>9 DEF FilesKnown

(* A removal that fails: the path is excused from then on. *)
LEMMA FileStays ==
  ASSUME MergeTyped, RemovesFirst, FilesKnown, RemoveFails
  PROVE  FilesKnown'
<1> DEFINE m == manifest[cur]
<1>1. PICK p \in Paths :
        /\ <<"remove", p>> \in todo
        /\ backup' = [backup EXCEPT ![p] = repo.tree[p]]
        /\ todo' = todo \ {<<"remove", p>>}
        /\ left' = left \cup {p}
  BY DEF RemoveFails
<1>2. /\ mpc = "apply" /\ cur \in Items /\ m \in Manifest
      /\ UNCHANGED <<repo, stage, tries, snapshot, manifest, mpc, cur, checked>>
  BY ItemInHand DEF RemoveFails, attempts
<1>3. HeadTree(repo') = HeadTree(repo) /\ \A k : TreeOf(repo', k) = TreeOf(repo, k)
  BY <1>2
<1>4. /\ \A q : StagedContent(cur, q)' = StagedContent(cur, q)
      /\ Touched' = Touched /\ Working' /\ Working /\ \A q : Head0(q)' = Head0(q)
  BY <1>2, <1>3, StagedSame DEF Touched, Working, Head0
<1>5. Touched = ReferencedFiles(m) /\ ReferencedFiles(m) \subseteq Paths
  BY <1>2, ItemInHand, FilesOf
<1>6. TreeIsClean'
  BY <1>1, <1>2, <1>4 DEF FilesKnown, TreeIsClean, Touched, HeadTree
<1>7. Applied'
  <2>1. ASSUME NEW q \in Touched \ left' PROVE AppliedAt(q)'
    <3>1. q \in Paths /\ q # p /\ AppliedAt(q)
      BY <1>1, <1>4, <1>5, <2>1 DEF FilesKnown, Applied
    <3>2. Copied(q)' = Copied(q) /\ Removed(q)' = Removed(q) /\ backup'[q] = backup[q]
      BY <1>1, <1>2, <3>1 DEF Copied, Removed, MergeTyped, TypeOK
    <3> QED
      BY <1>2, <1>4, <3>1, <3>2 DEF AppliedAt
  <2> QED
    BY <1>2, <1>4, <2>1 DEF Applied
<1>8. CheckedIsTree'
  BY <1>2 DEF CheckedIsTree
<1>9. OutputsSeen'
  BY <1>1, <1>2, <1>3, <1>4 DEF OutputsSeen, FilesKnown
<1> QED
  BY <1>6, <1>7, <1>8, <1>9 DEF FilesKnown

LEMMA FileCopied ==
  ASSUME MergeTyped, FilesKnown, CopyFile
  PROVE  FilesKnown'
<1> DEFINE m == manifest[cur]
<1>1. PICK p \in Paths :
        /\ NextCopy(p)
        /\ backup' = [backup EXCEPT ![p] = repo.tree[p]]
        /\ repo' = Write(p, StagedContent(cur, p))
        /\ todo' = todo \ {<<"copy", p>>}
  BY DEF CopyFile
<1>2. /\ mpc = "apply" /\ cur \in Items /\ m \in Manifest /\ Known(cur)
      /\ UNCHANGED <<stage, tries, snapshot, manifest, mpc, cur, checked, left>>
  BY <1>1, ItemInHand DEF NextCopy, CopyFile, attempts
<1>3. /\ repo'.log = repo.log /\ repo'.tip = repo.tip /\ repo'.branch = repo.branch
      /\ repo'.index = repo.index
      /\ \A q \in Paths : repo'.tree[q] = IF q = p THEN StagedContent(cur, p) ELSE repo.tree[q]
  BY <1>1, <1>2, StagedTyped, FileWritten DEF MergeTyped
<1>4. HeadTree(repo') = HeadTree(repo) /\ \A k : TreeOf(repo', k) = TreeOf(repo, k)
  BY <1>3, SameHead
<1>5. /\ \A q : StagedContent(cur, q)' = StagedContent(cur, q)
      /\ Touched' = Touched /\ Working' /\ Working /\ \A q : Head0(q)' = Head0(q)
  BY <1>2, <1>4, StagedSame DEF Touched, Working, Head0
<1>6. Touched = ReferencedFiles(m) /\ p \in OutputFiles(m) /\ p \in Touched
  <2>1. p \in OutputFiles(m)
    BY <1>1, <1>2, ItemInHand DEF MergeTyped, InHand, NextCopy
  <2> QED
    BY <1>2, <2>1, ItemInHand DEF ReferencedFiles
<1>7. TreeIsClean'
  <2>1. \A q \in Paths \ (left \cup Touched) : CleanAt(q)
    BY DEF FilesKnown, TreeIsClean, CleanAt, Head0, Touched
  <2>2. \A q \in Paths \ (left \cup Touched) : CleanAt(q)'
    BY <1>3, <1>5, <1>6, <2>1 DEF CleanAt
  <2> QED
    BY <1>2, <1>5, <2>2 DEF TreeIsClean, CleanAt, Head0, Touched
<1>8. Applied'
  <2>1. ASSUME NEW q \in Touched \ left PROVE AppliedAt(q)'
    <3>1. q \in Paths /\ AppliedAt(q)
      BY <1>2, <1>5, <1>6, FilesOf DEF FilesKnown, Applied
    <3>2. Removed(q)' = Removed(q)
      BY <1>1, <1>2 DEF Removed
    <3>3. CASE q # p
      <4>1. Copied(q)' = Copied(q) /\ backup'[q] = backup[q]
        BY <1>1, <1>2, <3>1, <3>3 DEF Copied, MergeTyped, TypeOK
      <4> QED
        BY <1>2, <1>3, <1>5, <3>1, <3>2, <3>3, <4>1 DEF AppliedAt
    <3>4. CASE q = p
      <4>1. Copied(q)' /\ ~Copied(q)
        BY <1>1, <1>2, <1>6, <3>4 DEF Copied, NextCopy
      <4>2. backup'[q] = repo.tree[q] /\ repo'.tree[q] = StagedContent(cur, q)
        BY <1>1, <1>3, <3>1, <3>4 DEF MergeTyped, TypeOK
      <4>3. q \notin Overwritten(m) => repo.tree[q] = Head0(q)
        <5>1. q \notin Overwritten(m) => ~Removed(q)
          BY <1>6, <3>4 DEF Overwritten, Removed
        <5> QED
          BY <3>1, <4>1, <5>1 DEF AppliedAt
      <4>4. repo.index[q] = Head0(q)
        BY <1>2, <3>1 DEF AppliedAt
      <4> QED
        BY <1>2, <1>3, <1>5, <4>1, <4>2, <4>3, <4>4 DEF AppliedAt
    <3> QED
      BY <3>3, <3>4
  <2> QED
    BY <1>2, <1>5, <2>1 DEF Applied
<1>9. CheckedIsTree' /\ OutputsSeen'
  BY <1>2, <1>4, <1>5 DEF CheckedIsTree, OutputsSeen, FilesKnown
<1> QED
  BY <1>7, <1>8, <1>9 DEF FilesKnown

(* The copy that fails reverts nothing: all the item refers to is excused.  *)
LEMMA CopyGivenUp ==
  ASSUME MergeTyped, FilesKnown, CopyFails
  PROVE  FilesKnown'
<1>1. PICK p \in Paths : NextCopy(p) /\ \E c \in {repo.tree[p], Partial} : repo' = Write(p, c)
  BY DEF CopyFails
<1>2. PICK c \in {repo.tree[p], Partial} : repo' = Write(p, c)
  BY <1>1
<1>3. /\ mpc = "apply" /\ p \in Touched /\ Touched = ReferencedFiles(manifest[cur])
      /\ left' = left \cup Touched /\ mpc' = "idle" /\ cur' = NoItem
  <2>1. p \in OutputFiles(manifest[cur])
    BY <1>1, ItemInHand DEF MergeTyped, InHand, NextCopy
  <2> QED
    BY <1>1, <2>1, ItemInHand DEF NextCopy, ReferencedFiles, CopyFails, FailItem, Released
<1>4. c \in Content
  BY DEF MergeTyped, TypeOK, Content
<1>5. /\ repo'.log = repo.log /\ repo'.tip = repo.tip /\ repo'.branch = repo.branch
      /\ repo'.index = repo.index
      /\ \A q \in Paths : q = p \/ repo'.tree[q] = repo.tree[q]
  BY <1>2, <1>4, FileWritten DEF MergeTyped
<1>6. \A q \in Paths \ (left \cup Touched) : CleanAt(q)
  BY DEF FilesKnown, TreeIsClean, CleanAt, Head0, Touched
<1>7. \A q \in Paths \ left' : CleanAt(q)'
  <2>1. HeadTree(repo') = HeadTree(repo)
    BY <1>5, SameHead
  <2> QED
    BY <1>3, <1>5, <1>6, <2>1 DEF CleanAt, Head0
<1> QED
  BY <1>3, <1>7, WorkerGivesUp

(* A merge that is reverted leaves its files as they are in HEAD, except    *)
(* one that was removed and put out again.                                 *)
LEMMA MergeReverted ==
  ASSUME MergeTyped, FilesKnown, ChecksFail \/ StageFails \/ CommitFails
  PROVE  FilesKnown'
<1> DEFINE m == manifest[cur]
<1>1. /\ mpc \in {"apply", "add", "commit"} /\ todo = {} /\ mpc # "idle" /\ Working
      /\ repo' = RevertOutput(repo) /\ mpc' = "idle" /\ cur' = NoItem
  BY DEF ChecksFail, StageFails, CommitFails, FailItem, Released, MergeTyped, InHand, Working
<1>2. /\ left \subseteq left' /\ Overwritten(m) \subseteq left'
      /\ mpc = "commit" => \/ Touched \subseteq left'
                           \/ repo.index = HeadTree(repo)
  <2>1. Touched = ReferencedFiles(m) /\ Overwritten(m) \subseteq ReferencedFiles(m)
    BY <1>1, ItemInHand, FilesOf DEF Overwritten
  <2> QED
    BY <2>1 DEF ChecksFail, StageFails, CommitFails, CanCommit
<1>3. Touched = ReferencedFiles(m) /\ m \in Manifest /\ ReferencedFiles(m) \subseteq Paths
  BY <1>1, ItemInHand, FilesOf
<1>4. /\ repo'.log = repo.log /\ repo'.tip = repo.tip /\ repo'.branch = repo.branch
      /\ repo'.index = repo.index
      /\ \A q \in Paths : repo'.tree[q] = IF backup[q] = Unset THEN repo.tree[q] ELSE backup[q]
  BY <1>1, Reverted DEF MergeTyped, TypeOK
<1>5. \A q : Head0(q)' = Head0(q)
  BY <1>4, SameHead DEF Head0
<1>6. ASSUME NEW q \in Paths \ left' PROVE CleanAt(q)'
  <2>1. CASE q \notin Touched
    <3>1. CleanAt(q) /\ backup[q] = Unset
      BY <1>2, <2>1 DEF FilesKnown, TreeIsClean, CleanAt, Head0, Touched, MergeTyped, InHand
    <3> QED
      BY <1>4, <1>5, <3>1 DEF CleanAt
  <2>2. CASE q \in Touched
    <3>1. AppliedAt(q) /\ q \notin Overwritten(m)
      BY <1>1, <1>2, <2>2 DEF FilesKnown, Applied
    <3>2. repo.index[q] = Head0(q)
      BY <1>2, <2>2, <3>1 DEF AppliedAt, Head0
    <3>3. Head0(q) # Unset
      <4>1. HeadTree(repo) \in Tree
        BY TreesOf DEF MergeTyped
      <4> QED
        BY <4>1, MergeAssumption DEF Tree, Head0
    <3>4. repo'.tree[q] = Head0(q)
      BY <1>4, <3>1, <3>3 DEF AppliedAt
    <3> QED
      BY <1>4, <1>5, <3>2, <3>4 DEF CleanAt
  <2> QED
    BY <2>1, <2>2
<1> QED
  BY <1>1, <1>6, WorkerGivesUp

LEMMA ChecksPassed ==
  ASSUME MergeTyped, FilesKnown, ChecksPass
  PROVE  FilesKnown'
<1>1. /\ mpc = "apply" /\ mpc' = "add" /\ checked' = repo.tree
      /\ UNCHANGED <<repo, snapshot, manifest, cur, todo, backup, left>>
  BY DEF ChecksPass, attempts
<1>2. /\ Touched' = Touched /\ Working' /\ Working /\ \A q : Head0(q)' = Head0(q)
      /\ TreeOf(repo, snapshot[cur])' = TreeOf(repo, snapshot[cur])
  BY <1>1 DEF Touched, Working, Head0, TreeOf
<1>3. \A q : StagedContent(cur, q)' = StagedContent(cur, q)
  BY <1>1, <1>2, StagedSame
<1>4. TreeIsClean' /\ CheckedIsTree'
  BY <1>1 DEF FilesKnown, TreeIsClean, CheckedIsTree
<1>5. \A q : AppliedAt(q) => AppliedAt(q)'
  BY <1>1, <1>2, <1>3 DEF AppliedAt, Copied, Removed
<1>6. Applied' /\ OutputsSeen'
  BY <1>1, <1>2, <1>5 DEF FilesKnown, Applied, OutputsSeen
<1> QED
  BY <1>4, <1>6 DEF FilesKnown

LEMMA FilesStaged ==
  ASSUME MergeTyped, FilesKnown, StageFiles
  PROVE  FilesKnown'
<1> DEFINE m == manifest[cur]
<1>1. /\ mpc = "add" /\ mpc' = "commit" /\ repo' = AddFiles(repo, allGitFiles(m))
      /\ UNCHANGED <<snapshot, manifest, cur, todo, backup, checked, left>>
  BY DEF StageFiles, attempts
<1>2. allGitFiles(m) = Touched /\ Touched \subseteq Paths
  BY <1>1, ItemInHand, FilesOf DEF allGitFiles
<1>3. /\ repo'.log = repo.log /\ repo'.tip = repo.tip /\ repo'.branch = repo.branch
      /\ repo'.tree = repo.tree
      /\ \A q \in Paths : repo'.index[q] = IF q \in Touched THEN repo.tree[q] ELSE repo.index[q]
  BY <1>1, <1>2, Staged DEF MergeTyped
<1>4. HeadTree(repo') = HeadTree(repo) /\ \A k : TreeOf(repo', k) = TreeOf(repo, k)
  BY <1>3, SameHead
<1>5. /\ \A q : StagedContent(cur, q)' = StagedContent(cur, q)
      /\ Touched' = Touched /\ Working' /\ Working /\ \A q : Head0(q)' = Head0(q)
  BY <1>1, <1>4, StagedSame DEF Touched, Working, Head0
<1>6. TreeIsClean'
  <2>1. \A q \in Paths \ (left \cup Touched) : CleanAt(q)
    BY DEF FilesKnown, TreeIsClean, CleanAt, Head0, Touched
  <2>2. \A q \in Paths \ (left \cup Touched) : CleanAt(q)'
    BY <1>3, <1>5, <2>1 DEF CleanAt
  <2> QED
    BY <1>1, <1>5, <2>2 DEF TreeIsClean, CleanAt, Head0, Touched
<1>7. \A q \in Touched : AppliedAt(q) => AppliedAt(q)'
  BY <1>1, <1>2, <1>3, <1>5 DEF AppliedAt, Copied, Removed
<1>8. Applied' /\ CheckedIsTree' /\ OutputsSeen'
  BY <1>1, <1>3, <1>4, <1>5, <1>7 DEF FilesKnown, Applied, CheckedIsTree, OutputsSeen
<1> QED
  BY <1>6, <1>8 DEF FilesKnown

(* The commit of an item: the index is the new HEAD.                       *)
LEMMA ItemCommitted ==
  ASSUME MergeTyped, FilesKnown, CommitItem
  PROVE  FilesKnown' /\ CommitsItem /\ CommitsChecked /\ CommitsSeen
<1> DEFINE m == manifest[cur]
<1>1. /\ mpc = "commit" /\ mpc # "idle" /\ Working /\ mpc' = "finish" /\ todo = {}
      /\ UNCHANGED <<snapshot, manifest, cur, todo, backup, checked, left>>
  BY DEF CommitItem, attempts, Working, MergeTyped, InHand
<1>2. /\ cur \in Items /\ cur # NoItem /\ Known(cur) /\ m \in Manifest
      /\ Touched = OutputFiles(m) \cup RemovedFiles(m) /\ Touched \subseteq Paths
  BY <1>1, ItemInHand, FilesOf, MergeAssumption
<1>3. /\ HeadTree(repo') = repo.index /\ repo'.tree = repo.tree /\ repo'.index = repo.index
      /\ TreeOf(repo', snapshot[cur]) = TreeOf(repo, snapshot[cur])
  BY <1>2, Committed DEF MergeTyped, CommitItem, Known
<1>4. Touched' = Touched /\ ~Working'
  BY <1>1 DEF Touched, Working
<1>5. \A q \in Paths \ (left \cup Touched) : CleanAt(q)
  BY DEF FilesKnown, TreeIsClean, CleanAt, Head0, Touched
<1>6. \A q \in Touched \ left : AppliedAt(q) /\ repo.index[q] = repo.tree[q]
  BY <1>1 DEF FilesKnown, Applied, AppliedAt
<1>7. \A q \in Paths \ left : CleanAt(q)' /\ repo.index[q] = repo.tree[q]
  BY <1>3, <1>5, <1>6 DEF CleanAt, Head0
<1>8. FilesKnown'
  BY <1>1, <1>2, <1>4, <1>7 DEF FilesKnown, TreeIsClean, Applied, CheckedIsTree, OutputsSeen, CleanAt,
    Head0, Touched
<1>9. CommitsItem
  <2>1. ASSUME NEW p \in Paths \ left
        PROVE  repo.index[p] = IF p \in OutputFiles(m) THEN StagedContent(cur, p)
                               ELSE IF p \in RemovedFiles(m) THEN Absent ELSE HeadTree(repo)[p]
    <3>1. CASE p \in Touched
      BY <1>1, <1>2, <1>6, <3>1 DEF AppliedAt, Copied, Removed
    <3>2. CASE p \notin Touched
      BY <1>2, <1>5, <3>2 DEF CleanAt, Head0
    <3> QED
      BY <3>1, <3>2
  <2> QED
    BY <1>3, <2>1 DEF CommitsItem
<1>10. CommitsChecked
  BY <1>1, <1>3, <1>7 DEF CommitsChecked, FilesKnown, CheckedIsTree
<1>11. CommitsSeen
  BY <1>1 DEF CommitsSeen, FilesKnown, OutputsSeen, Head0
<1> QED
  BY <1>8, <1>9, <1>10, <1>11

LEMMA ItemCompleted ==
  ASSUME MergeTyped, FilesKnown, CompleteTask
  PROVE  FilesKnown'
<1>1. mpc = "finish" /\ mpc' = "idle" /\ cur' = NoItem /\ UNCHANGED <<repo, left>>
  BY DEF CompleteTask, Released
<1>2. \A q \in Paths \ left : CleanAt(q)
  BY <1>1 DEF FilesKnown, TreeIsClean, Applied, CleanAt, Head0, Touched
<1>3. \A q \in Paths \ left' : CleanAt(q)'
  BY <1>1, <1>2 DEF CleanAt, Head0
<1> QED
  BY <1>1, <1>3, WorkerGivesUp

(* A crash leaves the files of the item in hand as they are.               *)
LEMMA WorkerLost ==
  ASSUME MergeTyped, FilesKnown, Crash
  PROVE  FilesKnown'
<1>1. mpc' = "idle" /\ cur' = NoItem /\ repo' = repo /\ left' = left \cup Touched
  BY DEF Crash, Touched
<1>2. \A q \in Paths \ left' : CleanAt(q)
  BY <1>1 DEF FilesKnown, TreeIsClean, CleanAt, Head0, Touched
<1>3. \A q \in Paths \ left' : CleanAt(q)'
  BY <1>1, <1>2 DEF CleanAt, Head0
<1> QED
  BY <1>1, <1>3, WorkerGivesUp

LEMMA FilesKept ==
  ASSUME MergeInv, [Next]_vars
  PROVE  FilesKnown'
<1> USE DEF MergeInv
<1>1. MergeTyped' /\ CancelExcused'
  BY TypedKept, CancelKept
<1>2. CASE \E i \in Items : Dispatch(i) \/ Finish(i)
  <2>1. /\ UNCHANGED <<repo, mpc, cur, todo, backup, checked, left>>
        /\ mpc # "idle" => manifest'[cur] = manifest[cur] /\ snapshot'[cur] = snapshot[cur]
    BY <1>2, ItemInHand DEF MergeTyped, TypeOK, Dispatch, Finish, worker
  <2> QED
    BY <2>1, WorkerIdles
<1>3. CASE UNCHANGED vars
  BY <1>3, WorkerIdles DEF vars, attempts, worker
<1>4. CASE CancelStatus \/ CancelReset \/ CancelClean \/ CancelCheckout
  <2>1. cancel' # "no"
    BY <1>4 DEF CancelStatus, CancelReset, CancelClean, CancelCheckout, CancelStep
  <2> QED
    BY <1>1, <2>1, CancelledKnown DEF CancelExcused
<1> QED
  BY <1>2, <1>3, <1>4, ItemTaken, FileRemoved, FileStays, FileCopied, CopyGivenUp, MergeReverted, ChecksPassed,
    FilesStaged, ItemCommitted, ItemCompleted, WorkerLost DEF Next

LEMMA InvKept ==
  ASSUME MergeInv, [Next]_vars
  PROVE  MergeInv'
BY TypedKept, CancelKept, OrderKept, FilesKept DEF MergeInv

-----------------------------------------------------------------------------
(* The start of the run. *)

LEMMA InvStarts ==
  ASSUME Init
  PROVE  MergeInv
<1> DEFINE tree0 == [p \in Paths |-> IF p \in Initial THEN p ELSE Absent]
           r == NewRepo(tree0, base)
<1>1. tree0 \in Tree /\ base \in Branches /\ work \in Branches /\ base # work
  BY MergeAssumption DEF Tree, Content
<1>2. /\ r.branch = base /\ r.tip = [b \in Branches |-> IF b = base THEN 1 ELSE 0]
      /\ r.log = <<[tree |-> tree0, item |-> Absent]>> /\ r.index = tree0 /\ r.tree = tree0
  BY DEF NewRepo
<1>3. r = [log |-> r.log, tip |-> r.tip, branch |-> r.branch, index |-> r.index, tree |-> r.tree]
  BY DEF NewRepo
<1> HIDE DEF r
<1>4. CurrentHEAD(r) = 1 /\ ~BranchExists(r, work)
  BY <1>1, <1>2 DEF CurrentHEAD, BranchExists
<1>5. repo = CreateAndCheckoutBranch(r, work)
  <2>1. repo = SetupWorkBranch(r, base, work)
    BY DEF Init, r
  <2> QED
    BY <1>2, <1>4, <2>1 DEF SetupWorkBranch
<1>6. repo = [r EXCEPT !.tip = [r.tip EXCEPT ![work] = 1], !.branch = work]
  BY <1>3, <1>4, <1>5 DEF CreateAndCheckoutBranch
<1>7. /\ repo.log = r.log /\ repo.branch = work /\ repo.index = tree0 /\ repo.tree = tree0
      /\ repo.tip = [r.tip EXCEPT ![work] = 1]
  BY <1>2, <1>3, <1>6
<1>8. repo = [log |-> repo.log, tip |-> repo.tip, branch |-> repo.branch, index |-> repo.index,
              tree |-> repo.tree]
  BY <1>3, <1>6
<1>9. /\ \A b \in Branches : repo.tip[b] = 1 /\ repo.tip \in [Branches -> Nat]
      /\ repo.log \in Seq(Revision) /\ DOMAIN repo.log = {1} /\ repo.log[1].tree = tree0
  BY <1>1, <1>2, <1>7, MergeAssumption DEF Revision
<1>10. RepoOK(repo) /\ HeadTree(repo) = tree0
  <2> HIDE DEF tree0
  <2> QED
    BY <1>1, <1>7, <1>8, <1>9 DEF RepoOK, Repo, HeadTree, TreeOf, CurrentHEAD
<1>11. MergeTyped
  <2>1. TypeOK
    <3>1. /\ repo.log \in Seq([tree : [Paths -> Content], item : Items \cup {Absent}])
          /\ repo.tip \in [Branches -> DOMAIN repo.log] /\ repo.branch \in Branches
          /\ repo.index \in [Paths -> Content] /\ repo.tree \in [Paths -> Content]
      BY <1>10, RepoTyped
    <3>2. NoManifest \in Manifest /\ NoBackup \in [Paths -> Content \cup {Unset}]
      BY DEF NoManifest, Manifest, NoBackup
    <3>3. /\ manifest \in [Items -> Manifest] /\ backup \in [Paths -> Content \cup {Unset}]
          /\ faults \in 0..MaxFaults /\ crashes \in 0..MaxCrashes /\ checked \in [Paths -> Content]
      <4> HIDE DEF tree0
      <4>1. MaxFaults \in Nat /\ MaxCrashes \in Nat
        BY MergeAssumption
      <4>2. 0 \in 0..MaxFaults /\ 0 \in 0..MaxCrashes
        BY <4>1
      <4>3. checked \in [Paths -> Content]
        BY <3>1 DEF Init
      <4> QED
        BY <3>2, <4>2, <4>3 DEF Init
    <3>4. /\ stage \in [Items -> {"new", "running", "queued", "merging", "done"}]
          /\ tries \in [Items -> Nat] /\ snapshot \in [Items -> Nat]
          /\ queue \in Seq(Items) /\ cur \in Items \cup {NoItem} /\ mpc = "idle" /\ todo = {}
          /\ cancel = "no" /\ left = {}
      BY DEF Init
    <3> HIDE DEF tree0
    <3> QED
      BY <3>1, <3>3, <3>4 DEF TypeOK
  <2>2. SnapshotsKnown /\ InHand
    BY DEF Init, SnapshotsKnown, InFlight, InHand, NoBackup
  <2> QED
    BY <1>10, <2>1, <2>2 DEF MergeTyped
<1>12. CancelExcused /\ RemovesFirst
  BY DEF Init, CancelExcused, RemovesFirst, Working
<1>13. FilesKnown
  BY <1>7, <1>10 DEF Init, FilesKnown, TreeIsClean, Applied, CheckedIsTree, OutputsSeen, Working
<1> QED
  BY <1>11, <1>12, <1>13 DEF MergeInv

(* The files are where the merge queue believes them to be. *)
LEMMA MergeInvHolds == Spec => []MergeInv
<1>1. Init => MergeInv
  BY InvStarts
<1>2. MergeInv /\ [Next]_vars => MergeInv'
  BY InvKept
<1> QED
  BY <1>1, <1>2, PTL DEF Spec

-----------------------------------------------------------------------------
(* Types are kept: above all, every path of the working tree, of the index  *)
(* and of every commit has a content that some item or the base branch gave *)
(* it, and the branch tips are commits, through applies, reverts, commits   *)
(* and CancelRun's reset, clean and checkout.                               *)
THEOREM MergeTypes == Spec => []TypeOK
<1>1. MergeInv => TypeOK
  BY DEF MergeInv, MergeTyped
<1> QED
  BY <1>1, MergeInvHolds, PTL

(* Whatever was merged, failed, reverted or cut off before, outside the     *)
(* item in hand and outside the paths a failed copy, a crash or a cancel    *)
(* excuses, the working tree and the index are those of HEAD.               *)
THEOREM TreeCorrect == Spec => []TreeIsClean
<1>1. MergeInv => TreeIsClean
  BY DEF MergeInv, FilesKnown
<1> QED
  BY <1>1, MergeInvHolds, PTL

LEMMA OnlyItemsCommit ==
  ASSUME MergeInv, [Next]_vars
  PROVE  CommitsItem /\ CommitsChecked /\ CommitsSeen
<1>1. CASE CommitItem
  BY <1>1, ItemCommitted DEF MergeInv
<1>2. CASE repo'.log = repo.log
  <2>1. Len(repo.log) \in Nat
    BY DEF MergeInv, MergeTyped, TypeOK
  <2>2. ~Committing
    BY <1>2, <2>1 DEF Committing
  <2> QED
    BY <2>2 DEF CommitsItem, CommitsChecked, CommitsSeen
<1> QED
  BY <1>1, <1>2, RepoKept DEF MergeInv

(* A commit of the merge queue is its item's output on top of the commit    *)
(* before, no more and no less, and it is the tree the integration checks   *)
(* passed: no leftover of another attempt, whatever came before, gets into  *)
(* it at a path that is not excused.                                        *)
THEOREM CommitCorrect == Spec => CommitIsOutput
<1>1. MergeInv /\ [Next]_vars => [CommitsItem /\ CommitsChecked]_vars
  BY OnlyItemsCommit
<1> QED
  BY <1>1, MergeInvHolds, PTL DEF Spec, CommitIsOutput

(* No commit overwrites a change its attempt has not seen: neither the      *)
(* conflict check against HEAD nor the conservative one lets it through.    *)
THEOREM NoLostUpdateCorrect == Spec => NoLostUpdate
<1>1. MergeInv /\ [Next]_vars => [CommitsSeen]_vars
  BY OnlyItemsCommit
<1> QED
  BY <1>1, MergeInvHolds, PTL DEF Spec, NoLostUpdate

-----------------------------------------------------------------------------
(* The merges and the services around them share no variable: each keeps    *)
(* its data well formed, whatever the others do.                            *)
THEOREM ServicesTypes ==
  /\ Spec /\ EcoSpec /\ FeedSpec /\ SessSpec /\ TermSpec /\ IndexSpec
  /\ BrokerSpec /\ ControlSpec /\ RegSpec /\ GraphSpec /\ CreationSpec /\ PromptSpec
  => []ServicesTypeOK
BY MergeTypes, EcoTypes, FeedTypes, SessTypes, TermTypes, IndexTypes, BrokerTypes, ControlTypes,
  RegTypes, GraphTypes, CreationTypes, PromptTypes, PTL DEF ServicesTypeOK
=============================================================================
