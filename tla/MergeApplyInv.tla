---------------------------- MODULE MergeApplyInv ----------------------------
(***************************************************************************)
(* The inductive invariant behind the safety properties of MergeApply, and *)
(* the types of the merges and of the services around them.                *)
(***************************************************************************)
EXTENDS MergeApply, ServicesInv, RequestsInv

Tree == [Paths -> Content]
Revision == [tree : Tree, item : Items \cup {Absent}]
Repo == [log : Seq(Revision), tip : [Branches -> Nat], branch : Branches,
         index : Tree, tree : Tree]
RepoOK(r) == r \in Repo /\ \A b \in Branches : r.tip[b] \in DOMAIN r.log

(* An attempt that was dispatched has a snapshot, and so has every item of *)
(* the queue, which may belong to an attempt of the past.                  *)
Known(i) == snapshot[i] \in DOMAIN repo.log
SnapshotsKnown ==
  /\ \A i \in Items : InFlight(i) => Known(i)
  /\ \A k \in DOMAIN queue : Known(queue[k])

(* What the worker has in hand belongs to its item.                        *)
Touched == IF cur = NoItem THEN {} ELSE ReferencedFiles(manifest[cur])
InHand ==
  /\ cur = NoItem <=> mpc = "idle"
  /\ cur # NoItem =>
       /\ stage[cur] = "merging"
       /\ todo \subseteq ({"remove"} \X RemovedFiles(manifest[cur]))
                           \cup ({"copy"} \X OutputFiles(manifest[cur]))
  /\ mpc # "apply" => todo = {}
  /\ \A p \in Paths \ Touched : backup[p] = Unset

MergeTyped == TypeOK /\ RepoOK(repo) /\ SnapshotsKnown /\ InHand

(* Where the application of the output stands at a path.                   *)
Removed(p) == p \in RemovedFiles(manifest[cur]) /\ <<"remove", p>> \notin todo
Copied(p) == p \in OutputFiles(manifest[cur]) /\ <<"copy", p>> \notin todo
Head0(p) == HeadTree(repo)[p]

Working == mpc \in {"apply", "add", "commit"}
RemovesFirst ==
  Working =>
    \A p, q \in Paths : <<"remove", p>> \in todo /\ q \in OutputFiles(manifest[cur]) =>
                          <<"copy", q>> \in todo

(* Until the commit HEAD is what it was when the item was dequeued, and the *)
(* tree, the index and the backup are known at each of the item's paths.   *)
AppliedAt(p) ==
  /\ repo.tree[p] = IF Copied(p) THEN StagedContent(cur, p)
                    ELSE IF Removed(p) THEN Absent ELSE Head0(p)
  /\ repo.index[p] = IF mpc = "commit" THEN repo.tree[p] ELSE Head0(p)
  /\ p \notin Overwritten(manifest[cur]) =>
       backup[p] = IF Copied(p) \/ (Removed(p) /\ Head0(p) # Absent) THEN Head0(p) ELSE Unset
CleanAt(p) == repo.tree[p] = Head0(p) /\ repo.index[p] = Head0(p)

Applied ==
  /\ Working => \A p \in Touched \ left : AppliedAt(p)
  /\ mpc = "finish" => \A p \in Touched \ left : CleanAt(p)

CheckedIsTree == mpc \in {"add", "commit"} => \A p \in Paths \ left : checked[p] = repo.tree[p]

OutputsSeen ==
  Working => \A p \in OutputFiles(manifest[cur]) \ left :
               Head0(p) \in {TreeOf(repo, snapshot[cur])[p], Absent}

FilesKnown == TreeIsClean /\ Applied /\ CheckedIsTree /\ OutputsSeen

(* A cancelled run is excused everywhere. *)
CancelExcused == cancel # "no" => left = Paths

MergeInv == MergeTyped /\ CancelExcused /\ RemovesFirst /\ FilesKnown

-----------------------------------------------------------------------------
(* Every part keeps its data well formed: the merges, the orders, the bus,  *)
(* the sessions, the terminal and the index, and what serves requests.      *)
ServicesTypeOK ==
  /\ TypeOK /\ EcoTypeOK /\ FeedTypeOK /\ SessTypeOK /\ TermTypeOK /\ IndexTypeOK
  /\ BrokerTypeOK /\ ControlTypeOK /\ RegTypeOK /\ GraphTypeOK /\ CreationTypeOK /\ PromptTypeOK
=============================================================================
