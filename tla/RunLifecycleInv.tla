--------------------------- MODULE RunLifecycleInv ---------------------------
(***************************************************************************)
(* The inductive invariants behind the safety properties of RunLifecycle.  *)
(***************************************************************************)
EXTENDS RunLifecycle

Tree == [Paths -> Texts \cup {Absent}]

(* The repository is one git can have made: the branch that is checked out *)
(* has a commit, and what a branch has is in the log.                      *)
Revision == [tree : Tree, item : {Absent}]
Repo == [log : Seq(Revision), tip : [Branches -> Nat],
         branch : Branches, index : Tree, tree : Tree]
RepoOK(r) ==
  /\ r \in Repo
  /\ \A b \in Branches : r.tip[b] <= Len(r.log)
  /\ r.tip[r.branch] # 0

(* A run has its columns from the moment its row is made, and a client that *)
(* works for a run works for one with a row.                                *)
Named(c) ==
  pc[c] \in (Steps \ {"idle", "validate", "create"}) =>
    rn[c] \in Runs /\ status[rn[c]] # "none"

RowsMade ==
  /\ \A r \in Runs : status[r] # "none" <=> \E i \in DOMAIN order : order[i] = r
  /\ \A r \in Runs : status[r] # "none" => base[r] \in Branches
  /\ \A r \in Runs : status[r] = "none" => hash[r] = Absent /\ r \notin ready
  /\ \A c \in Clients : Named(c)

(* A document in a client's hands is one that was read from a draft. *)
DocumentsRead ==
  /\ \A c \in Clients :
       /\ pc[c] \in Approving \cup {"submit"} => doc[c] \in Texts
       /\ pc[c] = "activate" => hash[rn[c]] \in Texts
  /\ \A r \in Runs : status[r] \in {"active", "paused"} => hash[r] \in Texts

LifecycleTyped == TypeOK /\ RepoOK(repo) /\ RowsMade /\ DocumentsRead

(* Nothing has raced: at most one StartRun at a time, none next to a        *)
(* cleanup, and what each of them believes about the runs in flight.        *)
StartAlone ==
  \A c, d \in Clients :
    pc[c] \in Starting /\ pc[d] \in Starting \cup {"cleanup"} => c = d

StartBelieves ==
  /\ \A c \in Clients : pc[c] = "replace" => InFlightRuns \subseteq {rn[c]}
  /\ \A c \in Clients : pc[c] \in {"validate", "create", "cleanup"} => InFlightRuns = {}

(* A run in flight is the last one made. *)
NewestFlies == \A r \in InFlightRuns : r = order[Len(order)]

Serial == ~raced => StartAlone /\ StartBelieves /\ NewestFlies

RunInv == LifecycleTyped /\ Serial /\ RunOnItsBranch

(* A file that is gone from the tree is not in the index either. *)
GoneIsUntracked(r) ==
  \A p \in SRSFiles : r.tree[p] = Absent => r.index[p] = Absent

(* While git has brought nothing back, an srs.md that exists is read-only.  *)
ReadOnlyKept == repo.tree["srs"] # Absent => readonly

(* The client past WriteSRS, of which there is one, has the file it wrote,  *)
(* still untracked, and fills in the rest step by step.                     *)
Writer == {"sum", "hash", "activate"}
WriterAlone == \A c, d \in Clients : pc[c] \in Writer /\ pc[d] \in Writer => c = d
WriterHas(c) ==
  /\ pc[c] \in Writer => repo.tree["srs"] = doc[c] /\ repo.index["srs"] = Absent
  /\ pc[c] = "sum" => repo.tree["sum"] = Absent
  /\ pc[c] \in {"hash", "activate"} => repo.tree["sum"] = doc[c]
  /\ pc[c] = "activate" => hash[rn[c]] = doc[c]

(* The SRS of an active run is on disk, and while StartRun has yet to check *)
(* out the work branch it is untracked, so that git keeps it.               *)
ActiveHas ==
  \A r \in Runs : status[r] \in {"active", "paused"} =>
    /\ repo.tree["srs"] = hash[r]
    /\ \A c \in Clients : pc[c] = "branch" => repo.index["srs"] = Absent

(* When nobody is writing them, the two files agree, and with the rows. *)
FilesAgree ==
  (\A c \in Clients : pc[c] \notin Writer) =>
    /\ repo.tree["sum"] = repo.tree["srs"]
    /\ repo.tree["sum"] # Absent => LatestHash = repo.tree["sum"]

Calm ==
  /\ GoneIsUntracked(repo) /\ ReadOnlyKept /\ WriterAlone
  /\ \A c \in Clients : WriterHas(c)
  /\ ActiveHas /\ FilesAgree

Undisturbed == ~raced /\ ~restored /\ ~torn => Calm

SRSInv == RunInv /\ Undisturbed
=============================================================================
