------------------------------- MODULE GitRepo -------------------------------
(***************************************************************************)
(* The git commands of gitops.Manager as functions of a repository: the    *)
(* commits, the branch tips, the branch checked out, the index and the     *)
(* working tree.  A tree maps every path to its content or to Absent.      *)
(* A command that fails changes nothing: each has a guard of its own.      *)
(***************************************************************************)
EXTENDS Naturals, Sequences

CONSTANTS
  Paths,       \* file paths
  Branches,    \* branch names
  Absent       \* no file, no branch

(* A commit is its position in log. *)
Commits(r) == DOMAIN r.log
CurrentHEAD(r) == r.tip[r.branch]
TreeOf(r, commit) == r.log[commit].tree
HeadTree(r) == TreeOf(r, CurrentHEAD(r))

NewRepo(tree, branch) ==
  [log |-> <<[tree |-> tree, item |-> Absent]>>,
   tip |-> [b \in Branches |-> IF b = branch THEN 1 ELSE 0],
   branch |-> branch, index |-> tree, tree |-> tree]

-----------------------------------------------------------------------------
BranchExists(r, b) == r.tip[b] # 0

(* init.defaultBranch where it exists, else the branch checked out (a HEAD  *)
(* detached from every branch is branch Absent), else main, else master.    *)
DetectBaseBranch(r, configured, main, master) ==
  IF configured # Absent /\ BranchExists(r, configured) THEN configured
  ELSE IF r.branch # Absent THEN r.branch
  ELSE IF BranchExists(r, main) THEN main
  ELSE IF BranchExists(r, master) THEN master
  ELSE Absent

IsDirty(r) == r.tree # r.index \/ r.index # HeadTree(r)

-----------------------------------------------------------------------------
(* git add names a path that is neither a file nor in the index: it fails  *)
(* and stages none of the others.                                          *)
CanAdd(r, files) ==
  files # {} /\ \A p \in files : r.tree[p] # Absent \/ r.index[p] # Absent

AddFiles(r, files) ==
  [r EXCEPT !.index = [p \in Paths |-> IF p \in files THEN r.tree[p] ELSE @[p]]]

CanCommit(r) == r.index # HeadTree(r)

Commit(r, item) ==
  [r EXCEPT !.log = Append(@, [tree |-> r.index, item |-> item]),
            !.tip = [@ EXCEPT ![r.branch] = Len(r.log) + 1]]

(* Checking out a branch takes over the paths that differ between the two  *)
(* heads.  One that was changed since the last commit makes it refuse,     *)
(* unless the index already has what the branch has.                       *)
Taken(r, b) == {p \in Paths : /\ HeadTree(r)[p] # TreeOf(r, r.tip[b])[p]
                              /\ r.index[p] # TreeOf(r, r.tip[b])[p]}

CanCheckout(r, b) ==
  /\ BranchExists(r, b)
  /\ \A p \in Taken(r, b) : r.index[p] = HeadTree(r)[p] /\ r.tree[p] = r.index[p]

CheckoutBranch(r, b) ==
  LET take(t) == [p \in Paths |-> IF p \in Taken(r, b) THEN TreeOf(r, r.tip[b])[p]
                                  ELSE t[p]]
  IN  [r EXCEPT !.branch = b, !.index = take(@), !.tree = take(@)]

CreateAndCheckoutBranch(r, b) ==
  [r EXCEPT !.tip = [@ EXCEPT ![b] = CurrentHEAD(r)], !.branch = b]

(* An existing work branch is checked out; a new one is made from the base *)
(* branch.                                                                 *)
CanSetupWorkBranch(r, base, work) ==
  \/ BranchExists(r, work) /\ CanCheckout(r, work)
  \/ /\ ~BranchExists(r, work)
     /\ r.branch = base \/ CanCheckout(r, base)

SetupBranchOnly(r, base, work) ==
  IF BranchExists(r, work) THEN CheckoutBranch(r, work)
  ELSE [r EXCEPT !.tip = [@ EXCEPT ![work] = CurrentHEAD(r)]]

SetupWorkBranch(r, base, work) ==
  IF BranchExists(r, work) THEN CheckoutBranch(r, work)
  ELSE CreateAndCheckoutBranch(IF r.branch = base THEN r ELSE CheckoutBranch(r, base), work)

-----------------------------------------------------------------------------
(* CancelCleanup is reset --hard, clean -fd and the checkout of the base   *)
(* branch.  The reset leaves the files git does not track; clean removes   *)
(* them.                                                                   *)
ResetHard(r) ==
  LET head == HeadTree(r)
  IN  [r EXCEPT !.index = head,
                !.tree = [p \in Paths |-> IF r.index[p] = Absent /\ head[p] = Absent
                                          THEN @[p] ELSE head[p]]]

CleanUntracked(r) ==
  [r EXCEPT !.tree = [p \in Paths |-> IF r.index[p] = Absent THEN Absent ELSE @[p]]]

(* git diff --name-only pairs a removed file with an added one of the same  *)
(* content and reports the pair under the new name alone.                   *)
ChangedFilesSince(r, commit) ==
  LET old == TreeOf(r, commit)
      new == HeadTree(r)
      renamed(p) == new[p] = Absent /\ \E q \in Paths : old[q] = Absent /\ new[q] = old[p]
  IN  {p \in Paths : old[p] # new[p] /\ ~renamed(p)}
=============================================================================
