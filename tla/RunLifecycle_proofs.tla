-------------------------- MODULE RunLifecycle_proofs --------------------------
(***************************************************************************)
(* The life of a run: its row, its branch and its two SRS files.           *)
(***************************************************************************)
EXTENDS RunLifecycleInv, TLAPS, FiniteSetTheorems, WellFoundedInduction

-----------------------------------------------------------------------------
(* The latest of some runs. *)

(* A set of numbers that are at most n, if it is not empty, has a largest. *)
LEMMA Largest ==
  ASSUME NEW n \in Nat, NEW S \in SUBSET (1..n), S # {}
  PROVE  \E i \in S : \A j \in S : j <= i
<1> DEFINE R == OpToRel(<, Nat)
           T == {k \in Nat : n - k \in S}
<1>1. IsWellFoundedOn(R, Nat)
  BY NatLessThanWellFounded, Zenon
<1>2. \A x, y \in Nat : y < x => <<y, x>> \in R
  BY Zenon DEF OpToRel
<1> HIDE DEF R
<1>3. T \subseteq Nat /\ T # {}
  <2>1. PICK i \in S : TRUE
    OBVIOUS
  <2>2. n - i \in Nat /\ n - (n - i) = i
    BY <2>1
  <2> QED
    BY <2>1, <2>2
<1>4. PICK m \in T : \A k \in T : ~(<<k, m>> \in R)
  BY <1>1, <1>3, WFMin, Zenon
<1>5. \A k \in T : ~(k < m)
  BY <1>2, <1>3, <1>4, Zenon
<1>6. n - m \in S
  BY <1>4
<1>7. ASSUME NEW j \in S PROVE j <= n - m
  <2>1. n - j \in Nat /\ n - (n - j) = j /\ j \in Nat
    OBVIOUS
  <2>2. n - j \in T
    BY <2>1
  <2>3. ~(n - j < m) /\ m \in Nat
    BY <1>3, <1>4, <1>5, <2>2
  <2> QED
    BY <2>1, <2>3
<1> QED
  BY <1>6, <1>7

LEMMA NewestFound ==
  ASSUME NEW S, order \in Seq(Runs)
  PROVE  /\ Newest(S) = NoRun \/ (Newest(S) \in S /\ Newest(S) \in Runs)
         /\ (\E i \in DOMAIN order : order[i] \in S) =>
              \E i \in DOMAIN order :
                /\ order[i] = Newest(S) /\ Newest(S) \in S \cap Runs
                /\ \A j \in DOMAIN order : order[j] \in S => j <= i
         /\ (\A i \in DOMAIN order : order[i] \notin S) => Newest(S) = NoRun
<1> DEFINE at == {i \in DOMAIN order : order[i] \in S}
           i == CHOOSE i \in at : \A j \in at : j <= i
<1>1. at = {} => Newest(S) = NoRun
  BY DEF Newest
<1>2. ASSUME at # {}
      PROVE  /\ i \in at /\ \A j \in at : j <= i
             /\ Newest(S) = order[i]
  <2>1. at \in SUBSET (1..Len(order)) /\ Len(order) \in Nat
    OBVIOUS
  <2>2. \E k \in at : \A j \in at : j <= k
    BY <1>2, <2>1, Largest
  <2>3. i \in at /\ \A j \in at : j <= i
    BY <2>2, Zenon
  <2>4. Newest(S) = order[i]
    BY <1>2 DEF Newest
  <2> QED
    BY <2>3, <2>4
<1> HIDE DEF i
<1>3. CASE at = {}
  BY <1>1, <1>3
<1>4. CASE at # {}
  BY <1>2, <1>4
<1> QED
  BY <1>3, <1>4

-----------------------------------------------------------------------------
(* What the git commands make of a repository. *)

LEMMA TreesOf ==
  ASSUME NEW r, RepoOK(r)
  PROVE  /\ HeadTree(r) \in Tree
         /\ \A b \in Branches : BranchExists(r, b) => TreeOf(r, r.tip[b]) \in Tree
<1>1. ASSUME NEW b \in Branches, r.tip[b] # 0 PROVE r.log[r.tip[b]].tree \in Tree
  <2>1. r.tip[b] \in 1..Len(r.log) /\ r.log \in Seq(Revision)
    BY <1>1 DEF RepoOK, Repo
  <2>2. r.log[r.tip[b]] \in Revision
    BY <2>1
  <2> QED
    BY <2>2 DEF Revision
<1>2. r.branch \in Branches /\ r.tip[r.branch] # 0
  BY DEF RepoOK, Repo
<1> QED
  BY <1>1, <1>2 DEF HeadTree, TreeOf, CurrentHEAD, BranchExists

(* A checkout keeps a file that is not as it was committed. *)
LEMMA Checkout ==
  ASSUME NEW r, RepoOK(r), NEW b \in Branches, CanCheckout(r, b)
  PROVE  LET s == CheckoutBranch(r, b)
         IN  /\ RepoOK(s) /\ s.branch = b
             /\ GoneIsUntracked(r) => GoneIsUntracked(s)
             /\ \A p \in Paths : r.tree[p] # r.index[p] =>
                  s.tree[p] = r.tree[p] /\ s.index[p] = r.index[p]
<1> DEFINE s == CheckoutBranch(r, b)
           there == TreeOf(r, r.tip[b])
           take(t) == [p \in Paths |-> IF p \in Taken(r, b) THEN there[p] ELSE t[p]]
<1>1. there \in Tree /\ r.tip[b] # 0
  BY TreesOf DEF CanCheckout, BranchExists
<1>2. r.index \in Tree /\ r.tree \in Tree
  BY DEF RepoOK, Repo
<1>3. s = [r EXCEPT !.branch = b, !.index = take(r.index), !.tree = take(r.tree)]
  BY DEF CheckoutBranch, RepoOK, Repo
<1>4. ASSUME NEW t \in Tree PROVE take(t) \in Tree
  BY <1>1, <1>4 DEF Tree
<1>5. /\ s.log = r.log /\ s.tip = r.tip /\ s.branch = b
      /\ s.index = take(r.index) /\ s.tree = take(r.tree)
      /\ s \in Repo
  <2> HIDE DEF s, take, there
  <2> QED
    BY <1>2, <1>3, <1>4 DEF RepoOK, Repo
<1>6. RepoOK(s)
  BY <1>1, <1>5 DEF RepoOK
<1>7. GoneIsUntracked(r) => GoneIsUntracked(s)
  <2>1. SRSFiles \subseteq Paths
    BY LifecycleAssumption DEF SRSFiles
  <2> QED
    BY <1>5, <2>1 DEF GoneIsUntracked
<1>8. ASSUME NEW p \in Paths, r.tree[p] # r.index[p] PROVE p \notin Taken(r, b)
  BY <1>8 DEF CanCheckout, Taken
<1> QED
  BY <1>5, <1>6, <1>7, <1>8

LEMMA NewBranch ==
  ASSUME NEW r, RepoOK(r), NEW b \in Branches
  PROVE  LET s == CreateAndCheckoutBranch(r, b)
         IN  RepoOK(s) /\ s.branch = b /\ s.tree = r.tree /\ s.index = r.index
<1>1. r.branch \in Branches /\ r.tip[r.branch] # 0 /\ r.tip \in [Branches -> Nat]
  BY DEF RepoOK, Repo
<1> QED
  BY <1>1 DEF RepoOK, Repo, CreateAndCheckoutBranch, CurrentHEAD

LEMMA SetupWork ==
  ASSUME NEW r, RepoOK(r), NEW b \in Branches, CanSetupWorkBranch(r, b, work)
  PROVE  LET s == SetupWorkBranch(r, b, work)
         IN  /\ RepoOK(s) /\ s.branch = work
             /\ GoneIsUntracked(r) => GoneIsUntracked(s)
             /\ \A p \in Paths : r.tree[p] # r.index[p] =>
                  s.tree[p] = r.tree[p] /\ s.index[p] = r.index[p]
<1> DEFINE s == SetupWorkBranch(r, b, work)
           q == IF r.branch = b THEN r ELSE CheckoutBranch(r, b)
<1>0. work \in Branches
  BY LifecycleAssumption
<1>1. CASE BranchExists(r, work)
  <2>1. CanCheckout(r, work) /\ s = CheckoutBranch(r, work)
    BY <1>1 DEF CanSetupWorkBranch, SetupWorkBranch
  <2> QED
    BY <1>0, <2>1, Checkout
<1>2. CASE ~BranchExists(r, work)
  <2>1. s = CreateAndCheckoutBranch(q, work) /\ (r.branch = b \/ CanCheckout(r, b))
    BY <1>2 DEF CanSetupWorkBranch, SetupWorkBranch
  <2>2. /\ RepoOK(q)
        /\ GoneIsUntracked(r) => GoneIsUntracked(q)
        /\ \A p \in Paths : r.tree[p] # r.index[p] =>
             q.tree[p] = r.tree[p] /\ q.index[p] = r.index[p]
    <3>1. CASE r.branch = b
      BY <3>1
    <3>2. CASE r.branch # b
      BY <2>1, <3>2, Checkout
    <3> QED
      BY <3>1, <3>2
  <2> HIDE DEF q
  <2>3. RepoOK(s) /\ s.branch = work /\ s.tree = q.tree /\ s.index = q.index
    BY <1>0, <2>1, <2>2, NewBranch
  <2> QED
    BY <2>2, <2>3 DEF GoneIsUntracked
<1> QED
  BY <1>1, <1>2

LEMMA Cleaned ==
  ASSUME NEW r, RepoOK(r)
  PROVE  LET s == CleanUntracked(ResetHard(r)) IN RepoOK(s) /\ GoneIsUntracked(s)
<1> DEFINE q == ResetHard(r)
           s == CleanUntracked(q)
           head == HeadTree(r)
<1>1. head \in Tree /\ r.index \in Tree /\ r.tree \in Tree
  BY TreesOf DEF RepoOK, Repo
<1>2. /\ q.log = r.log /\ q.tip = r.tip /\ q.branch = r.branch
      /\ q.index = head
      /\ q.tree = [p \in Paths |-> IF r.index[p] = Absent /\ head[p] = Absent
                                    THEN r.tree[p] ELSE head[p]]
      /\ q \in Repo
  <2>1. [p \in Paths |-> IF r.index[p] = Absent /\ head[p] = Absent
                         THEN r.tree[p] ELSE head[p]] \in Tree
    BY <1>1 DEF Tree
  <2> HIDE DEF head
  <2> QED
    BY <1>1, <2>1 DEF ResetHard, RepoOK, Repo, head
<1>3. /\ s.log = q.log /\ s.tip = q.tip /\ s.branch = q.branch /\ s.index = q.index
      /\ s.tree = [p \in Paths |-> IF q.index[p] = Absent THEN Absent ELSE q.tree[p]]
      /\ s \in Repo
  <2> HIDE DEF q
  <2>1. [p \in Paths |-> IF q.index[p] = Absent THEN Absent ELSE q.tree[p]] \in Tree
    BY <1>2 DEF Repo, Tree
  <2> QED
    BY <1>2, <2>1 DEF CleanUntracked, Repo
<1>4. RepoOK(s)
  BY <1>2, <1>3 DEF RepoOK
<1>5. GoneIsUntracked(s)
  <2>1. SRSFiles \subseteq Paths
    BY LifecycleAssumption DEF SRSFiles
  <2> HIDE DEF s, q, head
  <2> QED
    BY <1>1, <1>2, <1>3, <2>1 DEF GoneIsUntracked, Tree
<1> QED
  BY <1>4, <1>5

LEMMA CleanedUp ==
  ASSUME NEW r, RepoOK(r), NEW b \in Branches
  PROVE  LET s == CleanUntracked(ResetHard(r))
             q == IF CanCheckout(s, b) THEN CheckoutBranch(s, b) ELSE s
         IN  RepoOK(q) /\ GoneIsUntracked(q)
<1> DEFINE s == CleanUntracked(ResetHard(r))
<1>1. RepoOK(s) /\ GoneIsUntracked(s)
  BY Cleaned
<1> HIDE DEF s
<1>2. CanCheckout(s, b) => RepoOK(CheckoutBranch(s, b)) /\ GoneIsUntracked(CheckoutBranch(s, b))
  BY <1>1, Checkout
<1> QED
  BY <1>1, <1>2 DEF s

LEMMA Committed ==
  ASSUME NEW r, RepoOK(r)
  PROVE  LET s == Commit([r EXCEPT !.index = r.tree], Absent)
         IN  /\ RepoOK(s) /\ GoneIsUntracked(s)
             /\ s.branch = r.branch /\ s.tree = r.tree
<1> DEFINE q == [r EXCEPT !.index = r.tree]
           s == Commit(q, Absent)
<1>1. q \in Repo /\ q.tree = r.tree /\ q.index = r.tree /\ q.log = r.log /\ q.tip = r.tip
      /\ q.branch = r.branch /\ r.tip \in [Branches -> Nat] /\ r.branch \in Branches
  BY DEF RepoOK, Repo
<1> HIDE DEF q
<1> DEFINE entry == [tree |-> q.index, item |-> Absent]
           L == Append(q.log, entry)
           T == [q.tip EXCEPT ![q.branch] = Len(q.log) + 1]
<1>2. entry \in Revision
  BY <1>1 DEF Revision, Repo
<1>3. /\ L \in Seq(Revision) /\ Len(L) = Len(r.log) + 1 /\ Len(r.log) \in Nat
      /\ T \in [Branches -> Nat] /\ T = [r.tip EXCEPT ![r.branch] = Len(r.log) + 1]
  <2> HIDE DEF entry
  <2> QED
    BY <1>1, <1>2 DEF Repo
<1>4. s = [q EXCEPT !.log = L, !.tip = T]
  BY <1>1 DEF Commit, Repo
<1> HIDE DEF s, L, T, entry
<1>5. /\ s.log = L /\ s.tip = T
      /\ s.branch = r.branch /\ s.index = r.tree /\ s.tree = r.tree
      /\ s \in Repo
  BY <1>1, <1>3, <1>4 DEF Repo
<1>6. RepoOK(s)
  BY <1>1, <1>3, <1>5 DEF RepoOK
<1>7. GoneIsUntracked(s)
  BY <1>5 DEF GoneIsUntracked
<1>8. s = Commit([r EXCEPT !.index = r.tree], Absent)
  BY DEF s, q
<1> QED
  BY <1>5, <1>6, <1>7, <1>8

-----------------------------------------------------------------------------
(* Types. *)

LEMMA RepoTyped ==
  ASSUME NEW r, RepoOK(r)
  PROVE  /\ r.tip \in [Branches -> 0..Len(r.log)] /\ r.branch \in Branches
         /\ r.tree \in [Paths -> Texts \cup {Absent}]
<1>1. r.log \in Seq(Revision) /\ r.tip \in [Branches -> Nat] /\ r.branch \in Branches
      /\ r.tree \in Tree /\ \A b \in Branches : r.tip[b] <= Len(r.log)
  BY DEF RepoOK, Repo
<1>2. \A b \in Branches : r.tip[b] \in 0..Len(r.log)
  BY <1>1
<1> QED
  BY <1>1, <1>2 DEF Tree

(* A run changes its status only out of flight, and then not to "none". *)
LEMMA StatusMoves ==
  ASSUME status \in [Runs -> Statuses], NEW r \in Runs,
         NEW to \in Statuses \ {"none"}, UpdateRunStatus(r, to)
  PROVE  /\ status' \in [Runs -> Statuses]
         /\ \A q \in Runs : /\ status'[q] = "none" <=> status[q] = "none"
                            /\ status'[q] \in InFlight => status[q] \in InFlight
                            /\ q # r => status'[q] = status[q]
         /\ status'[r] \in {status[r], to}
         /\ status[r] \in InFlight /\ to = "cancelled" => status'[r] = to
BY DEF UpdateRunStatus, ValidRunTransition, Statuses, InFlight

LEMMA ActiveRun ==
  ASSUME order \in Seq(Runs), NEW c, NEW S, OnActiveRun(c, S)
  PROVE  GetActiveRun \in InFlightRuns /\ GetActiveRun \in Runs /\ status[GetActiveRun] \in S
BY NewestFound DEF OnActiveRun, GetActiveRun

LEMMA FileWritten ==
  ASSUME RepoOK(repo), NEW p \in Paths, NEW text \in Texts \cup {Absent}
  PROVE  LET s == Write(p, text)
         IN  /\ RepoOK(s) /\ s.branch = repo.branch /\ s.index = repo.index
             /\ \A q \in Paths : s.tree[q] = IF q = p THEN text ELSE repo.tree[q]
<1> DEFINE s == Write(p, text)
           t == [repo.tree EXCEPT ![p] = text]
<1>1. t \in Tree
  BY DEF RepoOK, Repo, Tree
<1>2. s = [repo EXCEPT !.tree = t]
  BY DEF Write, RepoOK, Repo
<1> HIDE DEF s, t
<1>3. s \in Repo /\ s.log = repo.log /\ s.tip = repo.tip /\ s.branch = repo.branch
      /\ s.index = repo.index /\ s.tree = t
  BY <1>1, <1>2 DEF RepoOK, Repo
<1>4. RepoOK(s)
  BY <1>3 DEF RepoOK
<1>5. \A q \in Paths : t[q] = IF q = p THEN text ELSE repo.tree[q]
  BY DEF t, RepoOK, Repo, Tree
<1> QED
  BY <1>3, <1>4, <1>5 DEF s

(* What a client at a step has. *)
LEMMA Hands ==
  ASSUME LifecycleTyped, NEW c \in Clients
  PROVE  /\ pc[c] \in (Steps \ {"idle", "validate", "create"}) =>
              rn[c] \in Runs /\ rn[c] \in Paths /\ status[rn[c]] # "none" /\ base[rn[c]] \in Branches
         /\ pc[c] \in Approving \cup {"submit"} => doc[c] \in Texts
         /\ "srs" \in Paths /\ "sum" \in Paths
BY LifecycleAssumption DEF LifecycleTyped, RowsMade, Named, DocumentsRead

LEMMA RepoKept ==
  ASSUME LifecycleTyped, [Next]_vars
  PROVE  RepoOK(repo')
<1> USE DEF LifecycleTyped
<1>1. ASSUME NEW c \in Clients, SetUpBranch(c) PROVE RepoOK(repo')
  <2>1. base[rn[c]] \in Branches
    BY <1>1, Hands DEF SetUpBranch, Steps, Starting
  <2>2. CASE repo' = repo
    BY <2>2
  <2>3. CASE /\ CanSetupWorkBranch(repo, base[rn[c]], work)
             /\ repo' = SetupWorkBranch(repo, base[rn[c]], work)
    BY <2>1, <2>3, SetupWork
  <2> QED
    BY <1>1, <2>2, <2>3 DEF SetUpBranch, GitChanges
<1>2. ASSUME NEW c \in Clients, CancelCleanup(c) PROVE RepoOK(repo')
  <2>1. base[rn[c]] \in Branches
    BY <1>2, Hands DEF CancelCleanup, Steps
  <2> QED
    BY <1>2, <2>1, CleanedUp DEF CancelCleanup, GitChanges
<1>3. ASSUME UserCommits PROVE RepoOK(repo')
  BY <1>3, Committed DEF UserCommits
<1>4. ASSUME NEW c \in Clients, \/ WriteDraft(c) \/ DeleteDraft(c) \/ WriteSRS(c) \/ WriteSRSHash(c)
      PROVE  RepoOK(repo')
  <2>1. CASE WriteDraft(c)
    BY <2>1, Hands, FileWritten DEF WriteDraft, Steps, Draft
  <2>2. CASE DeleteDraft(c)
    BY <2>2, Hands, FileWritten DEF DeleteDraft, Steps, Draft
  <2>3. CASE WriteSRS(c)
    <3>1. repo' = repo \/ repo' = Write("srs", doc[c])
      BY <2>3 DEF WriteSRS
    <3>2. doc[c] \in Texts /\ "srs" \in Paths
      BY <2>3, Hands DEF WriteSRS, Approving
    <3> QED
      BY <3>1, <3>2, FileWritten
  <2>4. CASE WriteSRSHash(c)
    BY <2>4, Hands, FileWritten DEF WriteSRSHash, Approving
  <2> QED
    BY <1>4, <2>1, <2>2, <2>3, <2>4
<1>5. CASE repo' = repo
  BY <1>5
<1>6. CASE UNCHANGED vars
  BY <1>6 DEF vars
<1>7. CASE Next
  <2>1. ASSUME NEW c \in Clients,
               \/ StartRun(c) \/ ReplaceRun(c) \/ ValidateClean(c) \/ CreateRun(c)
               \/ SubmitSRS(c) \/ FinishSubmit(c) \/ ApproveSRS(c) \/ ReadDraft(c)
               \/ UpdateRunSRSHash(c) \/ Activate(c) \/ RejectSRS(c)
               \/ PauseRun(c) \/ ResumeRun(c) \/ CancelRun(c) \/ Die(c)
        PROVE  repo' = repo
    BY <2>1 DEF StartRun, ReplaceRun, ValidateClean, CreateRun, SubmitSRS, FinishSubmit,
      ApproveSRS, ReadDraft, UpdateRunSRSHash, Activate, RejectSRS, PauseRun, ResumeRun,
      CancelRun, Die
  <2> QED
    BY <1>1, <1>2, <1>3, <1>4, <1>5, <1>7, <2>1 DEF Next
<1> QED
  BY <1>6, <1>7

LEMMA TypedKept ==
  ASSUME LifecycleTyped, [Next]_vars
  PROVE  TypeOK' /\ RowsMade' /\ DocumentsRead'
<1> USE DEF LifecycleTyped
<1> DEFINE Typed == TypeOK' /\ RowsMade' /\ DocumentsRead'
<1>0. /\ RepoOK(repo')
      /\ repo'.tip \in [Branches -> 0..Len(repo'.log)] /\ repo'.branch \in Branches
      /\ repo'.tree \in [Paths -> Texts \cup {Absent}]
  BY RepoKept, RepoTyped
<1> SUFFICES Typed
  OBVIOUS
<1>1. ASSUME NEW c \in Clients, StartRun(c) PROVE Typed
  BY <1>0, <1>1, ActiveRun, NewestFound DEF TypeOK, RowsMade, Named, DocumentsRead, StartRun, GetActiveRun,
    Stop, Go, Hold, rows, clients, history, Steps, Starting, Approving, Statuses, InFlight
<1>2. ASSUME NEW c \in Clients, ReplaceRun(c) PROVE Typed
  BY <1>0, <1>2, Hands, StatusMoves DEF TypeOK, RowsMade, Named, DocumentsRead, ReplaceRun,
    Stop, Go, Hold, rows, clients, history, Steps, Starting, Approving, Statuses, InFlight
<1>3. ASSUME NEW c \in Clients, ValidateClean(c) PROVE Typed
  <2>1. CASE Go(c, "create") /\ UNCHANGED <<rn, doc, dirtyOK>>
    BY <1>0, <1>3, <2>1 DEF TypeOK, RowsMade, Named, DocumentsRead, ValidateClean,
      Stop, Go, Hold, rows, clients, history, Steps, Starting, Approving, Statuses, InFlight
  <2>2. CASE Stop(c)
    BY <1>0, <1>3, <2>2 DEF TypeOK, RowsMade, Named, DocumentsRead, ValidateClean,
      Stop, Go, Hold, rows, clients, history, Steps, Starting, Approving, Statuses, InFlight
  <2> QED
    BY <1>3, <2>1, <2>2 DEF ValidateClean
<1>4. ASSUME NEW c \in Clients, CreateRun(c) PROVE Typed
  <2>1. PICK r \in Runs :
          /\ status[r] = "none"
          /\ status' = [status EXCEPT ![r] = "draft_srs"]
          /\ base' = [base EXCEPT ![r] = DetectBaseBranch(repo, configured, base0, base0)]
          /\ order' = Append(order, r)
          /\ rn' = [rn EXCEPT ![c] = r]
    BY <1>4 DEF CreateRun
  <2>2. DetectBaseBranch(repo, configured, base0, base0) \in Branches
    BY LifecycleAssumption DEF DetectBaseBranch, TypeOK
  <2>3. /\ order' \in Seq(Runs) /\ Len(order) \in Nat /\ DOMAIN order' = 1..(Len(order) + 1)
        /\ DOMAIN order = 1..Len(order) /\ order'[Len(order) + 1] = r
        /\ \A i \in DOMAIN order : order'[i] = order[i]
    BY <2>1 DEF TypeOK
  <2>4. \A i \in DOMAIN order : order[i] # r
    BY <2>1 DEF RowsMade
  <2>5. TypeOK'
    BY <1>0, <1>4, <2>1, <2>2, <2>3, <2>4 DEF TypeOK, CreateRun, Go, history, Steps, Starting,
      Statuses, InFlight
  <2>6. \A q \in Runs : (\E i \in DOMAIN order' : order'[i] = q)
                          <=> q = r \/ \E i \in DOMAIN order : order[i] = q
    BY <2>3
  <2>7. RowsMade'
    <3>1. /\ \A q \in Runs : status'[q] = IF q = r THEN "draft_srs" ELSE status[q]
          /\ \A q \in Runs : q # r => base'[q] = base[q]
          /\ base'[r] \in Branches /\ UNCHANGED <<hash, ready>>
      BY <1>4, <2>1, <2>2 DEF TypeOK, CreateRun, history
    <3>2. \A q \in Runs : status'[q] # "none" <=> \E i \in DOMAIN order' : order'[i] = q
      BY <2>6, <3>1 DEF RowsMade
    <3>3. \A d \in Clients : Named(d)'
      BY <1>4, <2>1, <3>1 DEF TypeOK, RowsMade, Named, CreateRun, Go, Steps, Starting
    <3> QED
      BY <3>1, <3>2, <3>3 DEF RowsMade
  <2>8. DocumentsRead'
    BY <1>4, <2>1 DEF TypeOK, DocumentsRead, CreateRun, Go, history, Approving
  <2> QED
    BY <2>5, <2>7, <2>8
<1>5. ASSUME NEW c \in Clients, SetUpBranch(c) PROVE Typed
  <2>1. rn[c] \in Runs /\ status[rn[c]] # "none"
    BY <1>5, Hands DEF SetUpBranch, Steps, Starting
  <2>2. /\ Stop(c) /\ UNCHANGED <<rows, raced>>
        /\ ready' \in {ready, ready \cup {rn[c]}} /\ restored' \in BOOLEAN /\ torn' \in BOOLEAN
        /\ readonly' \in BOOLEAN
    BY <1>5 DEF SetUpBranch, GitChanges, TypeOK
  <2> QED
    BY <1>0, <2>1, <2>2 DEF TypeOK, RowsMade, Named, DocumentsRead,
      Stop, Go, Hold, rows, clients, history, Steps, Starting, Approving, Statuses, InFlight
<1>6. ASSUME NEW c \in Clients, SubmitSRS(c) PROVE Typed
  BY <1>0, <1>6, ActiveRun DEF TypeOK, RowsMade, Named, DocumentsRead, SubmitSRS,
    Stop, Go, Hold, rows, clients, history, Steps, Starting, Approving, Statuses, InFlight
<1>7. ASSUME NEW c \in Clients, WriteDraft(c) PROVE Typed
  BY <1>0, <1>7, Hands DEF TypeOK, RowsMade, Named, DocumentsRead, WriteDraft,
    Stop, Go, Hold, rows, clients, history, Steps, Starting, Approving, Statuses, InFlight
<1>8. ASSUME NEW c \in Clients, FinishSubmit(c) PROVE Typed
  <2>1. rn[c] \in Runs
    BY <1>8, Hands DEF FinishSubmit, Steps
  <2>2. /\ status' \in [Runs -> Statuses]
        /\ \A q \in Runs : /\ status'[q] = "none" <=> status[q] = "none"
                           /\ status'[q] \in {status[q], "awaiting_srs_approval"}
    BY <1>8, <2>1, StatusMoves DEF FinishSubmit, TypeOK, Statuses, InFlight
  <2> QED
    BY <1>0, <1>8, <2>2 DEF TypeOK, RowsMade, Named, DocumentsRead, FinishSubmit,
      Stop, Go, rows, clients, history, Steps, Starting, Approving
<1>9. ASSUME NEW c \in Clients, ApproveSRS(c) PROVE Typed
  BY <1>0, <1>9, ActiveRun DEF TypeOK, RowsMade, Named, DocumentsRead, ApproveSRS,
    Stop, Go, Hold, rows, clients, history, Steps, Starting, Approving, Statuses, InFlight
<1>10. ASSUME NEW c \in Clients, ReadDraft(c) PROVE Typed
  <2>1. rn[c] \in Runs /\ rn[c] \in Paths
    BY <1>10, Hands DEF ReadDraft, Steps
  <2>2. repo.tree[rn[c]] \in Texts \cup {Absent}
    BY <2>1 DEF TypeOK
  <2>3. CASE Stop(c)
    BY <1>0, <1>10, <2>3 DEF TypeOK, RowsMade, Named, DocumentsRead, ReadDraft,
      Stop, Go, rows, clients, history, Steps, Starting, Approving
  <2>4. CASE Go(c, "srs") /\ Hold(c, rn[c], repo.tree[rn[c]]) /\ repo.tree[rn[c]] # Absent
    BY <1>0, <1>10, <2>1, <2>2, <2>4 DEF TypeOK, RowsMade, Named, DocumentsRead, ReadDraft,
      Hold, Go, rows, clients, history, Steps, Starting, Approving
  <2> QED
    BY <1>10, <2>3, <2>4 DEF ReadDraft, Draft
<1>11. ASSUME NEW c \in Clients, WriteSRS(c) PROVE Typed
  <2>1. CASE Stop(c) /\ readonly' = readonly
    BY <1>0, <1>11, <2>1 DEF TypeOK, RowsMade, Named, DocumentsRead, WriteSRS,
      Stop, Go, Hold, rows, clients, history, Steps, Starting, Approving, Statuses, InFlight
  <2>2. CASE Go(c, "sum") /\ readonly' \in BOOLEAN /\ UNCHANGED <<rn, doc, dirtyOK>>
    <3>1. /\ pc[c] = "srs" /\ pc'[c] = "sum" /\ pc' \in [Clients -> Steps]
          /\ \A d \in Clients : d # c => pc'[d] = pc[d]
          /\ UNCHANGED <<status, base, hash, order, ready, raced, restored, torn>>
      BY <1>11, <2>2 DEF WriteSRS, Go, TypeOK, Steps, Approving, rows, history
    <3>2. TypeOK'
      BY <1>0, <2>2, <3>1 DEF TypeOK
    <3>3. RowsMade'
      BY <2>2, <3>1 DEF RowsMade, Named, Steps, Approving
    <3>4. DocumentsRead'
      BY <2>2, <3>1 DEF DocumentsRead, Approving
    <3> QED
      BY <3>2, <3>3, <3>4
  <2> QED
    BY <1>11, <2>1, <2>2 DEF WriteSRS
<1>12. ASSUME NEW c \in Clients, WriteSRSHash(c) PROVE Typed
  BY <1>0, <1>12, Hands DEF TypeOK, RowsMade, Named, DocumentsRead, WriteSRSHash,
    Stop, Go, Hold, rows, clients, history, Steps, Starting, Approving, Statuses, InFlight
<1>13. ASSUME NEW c \in Clients, UpdateRunSRSHash(c) PROVE Typed
  <2>1. /\ rn[c] \in Runs /\ status[rn[c]] # "none" /\ doc[c] \in Texts
        /\ pc[c] = "hash" /\ pc'[c] = "activate"
        /\ \A d \in Clients : d # c => pc'[d] = pc[d]
        /\ pc' \in [Clients -> Steps]
    BY <1>13, Hands DEF UpdateRunSRSHash, Go, TypeOK, Steps, Starting, Approving
  <2>2. /\ hash' \in [Runs -> Texts \cup {Absent}] /\ hash'[rn[c]] = doc[c]
        /\ \A r \in Runs : r # rn[c] => hash'[r] = hash[r]
        /\ UNCHANGED <<repo, readonly, status, base, order, rn, doc, dirtyOK, history>>
    BY <1>13, <2>1 DEF UpdateRunSRSHash, TypeOK
  <2>3. TypeOK'
    BY <1>0, <2>1, <2>2 DEF TypeOK, history
  <2>4. RowsMade'
    BY <2>1, <2>2 DEF RowsMade, Named, history, Steps, Starting, Approving
  <2>5. DocumentsRead'
    <3>1. \A d \in Clients : pc[d] = "activate" => rn[d] \in Runs
      BY Hands DEF Steps, Approving
    <3> QED
      BY <2>1, <2>2, <3>1 DEF DocumentsRead, Approving
  <2> QED
    BY <2>3, <2>4, <2>5
<1>14. ASSUME NEW c \in Clients, Activate(c) PROVE Typed
  <2>1. rn[c] \in Runs
    BY <1>14, Hands DEF Activate, Steps, Approving
  <2>2. /\ status' \in [Runs -> Statuses]
        /\ \A q \in Runs : /\ status'[q] = "none" <=> status[q] = "none"
                           /\ q # rn[c] => status'[q] = status[q]
    BY <1>14, <2>1, StatusMoves DEF Activate, TypeOK, Statuses, InFlight
  <2>3. hash[rn[c]] \in Texts
    BY <1>14 DEF Activate, DocumentsRead
  <2>4. CASE Go(c, "tidy") /\ UNCHANGED <<rn, doc, dirtyOK, torn>>
    BY <1>0, <1>14, <2>2, <2>3, <2>4 DEF TypeOK, RowsMade, Named, DocumentsRead, Activate,
      Go, rows, clients, history, Steps, Starting, Approving
  <2>5. CASE Stop(c) /\ torn' = TRUE
    BY <1>0, <1>14, <2>2, <2>3, <2>5 DEF TypeOK, RowsMade, Named, DocumentsRead, Activate,
      Stop, Go, rows, clients, history, Steps, Starting, Approving
  <2> QED
    BY <1>14, <2>4, <2>5 DEF Activate
<1>15. ASSUME NEW c \in Clients, DeleteDraft(c) PROVE Typed
  BY <1>0, <1>15, Hands DEF TypeOK, RowsMade, Named, DocumentsRead, DeleteDraft,
    Stop, Go, Hold, rows, clients, history, Steps, Starting, Approving, Statuses, InFlight
<1>16. ASSUME NEW c \in Clients, RejectSRS(c) PROVE Typed
  BY <1>0, <1>16, ActiveRun, StatusMoves DEF TypeOK, RowsMade, Named, DocumentsRead, RejectSRS,
    Stop, Go, Hold, rows, clients, history, Steps, Starting, Approving, Statuses, InFlight
<1>17. ASSUME NEW c \in Clients, PauseRun(c) PROVE Typed
  BY <1>0, <1>17, ActiveRun, StatusMoves DEF TypeOK, RowsMade, Named, DocumentsRead, PauseRun,
    Stop, Go, Hold, rows, clients, history, Steps, Starting, Approving, Statuses, InFlight
<1>18. ASSUME NEW c \in Clients, ResumeRun(c) PROVE Typed
  BY <1>0, <1>18, ActiveRun, StatusMoves DEF TypeOK, RowsMade, Named, DocumentsRead, ResumeRun,
    Stop, Go, Hold, rows, clients, history, Steps, Starting, Approving, Statuses, InFlight
<1>19. ASSUME NEW c \in Clients, CancelRun(c) PROVE Typed
  BY <1>0, <1>19, ActiveRun, StatusMoves DEF TypeOK, RowsMade, Named, DocumentsRead, CancelRun,
    Stop, Go, Hold, rows, clients, history, Steps, Starting, Approving, Statuses, InFlight
<1>20. ASSUME NEW c \in Clients, CancelCleanup(c) PROVE Typed
  BY <1>0, <1>20, Hands DEF TypeOK, RowsMade, Named, DocumentsRead, CancelCleanup, GitChanges,
    Stop, Go, Hold, rows, clients, history, Steps, Starting, Approving, Statuses, InFlight
<1>21. ASSUME NEW c \in Clients, Die(c) PROVE Typed
  BY <1>0, <1>21 DEF TypeOK, RowsMade, Named, DocumentsRead, Die,
    Stop, Go, Hold, rows, clients, history, Steps, Starting, Approving, Statuses, InFlight
<1>22. CASE UserCommits
  BY <1>0, <1>22 DEF TypeOK, RowsMade, Named, DocumentsRead, UserCommits, rows, clients, history
<1>23. CASE UNCHANGED vars
  BY <1>23 DEF TypeOK, RowsMade, Named, DocumentsRead, vars, rows, clients, history
<1> QED
  BY <1>1, <1>2, <1>3, <1>4, <1>5, <1>6, <1>7, <1>8, <1>9, <1>10, <1>11, <1>12, <1>13, <1>14, <1>15, <1>16, <1>17, <1>18, <1>19, <1>20, <1>21, <1>22, <1>23 DEF Next

-----------------------------------------------------------------------------
(* One StartRun at a time: one run in flight, on the work branch. *)

(* No step but CreateRun puts a run in flight. *)
LEMMA FlightsEnd ==
  ASSUME LifecycleTyped, [Next]_vars, \A c \in Clients : ~CreateRun(c)
  PROVE  InFlightRuns' \subseteq InFlightRuns
<1> USE DEF LifecycleTyped
<1>1. CASE UNCHANGED status
  BY <1>1 DEF InFlightRuns
<1>2. ASSUME NEW r \in Runs, NEW to \in Statuses \ {"none"}, UpdateRunStatus(r, to)
      PROVE  InFlightRuns' \subseteq InFlightRuns
  BY <1>2, StatusMoves DEF TypeOK, InFlightRuns
<1>3. ASSUME NEW c \in Clients, \/ ReplaceRun(c) \/ FinishSubmit(c) \/ Activate(c)
      PROVE  InFlightRuns' \subseteq InFlightRuns
  <2>1. rn[c] \in Runs
    BY <1>3, Hands DEF ReplaceRun, FinishSubmit, Activate, Steps, Starting, Approving
  <2> QED
    BY <1>2, <1>3, <2>1 DEF ReplaceRun, FinishSubmit, Activate, Statuses, InFlight
<1>4. ASSUME NEW c \in Clients, \/ RejectSRS(c) \/ PauseRun(c) \/ ResumeRun(c) \/ CancelRun(c)
      PROVE  InFlightRuns' \subseteq InFlightRuns
  <2>1. GetActiveRun \in Runs
    BY <1>4, ActiveRun DEF TypeOK, RejectSRS, PauseRun, ResumeRun, CancelRun
  <2> QED
    BY <1>2, <1>4, <2>1 DEF RejectSRS, PauseRun, ResumeRun, CancelRun, Statuses, InFlight
<1>5. ASSUME NEW c \in Clients,
             \/ StartRun(c) \/ ValidateClean(c) \/ SetUpBranch(c) \/ SubmitSRS(c) \/ WriteDraft(c)
             \/ ApproveSRS(c) \/ ReadDraft(c) \/ WriteSRS(c) \/ WriteSRSHash(c)
             \/ UpdateRunSRSHash(c) \/ DeleteDraft(c) \/ CancelCleanup(c) \/ Die(c)
      PROVE  UNCHANGED status
  BY <1>5 DEF StartRun, ValidateClean, SetUpBranch, SubmitSRS, WriteDraft, ApproveSRS, ReadDraft,
    WriteSRS, WriteSRSHash, UpdateRunSRSHash, DeleteDraft, CancelCleanup, Die, rows
<1> QED
  BY <1>1, <1>3, <1>4, <1>5 DEF Next, UserCommits, vars, rows

(* What a step that starts nothing leaves of what the StartRuns believe. *)
LEMMA SerialFrame ==
  ASSUME Serial, raced' = raced, order' = order, InFlightRuns' \subseteq InFlightRuns,
         \A d \in Clients : pc'[d] \in Starting \cup {"cleanup"} => pc'[d] = pc[d] /\ rn'[d] = rn[d]
  PROVE  Serial'
BY DEF Serial, StartAlone, StartBelieves, NewestFlies, Starting

LEMMA NobodyFlies ==
  ASSUME LifecycleTyped, [Next]_vars, NEW r \in Runs, InFlightRuns \subseteq {r},
         UpdateRunStatus(r, "cancelled")
  PROVE  InFlightRuns' = {}
<1>1. status \in [Runs -> Statuses] /\ "cancelled" \in Statuses \ {"none"} /\ "cancelled" \notin InFlight
  BY DEF LifecycleTyped, TypeOK, Statuses, InFlight
<1> QED
  BY <1>1, StatusMoves DEF InFlightRuns

LEMMA SerialKept ==
  ASSUME LifecycleTyped, Serial, [Next]_vars
  PROVE  Serial'
<1> USE DEF LifecycleTyped
<1>1. ASSUME NEW c \in Clients, StartRun(c) PROVE Serial'
  <2>1. InFlightRuns' = InFlightRuns /\ order' = order
    BY <1>1 DEF StartRun, rows, InFlightRuns
  <2>2. SUFFICES ASSUME ~raced' PROVE Serial'
    BY DEF Serial
  <2>3. /\ StartAlone /\ StartBelieves /\ NewestFlies
        /\ \A d \in Clients : pc[d] \notin Starting \cup {"cleanup"}
        /\ ~raced
    BY <1>1, <2>2 DEF StartRun, Overlaps, Serial
  <2>4. \A d \in Clients : d # c => pc'[d] \notin Starting \cup {"cleanup"}
    BY <1>1, <2>3 DEF StartRun, Go, TypeOK
  <2>5. CASE GetActiveRun = NoRun
    <3>1. \A r \in InFlightRuns : \E i \in DOMAIN order : order[i] = r
      BY DEF RowsMade, InFlightRuns, InFlight
    <3>2. InFlightRuns = {}
      BY <2>5, <3>1, NewestFound, LifecycleAssumption DEF GetActiveRun, TypeOK
    <3>3. pc'[c] = "validate"
      BY <1>1, <2>5 DEF StartRun, Go, TypeOK
    <3> QED
      BY <2>1, <2>4, <3>2, <3>3 DEF Serial, StartAlone, StartBelieves, NewestFlies, Starting
  <2>6. CASE GetActiveRun # NoRun
    <3>1. GetActiveRun \in InFlightRuns
      BY <2>6, NewestFound DEF GetActiveRun, TypeOK
    <3>2. InFlightRuns \subseteq {GetActiveRun}
      BY <2>3, <3>1 DEF NewestFlies
    <3>3. pc'[c] = "replace" /\ rn'[c] = GetActiveRun
      BY <1>1, <2>6 DEF StartRun, Go, TypeOK
    <3> QED
      BY <2>1, <2>3, <2>4, <3>2, <3>3 DEF Serial, StartAlone, StartBelieves, NewestFlies, Starting
  <2> QED
    BY <2>5, <2>6
<1>2. ASSUME NEW c \in Clients, ReplaceRun(c) PROVE Serial'
  <2>1. SUFFICES ASSUME ~raced' PROVE Serial'
    BY DEF Serial
  <2>2. /\ pc[c] = "replace" /\ pc' = [pc EXCEPT ![c] = "validate"]
        /\ StartAlone /\ InFlightRuns \subseteq {rn[c]} /\ rn[c] \in Runs
        /\ rn' = [rn EXCEPT ![c] = NoRun]
    BY <1>2, <2>1, Hands DEF ReplaceRun, Go, history, Serial, StartBelieves, Steps, Starting
  <2>3. InFlightRuns' = {}
    BY <1>2, <2>2, NobodyFlies DEF ReplaceRun
  <2>4. \A d \in Clients : d # c => pc'[d] \notin Starting \cup {"cleanup"}
    BY <2>2 DEF StartAlone, Starting, TypeOK
  <2> QED
    BY <2>2, <2>3, <2>4 DEF Serial, StartAlone, StartBelieves, NewestFlies, Starting, TypeOK
<1>3. ASSUME NEW c \in Clients, ValidateClean(c) PROVE Serial'
  <2>1. SUFFICES ASSUME ~raced' PROVE Serial'
    BY DEF Serial
  <2>2. /\ pc[c] = "validate" /\ pc'[c] \in {"create", "idle"}
        /\ \A d \in Clients : d # c => pc'[d] = pc[d]
        /\ StartAlone /\ InFlightRuns' = {}
    BY <1>3, <2>1 DEF ValidateClean, Go, Stop, history, rows, Serial, StartBelieves, TypeOK, InFlightRuns
  <2>3. \A d \in Clients : d # c => pc'[d] \notin Starting \cup {"cleanup"}
    BY <2>2 DEF StartAlone, Starting
  <2> QED
    BY <2>2, <2>3 DEF Serial, StartAlone, StartBelieves, NewestFlies, Starting
<1>4. ASSUME NEW c \in Clients, CreateRun(c) PROVE Serial'
  <2>1. SUFFICES ASSUME ~raced' PROVE Serial'
    BY DEF Serial
  <2>2. /\ pc[c] = "create" /\ pc'[c] = "branch" /\ \A d \in Clients : d # c => pc'[d] = pc[d]
        /\ StartAlone /\ InFlightRuns = {}
    BY <1>4, <2>1 DEF CreateRun, Go, history, Serial, StartBelieves, TypeOK
  <2>3. PICK r \in Runs : /\ status' = [status EXCEPT ![r] = "draft_srs"]
                          /\ order' = Append(order, r)
    BY <1>4 DEF CreateRun
  <2>4. InFlightRuns' \subseteq {r} /\ order'[Len(order')] = r
    BY <2>2, <2>3 DEF InFlightRuns, TypeOK
  <2>5. \A d \in Clients : d # c => pc'[d] \notin Starting \cup {"cleanup"}
    BY <2>2 DEF StartAlone, Starting
  <2> QED
    BY <2>2, <2>4, <2>5 DEF Serial, StartAlone, StartBelieves, NewestFlies, Starting
<1>5. ASSUME NEW c \in Clients, CancelRun(c) PROVE Serial'
  <2>1. SUFFICES ASSUME ~raced' PROVE Serial'
    BY DEF Serial
  <2>2. /\ pc'[c] = "cleanup" /\ \A d \in Clients : d # c => pc'[d] = pc[d]
        /\ \A d \in Clients : pc[d] \notin Starting
        /\ StartBelieves /\ NewestFlies /\ order' = order
    BY <1>5, <2>1 DEF CancelRun, Go, Overlaps, Serial, TypeOK
  <2>3. GetActiveRun \in InFlightRuns /\ GetActiveRun \in Runs
    BY <1>5, ActiveRun DEF CancelRun, TypeOK
  <2>4. InFlightRuns' = {}
    BY <1>5, <2>2, <2>3, NobodyFlies DEF CancelRun, NewestFlies
  <2> QED
    BY <2>2, <2>4 DEF Serial, StartAlone, StartBelieves, NewestFlies, Starting
<1>6. ASSUME \A c \in Clients : ~CreateRun(c),
             NEW c \in Clients, \/ SetUpBranch(c) \/ SubmitSRS(c) \/ WriteDraft(c) \/ FinishSubmit(c)
                                \/ ApproveSRS(c) \/ ReadDraft(c) \/ WriteSRS(c) \/ WriteSRSHash(c)
      PROVE  Serial'
  <2>1. /\ raced' = raced /\ order' = order
        /\ \A d \in Clients :
             pc'[d] \in Starting \cup {"cleanup"} => pc'[d] = pc[d] /\ rn'[d] = rn[d]
    BY <1>6 DEF TypeOK, SetUpBranch, SubmitSRS, WriteDraft, FinishSubmit, ApproveSRS, ReadDraft,
      WriteSRS, WriteSRSHash, Go, Stop, Hold, rows, history, Starting
  <2> QED
    BY <1>6, <2>1, FlightsEnd, SerialFrame
<1>7. ASSUME \A c \in Clients : ~CreateRun(c),
             NEW c \in Clients, \/ UpdateRunSRSHash(c) \/ Activate(c) \/ DeleteDraft(c) \/ RejectSRS(c)
                                \/ PauseRun(c) \/ ResumeRun(c) \/ CancelCleanup(c) \/ Die(c)
      PROVE  Serial'
  <2>1. /\ raced' = raced /\ order' = order
        /\ \A d \in Clients :
             pc'[d] \in Starting \cup {"cleanup"} => pc'[d] = pc[d] /\ rn'[d] = rn[d]
    BY <1>7 DEF TypeOK, UpdateRunSRSHash, Activate, DeleteDraft, RejectSRS, PauseRun, ResumeRun,
      CancelCleanup, Die, Go, Stop, rows, clients, history, Starting
  <2> QED
    BY <1>7, <2>1, FlightsEnd, SerialFrame
<1>8. CASE UserCommits \/ UNCHANGED vars
  BY <1>8 DEF UserCommits, vars, rows, clients, history, Serial, StartAlone, StartBelieves,
    NewestFlies, InFlightRuns
<1> QED
  BY <1>1, <1>2, <1>3, <1>4, <1>5, <1>6, <1>7, <1>8 DEF Next

(* A run that was set up stays on the work branch while it is in flight. *)
LEMMA OnBranchKept ==
  ASSUME LifecycleTyped, Serial, RunOnItsBranch, [Next]_vars
  PROVE  RunOnItsBranch'
<1> USE DEF LifecycleTyped
<1>1. ASSUME NEW c \in Clients, SetUpBranch(c) PROVE RunOnItsBranch'
  <2>1. base[rn[c]] \in Branches
    BY <1>1, Hands DEF SetUpBranch, Steps, Starting
  <2>2. CASE UNCHANGED <<repo, readonly, restored, torn, ready>>
    BY <1>1, <2>2 DEF SetUpBranch, rows, RunOnItsBranch
  <2>3. CASE /\ CanSetupWorkBranch(repo, base[rn[c]], work)
             /\ repo' = SetupWorkBranch(repo, base[rn[c]], work)
    <3>1. repo'.branch = work
      BY <2>1, <2>3, SetupWork
    <3> QED
      BY <3>1 DEF RunOnItsBranch
  <2> QED
    BY <1>1, <2>2, <2>3 DEF SetUpBranch, GitChanges
<1>2. ASSUME NEW c \in Clients, CancelCleanup(c) PROVE RunOnItsBranch'
  <2>1. ~raced => InFlightRuns = {}
    BY <1>2 DEF CancelCleanup, Serial, StartBelieves
  <2> QED
    BY <1>2, <2>1 DEF CancelCleanup, RunOnItsBranch, InFlightRuns, rows, TypeOK
<1>3. ASSUME repo'.branch = repo.branch, ready' = ready, raced => raced',
             \A r \in ready : status'[r] \in InFlight => status[r] \in InFlight
      PROVE  RunOnItsBranch'
  BY <1>3 DEF RunOnItsBranch
<1>4. ASSUME NEW c \in Clients, CreateRun(c) PROVE RunOnItsBranch'
  <2>1. PICK r \in Runs : status[r] = "none" /\ status' = [status EXCEPT ![r] = "draft_srs"]
    BY <1>4 DEF CreateRun
  <2>2. r \notin ready
    BY <2>1 DEF RowsMade
  <2>3. \A q \in ready : status'[q] \in InFlight => status[q] \in InFlight
    BY <2>1, <2>2 DEF TypeOK
  <2> QED
    BY <1>3, <1>4, <2>3 DEF CreateRun, history
<1>5. ASSUME \A c \in Clients : ~CreateRun(c) PROVE
             \A r \in ready : status'[r] \in InFlight => status[r] \in InFlight
  BY <1>5, FlightsEnd DEF InFlightRuns, TypeOK
<1>6. ASSUME NEW c \in Clients, \/ WriteDraft(c) \/ DeleteDraft(c) \/ WriteSRS(c) \/ WriteSRSHash(c)
      PROVE  repo'.branch = repo.branch /\ ready' = ready /\ raced' = raced
  BY <1>6 DEF WriteDraft, DeleteDraft, WriteSRS, WriteSRSHash, Write, history, RepoOK, Repo
<1>7. ASSUME NEW c \in Clients,
             \/ StartRun(c) \/ ReplaceRun(c) \/ ValidateClean(c)
             \/ SubmitSRS(c) \/ FinishSubmit(c) \/ ApproveSRS(c) \/ ReadDraft(c)
             \/ UpdateRunSRSHash(c) \/ Activate(c) \/ RejectSRS(c)
             \/ PauseRun(c) \/ ResumeRun(c) \/ CancelRun(c) \/ Die(c)
      PROVE  repo' = repo /\ ready' = ready /\ (raced => raced')
  <2>1. CASE StartRun(c) \/ CancelRun(c)
    BY <2>1 DEF StartRun, CancelRun
  <2>2. CASE ~StartRun(c) /\ ~CancelRun(c)
    BY <1>7, <2>2 DEF ReplaceRun, ValidateClean, SubmitSRS, FinishSubmit, ApproveSRS, ReadDraft,
      UpdateRunSRSHash, Activate, RejectSRS, PauseRun, ResumeRun, Die, history
  <2> QED
    BY <2>1, <2>2
<1>8. CASE UserCommits
  BY <1>8, Committed DEF UserCommits, RunOnItsBranch, rows, history
<1>9. CASE UNCHANGED vars
  BY <1>9 DEF vars, rows, history, RunOnItsBranch
<1> QED
  BY <1>1, <1>2, <1>3, <1>4, <1>5, <1>6, <1>7, <1>8, <1>9 DEF Next

-----------------------------------------------------------------------------
(* The two SRS files, while nothing raced and git brought nothing back. *)

LEMMA HistoryGrows ==
  ASSUME LifecycleTyped, [Next]_vars
  PROVE  (raced => raced') /\ (restored => restored') /\ (torn => torn')
<1>1. ASSUME NEW c \in Clients, \/ SetUpBranch(c) \/ CancelCleanup(c)
      PROVE  (raced => raced') /\ (restored => restored') /\ (torn => torn')
  <2>1. CASE SetUpBranch(c)
    BY <2>1, Zenon DEF SetUpBranch, GitChanges
  <2>2. CASE CancelCleanup(c)
    BY <2>2, Zenon DEF CancelCleanup, GitChanges
  <2> QED
    BY <1>1, <2>1, <2>2
<1>2. ASSUME NEW c \in Clients, \/ StartRun(c) \/ CancelRun(c) \/ Activate(c) \/ Die(c)
      PROVE  (raced => raced') /\ (restored => restored') /\ (torn => torn')
  <2>1. CASE StartRun(c)
    BY <2>1, Zenon DEF StartRun
  <2>2. CASE CancelRun(c)
    BY <2>2, Zenon DEF CancelRun
  <2>3. CASE Activate(c)
    BY <2>3, Zenon DEF Activate
  <2>4. CASE Die(c)
    BY <2>4, Zenon DEF Die
  <2> QED
    BY <1>2, <2>1, <2>2, <2>3, <2>4
<1>3. ASSUME NEW c \in Clients,
             \/ ReplaceRun(c) \/ ValidateClean(c) \/ CreateRun(c)
             \/ SubmitSRS(c) \/ WriteDraft(c) \/ FinishSubmit(c) \/ ApproveSRS(c) \/ ReadDraft(c)
             \/ WriteSRS(c) \/ WriteSRSHash(c) \/ UpdateRunSRSHash(c) \/ DeleteDraft(c)
             \/ RejectSRS(c) \/ PauseRun(c) \/ ResumeRun(c)
      PROVE  UNCHANGED history
  BY <1>3 DEF ReplaceRun, ValidateClean, CreateRun, SubmitSRS, WriteDraft, FinishSubmit, ApproveSRS,
    ReadDraft, WriteSRS, WriteSRSHash, UpdateRunSRSHash, DeleteDraft, RejectSRS, PauseRun, ResumeRun
<1>4. UserCommits \/ UNCHANGED vars => UNCHANGED history
  BY DEF UserCommits, vars
<1> QED
  BY <1>1, <1>2, <1>3, <1>4 DEF Next, history

LEMMA LatestHashSame ==
  ASSUME LifecycleTyped, hash' = hash,
         \/ order' = order
         \/ \E r \in Runs : hash[r] = Absent /\ order' = Append(order, r)
  PROVE  LatestHash' = LatestHash
<1> DEFINE S == {r \in Runs : hash[r] # Absent}
           at == {i \in DOMAIN order : order[i] \in S}
<1>1. S' = S
  OBVIOUS
<1>2. at' = at /\ \A i \in at : order'[i] = order[i]
  <2>1. order \in Seq(Runs)
    BY DEF LifecycleTyped, TypeOK
  <2> QED
    BY <1>1, <2>1
<1>3. Newest(S)' = Newest(S)
  <2>1. CASE at = {}
    BY <1>1, <1>2, <2>1 DEF Newest
  <2>2. CASE at # {}
    <3> DEFINE i == CHOOSE i \in at : \A j \in at : j <= i
    <3>1. i' = i
      BY <1>2
    <3>2. i \in at
      <4>1. at \in SUBSET (1..Len(order)) /\ Len(order) \in Nat
        BY DEF LifecycleTyped, TypeOK
      <4>2. \E k \in at : \A j \in at : j <= k
        BY <2>2, <4>1, Largest
      <4> QED
        BY <4>2, Zenon
    <3>3. Newest(S) = order[i]
      BY <2>2 DEF Newest
    <3>4. Newest(S)' = (order[i])'
      BY <1>2, <2>2 DEF Newest
    <3> HIDE DEF i, at, S
    <3> QED
      BY <1>2, <3>1, <3>2, <3>3, <3>4
  <2> QED
    BY <2>1, <2>2
<1> QED
  BY <1>1, <1>3 DEF LatestHash

LEMMA LatestHashIs ==
  ASSUME LifecycleTyped, NEW r \in InFlightRuns, NewestFlies, hash[r] # Absent
  PROVE  LatestHash = hash[r]
<1> DEFINE S == {q \in Runs : hash[q] # Absent}
<1>1. r = order[Len(order)] /\ r \in Runs /\ r \in S /\ order \in Seq(Runs) /\ Len(order) \in DOMAIN order
  <2>1. \E i \in DOMAIN order : order[i] = r
    BY DEF LifecycleTyped, RowsMade, InFlightRuns, InFlight
  <2> QED
    BY <2>1 DEF NewestFlies, InFlightRuns, LifecycleTyped, TypeOK
<1>2. PICK i \in DOMAIN order :
        /\ order[i] = Newest(S) /\ Newest(S) \in Runs
        /\ \A j \in DOMAIN order : order[j] \in S => j <= i
  BY <1>1, NewestFound
<1>3. i = Len(order)
  BY <1>1, <1>2
<1>4. Newest(S) = r /\ r # NoRun
  BY <1>1, <1>2, <1>3, LifecycleAssumption
<1> QED
  BY <1>4 DEF LatestHash

(* What a step leaves that writes no SRS file, makes no run active and takes *)
(* no client to a step of the writer or to the checkout.                     *)
LEMMA CalmFrame ==
  ASSUME LifecycleTyped, Calm, readonly' = readonly, hash' = hash, order' = order,
         \A p \in SRSFiles : repo'.tree[p] = repo.tree[p] /\ repo'.index[p] = repo.index[p],
         \A r \in Runs : status'[r] \in {"active", "paused"} => status[r] \in {"active", "paused"},
         \A d \in Clients :
           /\ pc'[d] \in Writer \cup {"branch"} =>
                pc'[d] = pc[d] /\ rn'[d] = rn[d] /\ doc'[d] = doc[d]
           /\ pc[d] \in Writer => pc'[d] \in Writer
  PROVE  Calm'
<1>1. GoneIsUntracked(repo') /\ ReadOnlyKept'
  BY DEF Calm, GoneIsUntracked, ReadOnlyKept, SRSFiles
<1>2. WriterAlone'
  BY DEF Calm, WriterAlone, Writer
<1>3. \A c \in Clients : WriterHas(c)'
  BY DEF Calm, WriterHas, Writer, SRSFiles
<1>4. ActiveHas'
  BY DEF Calm, ActiveHas, SRSFiles
<1>5. FilesAgree'
  BY LatestHashSame DEF Calm, FilesAgree, SRSFiles
<1> QED
  BY <1>1, <1>2, <1>3, <1>4, <1>5 DEF Calm

(* What a git command leaves: a file it changes is gone with the other one. *)
LEMMA GitLeaves ==
  ASSUME LifecycleTyped, Calm, NEW s, GitChanges(s), ~restored', ~torn', ~restored, ~torn
  PROVE  /\ repo' = s
         /\ \A c \in Clients : pc[c] \notin Approving
         /\ \/ \A p \in SRSFiles : repo'.tree[p] = repo.tree[p]
            \/ \A p \in SRSFiles : repo'.tree[p] = Absent
         /\ ReadOnlyKept'
<1>1. repo' = s /\ \A c \in Clients : pc[c] \notin Approving
  BY DEF GitChanges, Overlaps
<1>2. \/ \A p \in SRSFiles : s.tree[p] = repo.tree[p]
      \/ \A p \in SRSFiles : s.tree[p] = Absent
  BY DEF GitChanges
<1>3. readonly' = (readonly /\ s.tree["srs"] = repo.tree["srs"])
  BY DEF GitChanges
<1>4. ReadOnlyKept'
  BY <1>1, <1>2, <1>3 DEF ReadOnlyKept, SRSFiles, Calm
<1> QED
  BY <1>1, <1>2, <1>4

LEMMA CalmAfterGit ==
  ASSUME LifecycleTyped, Calm, NEW s, GitChanges(s), ~restored', ~torn', ~restored, ~torn,
         GoneIsUntracked(s), NEW c \in Clients, Stop(c), UNCHANGED rows,
         \A r \in Runs : status[r] \in {"active", "paused"} =>
           /\ s.tree["srs"] = repo.tree["srs"]
           /\ \A d \in Clients \ {c} : pc[d] # "branch"
  PROVE  Calm'
<1>1. /\ repo' = s /\ \A d \in Clients : pc[d] \notin Approving
      /\ \/ \A p \in SRSFiles : repo'.tree[p] = repo.tree[p]
         \/ \A p \in SRSFiles : repo'.tree[p] = Absent
      /\ ReadOnlyKept'
  BY GitLeaves
<1>2. /\ \A d \in Clients : pc'[d] \notin Writer
      /\ pc'[c] = "idle" /\ \A d \in Clients \ {c} : pc'[d] = pc[d]
  BY <1>1 DEF Stop, Go, Writer, Approving, LifecycleTyped, TypeOK
<1>3. WriterAlone' /\ \A d \in Clients : WriterHas(d)'
  BY <1>2 DEF WriterAlone, WriterHas, Writer
<1>4. ActiveHas'
  BY <1>1, <1>2 DEF ActiveHas, Calm, rows
<1>5. FilesAgree'
  <2>1. LatestHash' = LatestHash
    BY LatestHashSame DEF rows
  <2>2. FilesAgree /\ \A d \in Clients : pc[d] \notin Writer
    BY <1>1 DEF Calm, Writer, Approving
  <2> QED
    BY <1>1, <2>1, <2>2 DEF FilesAgree, SRSFiles
<1> QED
  BY <1>1, <1>3, <1>4, <1>5 DEF Calm

LEMMA CalmKept ==
  ASSUME LifecycleTyped, StartAlone, StartBelieves, NewestFlies, Calm, [Next]_vars,
         ~restored', ~torn', ~restored, ~torn
  PROVE  Calm'
<1> USE DEF LifecycleTyped
<1>a. /\ \A r \in Runs : status[r] \in {"active", "paused"} => r \in InFlightRuns
      /\ Absent \notin Texts /\ SRSFiles \subseteq Paths
      /\ \A c \in Clients : pc[c] \in Approving => doc[c] # Absent
  BY LifecycleAssumption DEF InFlightRuns, InFlight, SRSFiles, DocumentsRead
<1>1. ASSUME NEW c \in Clients, SetUpBranch(c) PROVE Calm'
  <2>1. pc[c] = "branch" /\ Stop(c) /\ UNCHANGED rows /\ base[rn[c]] \in Branches
    BY <1>1, Hands DEF SetUpBranch, Steps, Starting
  <2>2. \A d \in Clients \ {c} : pc[d] # "branch"
    BY <2>1 DEF StartAlone, Starting
  <2>3. CASE UNCHANGED <<repo, readonly, restored, torn, ready>>
    <3>1. \A d \in Clients : d # c => pc'[d] = pc[d] /\ rn'[d] = rn[d] /\ doc'[d] = doc[d]
      BY <2>1 DEF Stop, Go, TypeOK
    <3>2. pc'[c] = "idle"
      BY <2>1 DEF Stop, Go, TypeOK
    <3> QED
      BY <2>1, <2>3, <3>1, <3>2, CalmFrame DEF rows, Writer
  <2>4. CASE CanSetupWorkBranch(repo, base[rn[c]], work)
               /\ GitChanges(SetupWorkBranch(repo, base[rn[c]], work))
    <3> DEFINE s == SetupWorkBranch(repo, base[rn[c]], work)
    <3>1. /\ GoneIsUntracked(s)
          /\ \A p \in Paths : repo.tree[p] # repo.index[p] => s.tree[p] = repo.tree[p]
      BY <2>1, <2>4, SetupWork DEF Calm
    <3>2. ASSUME NEW r \in Runs, status[r] \in {"active", "paused"}
          PROVE  s.tree["srs"] = repo.tree["srs"]
      <4>1. repo.tree["srs"] = hash[r] /\ repo.index["srs"] = Absent
        BY <2>1, <3>2 DEF Calm, ActiveHas
      <4>2. hash[r] # Absent
        BY <1>a, <3>2 DEF DocumentsRead
      <4> QED
        BY <1>a, <3>1, <4>1, <4>2 DEF SRSFiles
    <3> HIDE DEF s
    <3>3. GitChanges(s)
      BY <2>4 DEF s
    <3> QED
      BY <2>1, <2>2, <3>1, <3>2, <3>3, CalmAfterGit
  <2> QED
    BY <1>1, <2>3, <2>4 DEF SetUpBranch
<1>2. ASSUME NEW c \in Clients, CancelCleanup(c) PROVE Calm'
  <2> DEFINE clean == CleanUntracked(ResetHard(repo))
             s == IF CanCheckout(clean, base[rn[c]])
                  THEN CheckoutBranch(clean, base[rn[c]]) ELSE clean
  <2>1. pc[c] = "cleanup" /\ Stop(c) /\ UNCHANGED rows /\ GitChanges(s)
    BY <1>2 DEF CancelCleanup
  <2>2. base[rn[c]] \in Branches
    BY <2>1, Hands DEF Steps
  <2>3. GoneIsUntracked(s)
    BY <2>2, CleanedUp
  <2>4. \A r \in Runs : status[r] \notin {"active", "paused"}
    BY <1>a, <2>1 DEF StartBelieves
  <2> HIDE DEF s
  <2> QED
    BY <2>1, <2>3, <2>4, CalmAfterGit
<1>3. ASSUME UserCommits PROVE Calm'
  <2>1. /\ GoneIsUntracked(repo') /\ repo'.tree = repo.tree
        /\ UNCHANGED <<readonly, rows, clients, history>> /\ \A c \in Clients : pc[c] = "idle"
    BY <1>3, Committed DEF UserCommits
  <2>2. ReadOnlyKept' /\ WriterAlone' /\ (\A c \in Clients : WriterHas(c)') /\ ActiveHas'
    BY <2>1 DEF Calm, ReadOnlyKept, WriterAlone, WriterHas, Writer, ActiveHas, clients, rows
  <2>3. FilesAgree'
    BY <2>1, LatestHashSame DEF Calm, FilesAgree, Writer, clients, rows
  <2> QED
    BY <2>1, <2>2, <2>3 DEF Calm
<1>4. ASSUME NEW c \in Clients, CreateRun(c) PROVE Calm'
  <2>1. PICK r \in Runs : /\ status[r] = "none"
                          /\ status' = [status EXCEPT ![r] = "draft_srs"]
                          /\ order' = Append(order, r)
    BY <1>4 DEF CreateRun
  <2>2. /\ pc[c] = "create" /\ pc'[c] = "branch" /\ \A d \in Clients \ {c} : pc'[d] = pc[d]
        /\ \A d \in Clients \ {c} : rn'[d] = rn[d]
        /\ UNCHANGED <<repo, readonly, hash, doc>>
    BY <1>4 DEF CreateRun, Go, TypeOK
  <2>3. \A q \in Runs : status'[q] \notin {"active", "paused"}
    BY <1>a, <2>1, <2>2 DEF StartBelieves, TypeOK
  <2>4. LatestHash' = LatestHash
    BY <2>1, <2>2, LatestHashSame DEF RowsMade
  <2>5. \A d \in Clients : pc'[d] \in Writer => d # c /\ pc[d] \in Writer
    BY <2>2 DEF Writer
  <2>6. GoneIsUntracked(repo') /\ ReadOnlyKept' /\ WriterAlone' /\ ActiveHas'
    BY <2>2, <2>3, <2>5 DEF Calm, ReadOnlyKept, WriterAlone, ActiveHas
  <2>7. \A d \in Clients : WriterHas(d)'
    BY <2>2, <2>5 DEF Calm, WriterHas, Writer
  <2>8. FilesAgree'
    BY <2>2, <2>4 DEF Calm, FilesAgree, Writer
  <2> QED
    BY <2>6, <2>7, <2>8 DEF Calm
<1>5. ASSUME NEW c \in Clients, WriteSRS(c) PROVE Calm'
  <2>1. CASE repo.tree["srs"] # Absent
    <3>1. Stop(c) /\ UNCHANGED <<repo, readonly>> /\ pc[c] = "srs" /\ UNCHANGED rows
      BY <1>5, <2>1 DEF WriteSRS, Calm, ReadOnlyKept
    <3>2. \A d \in Clients : d # c => pc'[d] = pc[d] /\ rn'[d] = rn[d] /\ doc'[d] = doc[d]
      BY <3>1 DEF Stop, Go, TypeOK
    <3>3. pc'[c] = "idle"
      BY <3>1 DEF Stop, Go, TypeOK
    <3> QED
      BY <3>1, <3>2, <3>3, CalmFrame DEF rows, Writer
  <2>2. CASE repo.tree["srs"] = Absent
    <3>1. /\ pc[c] = "srs" /\ repo' = Write("srs", doc[c]) /\ readonly' = TRUE
          /\ pc'[c] = "sum" /\ \A d \in Clients \ {c} : pc'[d] = pc[d]
          /\ UNCHANGED <<rn, doc, rows>>
      BY <1>5, <2>2 DEF WriteSRS, Go, TypeOK
    <3>2. /\ repo'.tree["srs"] = doc[c] /\ repo'.index = repo.index
          /\ repo'.tree["sum"] = repo.tree["sum"] /\ doc[c] # Absent
      BY <1>a, <3>1, Hands, FileWritten DEF Approving
    <3>3. \A d \in Clients : pc[d] \notin Writer
      BY <1>a, <2>2 DEF Calm, WriterHas, Writer, Approving
    <3>4. repo.tree["sum"] = Absent /\ repo.index["sum"] = Absent /\ repo.index["srs"] = Absent
      BY <2>2, <3>3 DEF Calm, FilesAgree, GoneIsUntracked, SRSFiles
    <3>5. \A d \in Clients : pc'[d] \in Writer => d = c
      BY <3>1, <3>3
    <3>6. GoneIsUntracked(repo') /\ ReadOnlyKept' /\ WriterAlone' /\ FilesAgree'
      BY <3>1, <3>2, <3>4, <3>5 DEF GoneIsUntracked, SRSFiles, ReadOnlyKept, WriterAlone, FilesAgree,
        Writer
    <3>7. \A d \in Clients : WriterHas(d)'
      BY <3>1, <3>2, <3>4, <3>5 DEF WriterHas, Writer
    <3>8. ActiveHas'
      BY <2>2, <3>1, <1>a DEF Calm, ActiveHas, DocumentsRead, rows
    <3> QED
      BY <3>6, <3>7, <3>8 DEF Calm
  <2> QED
    BY <2>1, <2>2
<1>6. ASSUME NEW c \in Clients, WriteSRSHash(c) PROVE Calm'
  <2>1. /\ pc[c] = "sum" /\ repo' = Write("sum", doc[c]) /\ pc'[c] = "hash"
        /\ \A d \in Clients \ {c} : pc'[d] = pc[d]
        /\ UNCHANGED <<readonly, rn, doc, rows>>
    BY <1>6 DEF WriteSRSHash, Go, TypeOK
  <2>2. /\ repo'.tree["sum"] = doc[c] /\ repo'.index = repo.index
        /\ repo'.tree["srs"] = repo.tree["srs"] /\ doc[c] # Absent
    BY <1>a, <2>1, Hands, FileWritten DEF Approving
  <2>3. \A d \in Clients : pc'[d] \in Writer => d = c
    BY <2>1 DEF Calm, WriterAlone, Writer
  <2>4. repo.tree["srs"] = doc[c] /\ repo.index["srs"] = Absent
    BY <2>1 DEF Calm, WriterHas, Writer
  <2>5. GoneIsUntracked(repo') /\ ReadOnlyKept' /\ WriterAlone' /\ FilesAgree'
    BY <2>1, <2>2, <2>3 DEF Calm, GoneIsUntracked, SRSFiles, ReadOnlyKept, WriterAlone, FilesAgree,
      Writer
  <2>6. \A d \in Clients : WriterHas(d)'
    BY <2>1, <2>2, <2>3, <2>4 DEF WriterHas, Writer
  <2>7. ActiveHas'
    BY <2>1, <2>2 DEF Calm, ActiveHas, rows
  <2> QED
    BY <2>5, <2>6, <2>7 DEF Calm
<1>7. ASSUME NEW c \in Clients, UpdateRunSRSHash(c) PROVE Calm'
  <2>1. /\ pc[c] = "hash" /\ pc'[c] = "activate" /\ \A d \in Clients \ {c} : pc'[d] = pc[d]
        /\ rn[c] \in Runs /\ hash'[rn[c]] = doc[c]
        /\ \A r \in Runs \ {rn[c]} : hash'[r] = hash[r]
        /\ UNCHANGED <<repo, readonly, status, rn, doc>>
    BY <1>7, Hands DEF UpdateRunSRSHash, Go, TypeOK, Steps, Approving
  <2>2. \A d \in Clients : pc'[d] \in Writer => d = c
    BY <2>1 DEF Calm, WriterAlone, Writer
  <2>3. repo.tree["srs"] = doc[c] /\ repo.index["srs"] = Absent /\ repo.tree["sum"] = doc[c]
    BY <2>1 DEF Calm, WriterHas, Writer
  <2>4. GoneIsUntracked(repo') /\ ReadOnlyKept' /\ WriterAlone' /\ FilesAgree'
    BY <2>1, <2>2 DEF Calm, GoneIsUntracked, ReadOnlyKept, WriterAlone, FilesAgree, Writer
  <2>5. \A d \in Clients : WriterHas(d)'
    BY <2>1, <2>2, <2>3 DEF WriterHas, Writer
  <2>6. ActiveHas'
    BY <2>1, <2>3 DEF Calm, ActiveHas
  <2> QED
    BY <2>4, <2>5, <2>6 DEF Calm
<1>8. ASSUME NEW c \in Clients, Activate(c) PROVE Calm'
  <2>1. /\ pc[c] = "activate" /\ ValidRunTransition(status[rn[c]], "active")
        /\ pc'[c] = "tidy" /\ \A d \in Clients \ {c} : pc'[d] = pc[d]
        /\ UNCHANGED <<repo, readonly, hash, order, rn, doc>> /\ rn[c] \in Runs
        /\ UpdateRunStatus(rn[c], "active")
    BY <1>8, Hands DEF Activate, Go, TypeOK, Steps, Approving
  <2>2. \A r \in Runs \ {rn[c]} : status'[r] = status[r]
    BY <2>1, StatusMoves DEF TypeOK, Statuses, InFlight
  <2>3. /\ repo.tree["srs"] = doc[c] /\ repo.index["srs"] = Absent
        /\ repo.tree["sum"] = doc[c] /\ hash[rn[c]] = doc[c] /\ doc[c] # Absent
    BY <1>a, <2>1 DEF Calm, WriterHas, Writer, Approving
  <2>4. \A d \in Clients : pc'[d] \notin Writer
    BY <2>1 DEF Calm, WriterAlone, Writer
  <2>5. GoneIsUntracked(repo') /\ ReadOnlyKept' /\ WriterAlone' /\ \A d \in Clients : WriterHas(d)'
    BY <2>1, <2>4 DEF Calm, GoneIsUntracked, ReadOnlyKept, WriterAlone, WriterHas, Writer
  <2>6. ActiveHas'
    BY <2>1, <2>2, <2>3 DEF Calm, ActiveHas
  <2>7. FilesAgree'
    <3>1. rn[c] \in InFlightRuns
      BY <2>1 DEF ValidRunTransition, InFlightRuns, InFlight
    <3>2. LatestHash' = doc[c]
      BY <2>1, <2>3, <3>1, LatestHashIs, LatestHashSame
    <3> QED
      BY <2>1, <2>3, <3>2 DEF FilesAgree
  <2> QED
    BY <2>5, <2>6, <2>7 DEF Calm
<1>9. ASSUME NEW c \in Clients, \/ WriteDraft(c) \/ DeleteDraft(c)
      PROVE  Calm'
  <2>1. rn[c] \in Paths /\ rn[c] \notin SRSFiles /\ doc[c] \in Texts \cup {Absent}
    BY <1>9, Hands, LifecycleAssumption DEF WriteDraft, DeleteDraft, Steps, SRSFiles, TypeOK
  <2>2. \A p \in SRSFiles : repo'.tree[p] = repo.tree[p] /\ repo'.index[p] = repo.index[p]
    <3>1. PICK text \in Texts \cup {Absent} : repo' = Write(rn[c], text)
      BY <1>9, <2>1 DEF WriteDraft, DeleteDraft, Draft
    <3> QED
      BY <1>a, <2>1, <3>1, FileWritten
  <2>3. \A d \in Clients : d # c => pc'[d] = pc[d] /\ rn'[d] = rn[d] /\ doc'[d] = doc[d]
    BY <1>9 DEF WriteDraft, DeleteDraft, Stop, Go, TypeOK
  <2>4. pc[c] \notin Writer /\ pc'[c] \in {"submitted", "idle"}
    BY <1>9 DEF WriteDraft, DeleteDraft, Stop, Go, TypeOK, Writer
  <2>5. UNCHANGED <<readonly, rows>>
    BY <1>9 DEF WriteDraft, DeleteDraft
  <2> QED
    BY <2>2, <2>3, <2>4, <2>5, CalmFrame DEF rows, Writer
<1>10. ASSUME NEW c \in Clients,
              \/ StartRun(c) \/ ValidateClean(c) \/ SubmitSRS(c) \/ ApproveSRS(c) \/ ReadDraft(c)
              \/ Die(c)
       PROVE  Calm'
  <2>1. \A d \in Clients : d # c => pc'[d] = pc[d] /\ rn'[d] = rn[d] /\ doc'[d] = doc[d]
    BY <1>10 DEF StartRun, ValidateClean, SubmitSRS, ApproveSRS, ReadDraft, Die, Stop, Go, Hold, TypeOK
  <2>2. pc[c] \notin Writer /\ pc'[c] \notin Writer \cup {"branch"}
    BY <1>10 DEF StartRun, ValidateClean, SubmitSRS, ApproveSRS, ReadDraft, Die, Stop, Go, TypeOK,
      OnActiveRun, Writer, Approving
  <2>3. UNCHANGED <<repo, readonly, rows>>
    BY <1>10 DEF StartRun, ValidateClean, SubmitSRS, ApproveSRS, ReadDraft, Die
  <2> QED
    BY <2>1, <2>2, <2>3, CalmFrame DEF rows
<1>11. ASSUME NEW c \in Clients, \/ ReplaceRun(c) \/ FinishSubmit(c) \/ CancelRun(c)
       PROVE  Calm'
  <2>1. \A d \in Clients : d # c => pc'[d] = pc[d] /\ rn'[d] = rn[d] /\ doc'[d] = doc[d]
    BY <1>11 DEF ReplaceRun, FinishSubmit, CancelRun, Stop, Go, Hold, TypeOK
  <2>2. pc[c] \notin Writer /\ pc'[c] \notin Writer \cup {"branch"}
    BY <1>11 DEF ReplaceRun, FinishSubmit, CancelRun, Stop, Go, TypeOK, OnActiveRun, Writer
  <2>3. UNCHANGED <<repo, readonly, hash, order>>
    BY <1>11 DEF ReplaceRun, FinishSubmit, CancelRun
  <2>4. PICK r \in Runs, to \in {"cancelled", "awaiting_srs_approval"} : UpdateRunStatus(r, to)
    <3>1. GetActiveRun \in Runs \/ ~CancelRun(c)
      BY ActiveRun DEF CancelRun, TypeOK
    <3>2. rn[c] \in Runs \/ CancelRun(c)
      BY <1>11, Hands DEF ReplaceRun, FinishSubmit, Steps, Starting
    <3> QED
      BY <1>11, <3>1, <3>2 DEF ReplaceRun, FinishSubmit, CancelRun
  <2>5. \A q \in Runs : status'[q] \in {status[q], to}
    BY <2>4, StatusMoves DEF TypeOK, Statuses, InFlight
  <2> QED
    BY <2>1, <2>2, <2>3, <2>5, CalmFrame
<1>12. ASSUME NEW c \in Clients, \/ RejectSRS(c) \/ PauseRun(c) \/ ResumeRun(c)
       PROVE  Calm'
  <2>1. UNCHANGED <<repo, readonly, hash, order, clients>>
    BY <1>12 DEF RejectSRS, PauseRun, ResumeRun
  <2>2. \A q \in Runs : status'[q] \in {"active", "paused"} => status[q] \in {"active", "paused"}
    BY <1>12, ActiveRun DEF RejectSRS, PauseRun, ResumeRun, UpdateRunStatus, TypeOK
  <2> QED
    BY <2>1, <2>2, CalmFrame DEF clients
<1>13. CASE UNCHANGED vars
  BY <1>13, CalmFrame DEF vars, rows, clients
<1> QED
  BY <1>1, <1>2, <1>3, <1>4, <1>5, <1>6, <1>7, <1>8, <1>9, <1>10, <1>11, <1>12, <1>13 DEF Next

-----------------------------------------------------------------------------
(* The invariants hold. *)

LEMMA RepoMade == RepoOK(NewRepo([p \in Paths |-> Absent], base0))
<1> DEFINE none == [p \in Paths |-> Absent]
           log == <<[tree |-> none, item |-> Absent]>>
           tip == [b \in Branches |-> IF b = base0 THEN 1 ELSE 0]
           r == NewRepo(none, base0)
<1>1. none \in Tree /\ base0 \in Branches
  BY LifecycleAssumption DEF Tree
<1>2. log \in Seq(Revision) /\ Len(log) = 1
  BY <1>1 DEF Revision
<1>3. tip \in [Branches -> Nat] /\ \A b \in Branches : tip[b] <= 1
  OBVIOUS
<1>4. tip[base0] # 0
  BY <1>1
<1>5. r = [log |-> log, tip |-> tip, branch |-> base0, index |-> none, tree |-> none]
  BY DEF NewRepo
<1> HIDE DEF none, log, tip, r
<1>6. RepoOK(r)
  BY <1>1, <1>2, <1>3, <1>4, <1>5 DEF RepoOK, Repo
<1> QED
  BY <1>6 DEF r, none

LEMMA SRSInvInit ==
  ASSUME Init
  PROVE  SRSInv
<1>1. RepoOK(repo) /\ repo.tree = [p \in Paths |-> Absent] /\ repo.index = [p \in Paths |-> Absent]
  BY RepoMade DEF Init, NewRepo
<1>2. /\ repo.tip \in [Branches -> 0..Len(repo.log)] /\ repo.branch \in Branches
      /\ repo.tree \in [Paths -> Texts \cup {Absent}]
  BY <1>1, RepoTyped
<1>3. TypeOK
  <2>1. order \in Seq(Runs) /\ DOMAIN order = {}
    BY DEF Init
  <2>2. {raced, restored, torn} \subseteq BOOLEAN
    BY DEF Init
  <2> QED
    BY <1>2, <2>1, <2>2 DEF Init, TypeOK, Statuses, Steps
<1>4. RowsMade /\ DocumentsRead
  BY DEF Init, RowsMade, Named, DocumentsRead, Approving
<1>5. InFlightRuns = {}
  BY DEF Init, InFlightRuns, InFlight
<1>6. Serial /\ RunOnItsBranch
  BY <1>5 DEF Init, Serial, StartAlone, StartBelieves, NewestFlies, RunOnItsBranch, Starting
<1>7. Calm
  <2>1. \A p \in SRSFiles : repo.tree[p] = Absent /\ repo.index[p] = Absent
    BY <1>1, LifecycleAssumption DEF SRSFiles
  <2> QED
    BY <2>1 DEF Init, Calm, GoneIsUntracked, ReadOnlyKept, WriterAlone, WriterHas, ActiveHas,
      FilesAgree, SRSFiles, Writer
<1> QED
  BY <1>1, <1>3, <1>4, <1>6, <1>7 DEF SRSInv, RunInv, LifecycleTyped, Undisturbed

LEMMA SRSInvNext ==
  ASSUME SRSInv, [Next]_vars
  PROVE  SRSInv'
<1>1. LifecycleTyped /\ Serial /\ RunOnItsBranch
  BY DEF SRSInv, RunInv
<1>2. LifecycleTyped'
  BY <1>1, RepoKept, TypedKept DEF LifecycleTyped
<1>3. Serial' /\ RunOnItsBranch'
  BY <1>1, SerialKept, OnBranchKept
<1>4. ASSUME ~raced', ~restored', ~torn' PROVE Calm'
  <2>1. ~raced /\ ~restored /\ ~torn
    BY <1>1, <1>4, HistoryGrows
  <2>2. StartAlone /\ StartBelieves /\ NewestFlies /\ Calm
    BY <2>1 DEF SRSInv, RunInv, Serial, Undisturbed
  <2> QED
    BY <1>1, <1>4, <2>1, <2>2, CalmKept
<1> QED
  BY <1>2, <1>3, <1>4 DEF SRSInv, RunInv, Undisturbed

LEMMA SRSInvHolds == Spec => []SRSInv
<1>1. Init => SRSInv
  BY SRSInvInit
<1>2. SRSInv /\ [Next]_vars => SRSInv'
  BY SRSInvNext
<1> QED
  BY <1>1, <1>2, PTL DEF Spec

(* Every variable keeps its type, and no run has two rows. *)
THEOREM LifecycleTypes == Spec => []TypeOK
<1>1. SRSInv => TypeOK
  BY DEF SRSInv, RunInv, LifecycleTyped
<1> QED
  BY <1>1, SRSInvHolds, PTL

(* As long as no StartRun overlapped another one or a CancelRun, at most   *)
(* one run is in flight, whatever was replaced, cancelled or died between. *)
THEOREM OneRunCorrect == Spec => []OneRun
<1>1. SRSInv => OneRun
  <2> SUFFICES ASSUME SRSInv, ~raced PROVE Cardinality(InFlightRuns) <= 1
    BY DEF OneRun
  <2> DEFINE r == order[Len(order)]
  <2>1. InFlightRuns \in SUBSET {r}
    BY DEF SRSInv, RunInv, Serial, NewestFlies
  <2>2. IsFiniteSet({r}) /\ Cardinality({r}) = 1
    BY FS_Singleton
  <2>3. Cardinality(InFlightRuns) <= Cardinality({r})
    BY <2>1, <2>2, FS_Subset
  <2> QED
    BY <2>2, <2>3
<1> QED
  BY <1>1, SRSInvHolds, PTL

(* A run that was set up has the work branch checked out while it is in   *)
(* flight: only SetUpBranch and the cleanup of a cancelled run move it.    *)
THEOREM BranchCorrect == Spec => []RunOnItsBranch
<1>1. SRSInv => RunOnItsBranch
  BY DEF SRSInv, RunInv
<1> QED
  BY <1>1, SRSInvHolds, PTL

(* An active run has the hash of its SRS, and srs.md is that document as  *)
(* long as nothing raced and git put nothing in its place.                 *)
THEOREM PinnedCorrect == Spec => []SRSPinned
<1>1. SRSInv => SRSPinned
  <2> SUFFICES ASSUME SRSInv, NEW r \in Runs, status[r] \in {"active", "paused"}
               PROVE  /\ hash[r] # Absent
                      /\ ~raced /\ ~restored /\ ~torn => repo.tree["srs"] \in {hash[r], Absent}
    BY DEF SRSPinned
  <2>1. hash[r] \in Texts
    BY DEF SRSInv, RunInv, LifecycleTyped, DocumentsRead
  <2>2. ~raced /\ ~restored /\ ~torn => repo.tree["srs"] = hash[r]
    BY DEF SRSInv, Undisturbed, Calm, ActiveHas
  <2> QED
    BY <2>1, <2>2, LifecycleAssumption
<1> QED
  BY <1>1, SRSInvHolds, PTL

(* The integrity check of a startup passes after every sequence of         *)
(* commands, unless an approval is half way, or ended there, or git put an *)
(* earlier SRS back, or a StartRun raced.                                  *)
THEOREM StartupCorrect == Spec => []StartupAccepted
<1>1. SRSInv => StartupAccepted
  <2> SUFFICES ASSUME SRSInv, ~torn, ~restored, ~raced, ~Overlaps(Approving)
               PROVE  VerifySRSIntegrity
    BY DEF StartupAccepted
  <2>1. FilesAgree /\ \A c \in Clients : pc[c] \notin Writer
    BY DEF SRSInv, Undisturbed, Calm, Overlaps, Writer, Approving
  <2> QED
    BY <2>1 DEF FilesAgree, VerifySRSIntegrity
<1> QED
  BY <1>1, SRSInvHolds, PTL
=============================================================================
