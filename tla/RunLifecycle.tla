----------------------------- MODULE RunLifecycle -----------------------------
(***************************************************************************)
(* The life of a run: StartRun, the SRS draft and its approval, pause,     *)
(* resume and cancel, called by command lines and API handlers at the same *)
(* time.  A run is a row of project_runs, files under .axiom (srs.md, its  *)
(* hash file, one draft per run) and the branch that is checked out; every *)
(* statement, file and git operation of a caller is a step of its own.     *)
(* The files are not ignored by git: they are untracked until the user     *)
(* commits them.                                                           *)
(***************************************************************************)
EXTENDS GitRepo, FiniteSets

CONSTANTS
  Runs, NoRun,
  Clients,           \* commands and handlers that may be at work at once
  Texts,             \* SRS documents; a document stands for its hash as well
  base0, work,       \* the branch the user starts from, the project's work branch
  configured,        \* init.defaultBranch, or Absent
  MaxCommits         \* bound on the user's commits

VARIABLES
  repo, readonly,    \* the repository; the mode of srs.md
  status, base, hash, order,  \* project_runs: columns, and the rows by started_at
  pc, rn, doc, dirtyOK,       \* client |-> its next step, run, document, AllowDirty
  ready,             \* history: runs whose StartRun succeeded
  raced,             \* history: a StartRun overlapped another one or a CancelRun
  restored,          \* history: git brought back a file of an SRS
  torn               \* history: an approval died, was refused, or had its files taken by git

rows    == <<status, base, hash, order>>
clients == <<pc, rn, doc, dirtyOK>>
history == <<ready, raced, restored, torn>>
vars    == <<repo, readonly, rows, clients, history>>

ASSUME LifecycleAssumption ==
  /\ Branches = {base0, work} /\ base0 # work /\ Absent \notin Branches
  /\ Paths = {"srs", "sum"} \cup Runs /\ Runs \cap {"srs", "sum"} = {}
  /\ configured \in Branches \cup {Absent} /\ NoRun \notin Runs
  /\ Absent \notin Texts \cup Runs /\ MaxCommits \in Nat

Draft(r) == r
InFlight == {"draft_srs", "awaiting_srs_approval", "active", "paused"}
Statuses == InFlight \cup {"none", "cancelled"}
Starting == {"replace", "validate", "create", "branch"}
Approving == {"srs", "sum", "hash", "activate"}
Steps == Starting \cup Approving
           \cup {"idle", "submit", "submitted", "approve", "tidy", "cleanup"}

TypeOK ==
  /\ repo.tip \in [Branches -> 0..Len(repo.log)] /\ repo.branch \in Branches
  /\ repo.tree \in [Paths -> Texts \cup {Absent}]
  /\ readonly \in BOOLEAN
  /\ status \in [Runs -> Statuses] /\ base \in [Runs -> Branches \cup {Absent}]
  /\ hash \in [Runs -> Texts \cup {Absent}]
  /\ order \in Seq(Runs)
  /\ \A i, j \in DOMAIN order : order[i] = order[j] => i = j
  /\ pc \in [Clients -> Steps] /\ rn \in [Clients -> Runs \cup {NoRun}]
  /\ doc \in [Clients -> Texts \cup {Absent}] /\ dirtyOK \in [Clients -> BOOLEAN]
  /\ ready \subseteq Runs /\ {raced, restored, torn} \subseteq BOOLEAN

Init ==
  /\ repo = NewRepo([p \in Paths |-> Absent], base0) /\ readonly = FALSE
  /\ status = [r \in Runs |-> "none"] /\ base = [r \in Runs |-> Absent]
  /\ hash = [r \in Runs |-> Absent] /\ order = <<>>
  /\ pc = [c \in Clients |-> "idle"] /\ rn = [c \in Clients |-> NoRun]
  /\ doc = [c \in Clients |-> Absent] /\ dirtyOK = [c \in Clients |-> FALSE]
  /\ ready = {} /\ raced = FALSE /\ restored = FALSE /\ torn = FALSE

-----------------------------------------------------------------------------
ValidRunTransition(from, to) ==
  CASE from = "draft_srs" -> to \in {"awaiting_srs_approval", "cancelled"}
    [] from = "awaiting_srs_approval" -> to \in {"active", "draft_srs", "cancelled"}
    [] from = "active" -> to \in {"paused", "cancelled", "completed", "error"}
    [] from = "paused" -> to \in {"active", "cancelled"}
    [] OTHER -> FALSE

(* The latest of some runs, by started_at. *)
Newest(runs) ==
  LET at == {i \in DOMAIN order : order[i] \in runs}
  IN  IF at = {} THEN NoRun ELSE order[CHOOSE i \in at : \A j \in at : j <= i]

InFlightRuns == {r \in Runs : status[r] \in InFlight}
GetActiveRun == Newest(InFlightRuns)

UpdateRunStatus(r, to) ==
  status' = IF ValidRunTransition(status[r], to) THEN [status EXCEPT ![r] = to] ELSE status

Overlaps(steps) == \E d \in Clients : pc[d] \in steps

(* git rewrites a file with the mode it tracks, which is never read-only. *)
SRSFiles == {"srs", "sum"}
GitChanges(r) ==
  /\ repo' = r
  /\ readonly' = (readonly /\ r.tree["srs"] = repo.tree["srs"])
  /\ restored' = (restored \/ \E p, q \in SRSFiles : /\ r.tree[p] # repo.tree[p]
                                                   /\ r.tree[q] # Absent)
  /\ torn' = (torn \/ Overlaps(Approving))

Write(p, content) == [repo EXCEPT !.tree = [@ EXCEPT ![p] = content]]

Go(c, step) == pc' = [pc EXCEPT ![c] = step]
Stop(c) == /\ Go(c, "idle")
           /\ rn' = [rn EXCEPT ![c] = NoRun] /\ doc' = [doc EXCEPT ![c] = Absent]
           /\ dirtyOK' = [dirtyOK EXCEPT ![c] = FALSE]
Hold(c, r, text) == /\ rn' = [rn EXCEPT ![c] = r] /\ doc' = [doc EXCEPT ![c] = text]
                    /\ UNCHANGED dirtyOK

(* A caller resolves the project's active run and the operation reads its  *)
(* status again; a run that moved in between is refused then.              *)
OnActiveRun(c, states) == pc[c] = "idle" /\ GetActiveRun # NoRun
                            /\ status[GetActiveRun] \in states

-----------------------------------------------------------------------------
(* StartRun. *)

StartRun(c) ==
  /\ pc[c] = "idle"
  /\ \E allowDirty, force \in BOOLEAN :
       /\ GetActiveRun # NoRun => force
       /\ dirtyOK' = [dirtyOK EXCEPT ![c] = allowDirty]
  /\ Go(c, IF GetActiveRun = NoRun THEN "validate" ELSE "replace")
  /\ rn' = [rn EXCEPT ![c] = GetActiveRun]
  /\ raced' = (raced \/ Overlaps(Starting \cup {"cleanup"}))
  /\ UNCHANGED <<repo, readonly, rows, doc, ready, restored, torn>>

ReplaceOnly(c) ==
  /\ pc[c] = "replace" /\ Go(c, "validate")
  /\ rn' = [rn EXCEPT ![c] = NoRun]
  /\ UNCHANGED <<repo, readonly, rows, doc, dirtyOK, history>>

ReplaceRun(c) ==
  /\ pc[c] = "replace" /\ Go(c, "validate")
  /\ UpdateRunStatus(rn[c], "cancelled")
  /\ rn' = [rn EXCEPT ![c] = NoRun]
  /\ UNCHANGED <<repo, readonly, base, hash, order, doc, dirtyOK, history>>

ValidateClean(c) ==
  /\ pc[c] = "validate"
  /\ IF dirtyOK[c] \/ ~IsDirty(repo)
     THEN Go(c, "create") /\ UNCHANGED <<rn, doc, dirtyOK>>
     ELSE Stop(c)
  /\ UNCHANGED <<repo, readonly, rows, history>>

CreateRunOver(c) ==
  /\ pc[c] = "create" /\ Go(c, "branch")
  /\ \E r \in Runs :
       /\ status[r] \notin InFlight
       /\ status' = [status EXCEPT ![r] = "draft_srs"]
       /\ base' = [base EXCEPT ![r] = DetectBaseBranch(repo, configured, base0, base0)]
       /\ order' = Append(order, r)
       /\ rn' = [rn EXCEPT ![c] = r]
  /\ UNCHANGED <<repo, readonly, hash, doc, dirtyOK, history>>

CreateRun(c) ==
  /\ pc[c] = "create" /\ Go(c, "branch")
  /\ \E r \in Runs :
       /\ status[r] = "none"
       /\ status' = [status EXCEPT ![r] = "draft_srs"]
       /\ base' = [base EXCEPT ![r] = DetectBaseBranch(repo, configured, base0, base0)]
       /\ order' = Append(order, r)
       /\ rn' = [rn EXCEPT ![c] = r]
  /\ UNCHANGED <<repo, readonly, hash, doc, dirtyOK, history>>

(* A failure leaves the row in draft_srs. *)
SetUpBranch(c) ==
  /\ pc[c] = "branch" /\ Stop(c)
  /\ IF (dirtyOK[c] \/ ~IsDirty(repo)) /\ CanSetupWorkBranch(repo, base[rn[c]], work)
     THEN /\ GitChanges(SetupWorkBranch(repo, base[rn[c]], work))
          /\ ready' = ready \cup {rn[c]}
     ELSE UNCHANGED <<repo, readonly, restored, torn, ready>>
  /\ UNCHANGED <<rows, raced>>

-----------------------------------------------------------------------------
(* SubmitSRS, ApproveSRS, RejectSRS. *)

SubmitSRS(c) ==
  /\ OnActiveRun(c, {"draft_srs"}) /\ Go(c, "submit")
  /\ \E text \in Texts : Hold(c, GetActiveRun, text)
  /\ UNCHANGED <<repo, readonly, rows, history>>

WriteDraft(c) ==
  /\ pc[c] = "submit" /\ Go(c, "submitted")
  /\ repo' = Write(Draft(rn[c]), doc[c])
  /\ UNCHANGED <<readonly, rows, rn, doc, dirtyOK, history>>

FinishSubmit(c) ==
  /\ pc[c] = "submitted" /\ Stop(c)
  /\ UpdateRunStatus(rn[c], "awaiting_srs_approval")
  /\ UNCHANGED <<repo, readonly, base, hash, order, history>>

ApproveSRS(c) ==
  /\ OnActiveRun(c, {"awaiting_srs_approval"}) /\ Go(c, "approve")
  /\ Hold(c, GetActiveRun, Absent)
  /\ UNCHANGED <<repo, readonly, rows, history>>

HashDraftFirst(c) ==
  /\ pc[c] = "approve"
  /\ LET text == repo.tree[Draft(rn[c])]
     IN  IF text = Absent THEN Stop(c) /\ UNCHANGED hash
         ELSE /\ Go(c, "srs") /\ Hold(c, rn[c], text)
              /\ hash' = [hash EXCEPT ![rn[c]] = text]
  /\ UNCHANGED <<repo, readonly, status, base, order, history>>

ReadDraft(c) ==
  /\ pc[c] = "approve"
  /\ LET text == repo.tree[Draft(rn[c])]
     IN  IF text = Absent THEN Stop(c) ELSE Go(c, "srs") /\ Hold(c, rn[c], text)
  /\ UNCHANGED <<repo, readonly, rows, history>>

WriteSRSAnyway(c) ==
  /\ pc[c] = "srs"
  /\ repo' = Write("srs", doc[c]) /\ Go(c, "sum")
  /\ UNCHANGED <<readonly, rows, rn, doc, dirtyOK, history>>

(* srs.md is created read-only and cannot be opened for writing then; one  *)
(* that git has rewritten can, and keeps its mode.                         *)
WriteSRS(c) ==
  /\ pc[c] = "srs"
  /\ LET exists == repo.tree["srs"] # Absent
     IN  IF exists /\ readonly
         THEN Stop(c) /\ UNCHANGED <<repo, readonly>>
         ELSE /\ repo' = Write("srs", doc[c]) /\ readonly' = ~exists
              /\ Go(c, "sum") /\ UNCHANGED <<rn, doc, dirtyOK>>
  /\ UNCHANGED <<rows, history>>

WriteSRSHash(c) ==
  /\ pc[c] = "sum" /\ Go(c, "hash")
  /\ repo' = Write("sum", doc[c])
  /\ UNCHANGED <<readonly, rows, rn, doc, dirtyOK, history>>

UpdateRunSRSHash(c) ==
  /\ pc[c] = "hash" /\ Go(c, "activate")
  /\ hash' = [hash EXCEPT ![rn[c]] = doc[c]]
  /\ UNCHANGED <<repo, readonly, status, base, order, rn, doc, dirtyOK, history>>

Activate(c) ==
  /\ pc[c] = "activate"
  /\ IF ValidRunTransition(status[rn[c]], "active")
     THEN Go(c, "tidy") /\ UNCHANGED <<rn, doc, dirtyOK, torn>>
     ELSE Stop(c) /\ torn' = TRUE
  /\ UpdateRunStatus(rn[c], "active")
  /\ UNCHANGED <<repo, readonly, base, hash, order, ready, raced, restored>>

DeleteDraft(c) ==
  /\ pc[c] = "tidy" /\ Stop(c)
  /\ repo' = Write(Draft(rn[c]), Absent)
  /\ UNCHANGED <<readonly, rows, history>>

RejectSRS(c) ==
  /\ OnActiveRun(c, {"awaiting_srs_approval"})
  /\ UpdateRunStatus(GetActiveRun, "draft_srs")
  /\ UNCHANGED <<repo, readonly, base, hash, order, clients, history>>

-----------------------------------------------------------------------------
(* PauseRun, ResumeRun, CancelRun. *)

PauseRun(c) ==
  /\ OnActiveRun(c, {"active"}) /\ UpdateRunStatus(GetActiveRun, "paused")
  /\ UNCHANGED <<repo, readonly, base, hash, order, clients, history>>

ResumeRun(c) ==
  /\ OnActiveRun(c, {"paused"}) /\ UpdateRunStatus(GetActiveRun, "active")
  /\ UNCHANGED <<repo, readonly, base, hash, order, clients, history>>

CancelRun(c) ==
  /\ OnActiveRun(c, InFlight)
  /\ UpdateRunStatus(GetActiveRun, "cancelled")
  /\ Go(c, "cleanup") /\ Hold(c, GetActiveRun, Absent)
  /\ raced' = (raced \/ Overlaps(Starting))
  /\ UNCHANGED <<repo, readonly, base, hash, order, ready, restored, torn>>

CancelCleanup(c) ==
  /\ pc[c] = "cleanup" /\ Stop(c)
  /\ LET clean == CleanUntracked(ResetHard(repo))
     IN  GitChanges(IF CanCheckout(clean, base[rn[c]])
                    THEN CheckoutBranch(clean, base[rn[c]]) ELSE clean)
  /\ UNCHANGED <<rows, ready, raced>>

-----------------------------------------------------------------------------
(* A command dies between two of its steps. *)
Die(c) ==
  /\ pc[c] # "idle" /\ Stop(c)
  /\ torn' = (torn \/ pc[c] \in Approving)
  /\ UNCHANGED <<repo, readonly, rows, ready, raced, restored>>

(* The user commits what is there, the approved SRS included. *)
UserCommits ==
  /\ Len(repo.log) <= MaxCommits /\ IsDirty(repo)
  /\ repo.tree["srs"] # Absent /\ \A c \in Clients : pc[c] = "idle"
  /\ repo' = Commit([repo EXCEPT !.index = repo.tree], Absent)
  /\ UNCHANGED <<readonly, rows, clients, history>>

Next ==
  \/ \E c \in Clients :
       \/ StartRun(c) \/ ReplaceRun(c) \/ ValidateClean(c) \/ CreateRun(c) \/ SetUpBranch(c)
       \/ SubmitSRS(c) \/ WriteDraft(c) \/ FinishSubmit(c)
       \/ ApproveSRS(c) \/ ReadDraft(c) \/ WriteSRS(c) \/ WriteSRSHash(c)
       \/ UpdateRunSRSHash(c) \/ Activate(c) \/ DeleteDraft(c) \/ RejectSRS(c)
       \/ PauseRun(c) \/ ResumeRun(c) \/ CancelRun(c) \/ CancelCleanup(c)
       \/ Die(c)
  \/ UserCommits

Spec == Init /\ [][Next]_vars

-----------------------------------------------------------------------------
(* StartRun refuses a second run and replaces one by force: as long as no  *)
(* two StartRuns overlap, nor one and a CancelRun, one run is in flight    *)
(* (the guard of StartRun is a read that other commands follow).           *)
OneRun == ~raced => Cardinality(InFlightRuns) <= 1

(* A run in flight has the project's work branch checked out, through      *)
(* replacements, cancellations and commands that die (run.go, gitops).     *)
RunOnItsBranch ==
  ~raced => \A r \in ready : status[r] \in InFlight => repo.branch = work

(* An active run has the hash of its SRS, and the SRS on disk, as long as  *)
(* git leaves it there, is that one, whatever approvals, rejections and    *)
(* submissions overlap: srs.md is written once (srs.go, project.WriteSRS). *)
SRSPinned ==
  \A r \in Runs : status[r] \in {"active", "paused"} =>
    /\ hash[r] # Absent
    /\ ~raced /\ ~restored /\ ~torn => repo.tree["srs"] \in {hash[r], Absent}

LatestHash ==
  LET run == Newest({r \in Runs : hash[r] # Absent})
  IN  IF run = NoRun THEN Absent ELSE hash[run]

(* What the integrity check of the next startup reads. *)
VerifySRSIntegrity ==
  /\ repo.tree["srs"] # Absent => repo.tree["sum"] = repo.tree["srs"]
  /\ repo.tree["sum"] = Absent \/ LatestHash \in {Absent, repo.tree["sum"]}

(* The startup check passes whatever sequence of commands came before,     *)
(* unless an approval is half way or ended there, or git brought back the  *)
(* SRS of an earlier run (recovery.go:verifySRSIntegrity).                 *)
StartupAccepted ==
  torn \/ restored \/ raced \/ Overlaps(Approving) \/ VerifySRSIntegrity
=============================================================================
