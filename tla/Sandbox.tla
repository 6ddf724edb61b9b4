------------------------------ MODULE Sandbox ------------------------------
(***************************************************************************)
(* The containers of task attempts and of merge checks, the directories    *)
(* they share with the engine, and what recovery does with both.           *)
(*                                                                         *)
(* An attempt runs in a worker container, then, while that one is still    *)
(* up, in a validator and in a reviewer container; the merge queue starts  *)
(* a validator of its own.  The row of a container carries its name as the *)
(* key and is never deleted.  The merge queue is given the PATH of the     *)
(* staging directory, not the files that were checked in it.               *)
(*                                                                         *)
(* A worker writes a draft of its files, then the final ones, then the     *)
(* message that says so, and may go on writing after it: it is stopped     *)
(* only when the attempt is over.  The verdicts of checks and reviewers    *)
(* are free.  Retry limits and locks are those of Pipeline.                *)
(***************************************************************************)
EXTENDS Naturals, FiniteSets, Sequences

CONSTANTS Tasks, Attempts, MaxFaults, MaxCrashes, NoItem

VARIABLES
  at,        \* at[t]: the step of the goroutine (or queue item) of t's attempt
  num,       \* num[t]: the number of t's latest attempt
  did,       \* did[t][n]: what the worker of attempt n has written so far
  staging,   \* staging[t]: the outputs found in t's staging directory
  outbox,    \* outbox[t]: the attempts whose message is in t's ipc output
  rows,      \* container_sessions: every name ever inserted
  open,      \* the rows without stopped_at
  up,        \* the containers Docker runs
  ending,    \* workers whose deferred Stop is still to run
  detached,  \* workers whose staging (s) or ipc (i) mount was removed under them
  artifacts, \* artifacts[t]: the output last put on file for t (task_artifacts)
  queue, merging,
  merged,    \* the outputs committed
  stray,     \* containers some Stop or removal failed on
  misread,   \* attempts that took the message of an earlier one for their own
  running, faults, crashes

vars == <<at, num, did, staging, outbox, rows, open, up, ending, detached, artifacts,
          queue, merging, merged, stray, misread, running, faults, crashes>>
docker == <<rows, open, up>>
dirs == <<did, staging, outbox, detached>>
mergeq == <<queue, merging, merged>>
past == <<misread, running, crashes>>

Meeseeks(t, n) == <<"meeseeks", t, n>>
Validator(id) == <<"validator", id, 0>>
Reviewer(t) == <<"reviewer", t, 0>>
MergeQueue == "merge-queue"
Names == {"meeseeks", "validator", "reviewer"} \X (Tasks \cup {MergeQueue}) \X Nat

(* What a worker has written: before, with and after its message. *)
Outputs == Nat \X {"draft", "final", "later"}

(* An approved attempt in the queue; the one being merged, with the output  *)
(* found in its directory.                                                 *)
QueueItem == [task : Tasks, attempt : Nat]
MergeItem == [task : Tasks, attempt : Nat, output : SUBSET Outputs, checking : BOOLEAN]

(* What the constants are. *)
ASSUME SandboxAssumption ==
  /\ Attempts \in [Tasks -> Nat] /\ {MaxFaults, MaxCrashes} \subseteq Nat
  /\ NoItem \notin MergeItem

Init ==
  /\ at = [t \in Tasks |-> "idle"] /\ num = [t \in Tasks |-> 0]
  /\ did = [t \in Tasks |-> [n \in 1..Attempts[t] |-> "nothing"]]
  /\ staging = [t \in Tasks |-> {}] /\ outbox = [t \in Tasks |-> {}]
  /\ rows = {} /\ open = {} /\ up = {} /\ ending = {} /\ detached = [s |-> {}, i |-> {}]
  /\ artifacts = [t \in Tasks |-> {}] /\ queue = <<>> /\ merging = NoItem /\ merged = {}
  /\ stray = {} /\ misread = {} /\ running = TRUE /\ faults = 0 /\ crashes = 0

-----------------------------------------------------------------------------
(* The container service. *)

(* The row goes in first: a name that was ever used is refused. *)
StartOK(c) ==
  /\ c \notin rows
  /\ rows' = rows \cup {c} /\ open' = open \cup {c} /\ up' = up \cup {c}
  /\ UNCHANGED faults

(* docker run fails: the row stays, marked stopped. *)
StartFails(c) ==
  \/ c \in rows /\ UNCHANGED <<docker, faults>>
  \/ /\ c \notin rows /\ faults < MaxFaults
     /\ rows' = rows \cup {c} /\ faults' = faults + 1 /\ UNCHANGED <<open, up>>

(* docker stop, else docker rm -f, else an error that leaves the row open.  A worker *)
(* that exited by itself was removed by --rm: Docker may then refuse both.         *)
StopOK(c) ==
  open' = open \ {c} /\ up' = up \ {c} /\ UNCHANGED <<rows, stray, faults>>

StopFails(c) ==
  /\ c \in up => faults < MaxFaults
  /\ stray' = stray \cup ({c} \cap up)
  /\ faults' = faults + (IF c \in up THEN 1 ELSE 0)
  /\ UNCHANGED docker

Stop(c) == StopOK(c) \/ StopFails(c)

-----------------------------------------------------------------------------
(* One attempt: Engine.runAttempt. *)

Go(t, from, to) == running /\ at[t] = from /\ at' = [at EXCEPT ![t] = to]

(* Creating the directories again keeps what is in them. *)
StartMeeseeks(t) ==
  /\ num[t] < Attempts[t] /\ num' = [num EXCEPT ![t] = @ + 1]
  /\ \/ Go(t, "idle", "executing") /\ StartOK(Meeseeks(t, num'[t]))
     \/ Go(t, "idle", "cleaning") /\ StartFails(Meeseeks(t, num'[t]))
  /\ UNCHANGED <<dirs, ending, artifacts, mergeq, stray, past>>

(* Engine.monitorTaskIPC: the first task_output message ends the wait, whoever *)
(* wrote it; or the time of the attempt is up.                                 *)
ReadOutput(t) ==
  \E n \in outbox[t] :
    /\ Go(t, "executing", "output")
    /\ outbox' = [outbox EXCEPT ![t] = @ \ {n}]
    /\ misread' = IF n = num[t] THEN misread ELSE misread \cup {<<t, num[t]>>}
    /\ UNCHANGED <<num, did, staging, detached, docker, ending, artifacts, mergeq, stray,
                   running, crashes, faults>>

TimeOut(t) ==
  /\ Go(t, "executing", "failing")
  /\ UNCHANGED <<num, dirs, docker, ending, artifacts, mergeq, stray, past, faults>>

(* A manifest lists every file found, and a worker lists only its own. *)
ManifestMayPass(found) == found # {} /\ \A o, p \in found : o[1] = p[1]

(* Stage 1, the manifest; the artifacts go on file; then the sandbox of stage 2. *)
StartValidator(t) ==
  /\ \/ /\ ManifestMayPass(staging[t]) /\ artifacts' = [artifacts EXCEPT ![t] = staging[t]]
        /\ \/ Go(t, "output", "validating") /\ StartOK(Validator(t))
           \/ Go(t, "output", "failing") /\ StartFails(Validator(t))
     \/ Go(t, "output", "failing") /\ UNCHANGED <<docker, faults, artifacts>>
  /\ UNCHANGED <<num, dirs, ending, mergeq, stray, past>>

(* Mutant: failed checks return before the sandbox is stopped. *)
StopIfPassed(t) ==
  IF at'[t] = "failing" THEN UNCHANGED <<docker, stray, faults>> ELSE Stop(Validator(t))

(* The sandbox is stopped whatever the checks say. *)
StopAfterChecks(t) == Stop(Validator(t))

RunChecks(t) ==
  /\ Go(t, "validating", "checked") \/ Go(t, "validating", "failing")
  /\ StopAfterChecks(t)
  /\ UNCHANGED <<num, dirs, ending, artifacts, mergeq, past>>

(* The review specification names the staged files and holds a notice for each. *)
StartReviewer(t) ==
  /\ \/ Go(t, "checked", "reviewing") /\ StartOK(Reviewer(t))
     \/ Go(t, "checked", "failing") /\ StartFails(Reviewer(t))
  /\ UNCHANGED <<num, dirs, ending, artifacts, mergeq, stray, past>>

(* Any text that is not an approval is a rejection. *)
ParseVerdict(text) == text = "approve"

RunReview(t) ==
  \E text \in {"approve", "reject", "malformed"} :
    /\ Stop(Reviewer(t))
    /\ \/ /\ ParseVerdict(text) /\ Go(t, "reviewing", "queued")
          /\ queue' = Append(queue, [task |-> t, attempt |-> num[t]])
          /\ ending' = ending \cup {Meeseeks(t, num[t])}
       \/ /\ ~ParseVerdict(text) /\ Go(t, "reviewing", "failing")
          /\ UNCHANGED <<queue, ending>>
    /\ UNCHANGED <<num, dirs, artifacts, merging, merged, past>>

(* The worker of an approved attempt is stopped after its output was queued. *)
StopApproved(c) ==
  /\ running /\ c \in ending /\ ending' = ending \ {c}
  /\ Stop(c)
  /\ UNCHANGED <<at, num, dirs, artifacts, mergeq, past>>

(* Mutant: only the ipc directory is removed. *)
CleanupIpcOnly(t) ==
  /\ outbox' = [outbox EXCEPT ![t] = {}]
  /\ detached' = [detached EXCEPT !.i = @ \cup {c \in up' : c[1] = "meeseeks" /\ c[2] = t}]
  /\ UNCHANGED <<did, staging>>

(* The task's directories are removed, under any worker that still has them mounted. *)
CleanupTaskDirs(t) ==
  /\ staging' = [staging EXCEPT ![t] = {}] /\ outbox' = [outbox EXCEPT ![t] = {}]
  /\ LET workers == {c \in up' : c[1] = "meeseeks" /\ c[2] = t}
     IN detached' = [s |-> detached.s \cup workers, i |-> detached.i \cup workers]
  /\ UNCHANGED did

(* A failed attempt: the deferred Stop, then failAttempt. *)
FailAttempt(t) ==
  /\ \/ Go(t, "failing", "idle") /\ Stop(Meeseeks(t, num[t]))
     \/ Go(t, "cleaning", "idle") /\ UNCHANGED <<docker, stray, faults>>
  /\ CleanupTaskDirs(t)
  /\ UNCHANGED <<num, ending, artifacts, mergeq, past>>

-----------------------------------------------------------------------------
(* The worker inside its container (external). *)

Work(t, n, from, to) ==
  /\ Meeseeks(t, n) \in up /\ did[t][n] = from /\ did' = [did EXCEPT ![t][n] = to]
  /\ UNCHANGED <<at, num, detached, docker, ending, artifacts, mergeq, stray, past, faults>>

(* The new files replace those an earlier attempt left, or come beside them. *)
WriteDraft(t, n) ==
  /\ Work(t, n, "nothing", "draft") /\ UNCHANGED outbox
  /\ IF Meeseeks(t, n) \in detached.s THEN UNCHANGED staging
     ELSE \E kept \in {{}, staging[t]} :
            staging' = [staging EXCEPT ![t] = kept \cup {<<n, "draft">>}]

WriteFinal(t, n) ==
  /\ Work(t, n, "draft", "final") /\ UNCHANGED outbox
  /\ IF Meeseeks(t, n) \in detached.s THEN UNCHANGED staging
     ELSE staging' = [staging EXCEPT ![t] = (@ \ {<<n, "draft">>}) \cup {<<n, "final">>}]

SendOutput(t, n) ==
  /\ Work(t, n, "final", "sent") /\ UNCHANGED staging
  /\ outbox' = IF Meeseeks(t, n) \in detached.i THEN outbox
               ELSE [outbox EXCEPT ![t] = @ \cup {n}]

(* A worker that goes on after its message: its output is then another one. *)
Rewrite(t, n) ==
  /\ Work(t, n, "sent", "more") /\ UNCHANGED outbox
  /\ IF Meeseeks(t, n) \in detached.s THEN UNCHANGED staging
     ELSE staging' = [staging EXCEPT ![t] = (@ \ {<<n, "final">>}) \cup {<<n, "later">>}]

Exit(t, n) ==
  /\ did[t][n] \in {"sent", "more"} /\ Meeseeks(t, n) \in up /\ up' = up \ {Meeseeks(t, n)}
  /\ UNCHANGED <<at, num, dirs, rows, open, ending, artifacts, mergeq, stray, past, faults>>

-----------------------------------------------------------------------------
(* The merge queue, as far as it reads the staging directory and starts containers. *)

(* A failed merge: MarkFailed cleans the directories, then the task is queued again. *)
Requeue(t) == CleanupTaskDirs(t) /\ at' = [at EXCEPT ![t] = "idle"]

ApplyOutput ==
  /\ running /\ merging = NoItem /\ queue # <<>> /\ queue' = Tail(queue)
  /\ UNCHANGED <<num, did, docker, ending, artifacts, merged, stray, past, faults>>
  /\ LET t == Head(queue).task
     IN IF staging[t] = {}
        THEN Requeue(t) /\ UNCHANGED merging
        ELSE /\ merging' = [task |-> t, attempt |-> Head(queue).attempt,
                            output |-> staging[t], checking |-> FALSE]
             /\ UNCHANGED <<at, dirs>>

StartMergeCheck ==
  /\ running /\ merging # NoItem /\ ~merging.checking
  /\ \/ /\ StartOK(Validator(MergeQueue))
        /\ merging' = [merging EXCEPT !.checking = TRUE] /\ UNCHANGED <<at, dirs>>
     \/ StartFails(Validator(MergeQueue)) /\ merging' = NoItem /\ Requeue(merging.task)
  /\ UNCHANGED <<num, ending, artifacts, queue, merged, stray, past>>

(* The commit, then MarkSucceeded, which cleans the directories too. *)
EndMergeCheck ==
  /\ running /\ merging # NoItem /\ merging.checking /\ merging' = NoItem
  /\ Stop(Validator(MergeQueue))
  /\ \/ /\ merged' = merged \cup {<<merging.task, merging.attempt, merging.output>>}
        /\ at' = [at EXCEPT ![merging.task] = "merged"] /\ CleanupTaskDirs(merging.task)
     \/ Requeue(merging.task) /\ UNCHANGED merged
  /\ UNCHANGED <<num, ending, artifacts, queue, past>>

-----------------------------------------------------------------------------
(* The process dies and the next one recovers. *)

Crash ==
  /\ running /\ crashes < MaxCrashes
  /\ running' = FALSE /\ crashes' = crashes + 1
  /\ queue' = <<>> /\ merging' = NoItem /\ ending' = {}
  /\ UNCHANGED <<at, num, dirs, docker, artifacts, merged, stray, misread, faults>>

(* Every running axiom container is removed, if Docker does it; every open row is *)
(* closed in any case; the staging directories are emptied, the ipc ones are not. *)
Recover ==
  /\ ~running /\ running' = TRUE
  /\ \E survivors \in {{}} \cup (IF faults < MaxFaults THEN {{c} : c \in up} ELSE {}) :
       /\ up' = survivors /\ stray' = stray \cup survivors
       /\ faults' = faults + Cardinality(survivors)
  /\ open' = {}
  /\ staging' = [t \in Tasks |-> {}]
  /\ detached' = [detached EXCEPT !.s = @ \cup up']
  /\ at' = [t \in Tasks |-> IF at[t] = "merged" THEN "merged" ELSE "idle"]
  /\ UNCHANGED <<num, did, outbox, rows, ending, artifacts, mergeq, misread, crashes>>

Next ==
  \/ \E t \in Tasks :
       \/ StartMeeseeks(t) \/ ReadOutput(t) \/ TimeOut(t) \/ StartValidator(t) \/ RunChecks(t)
       \/ StartReviewer(t) \/ RunReview(t) \/ FailAttempt(t)
  \/ \E t \in Tasks : \E n \in 1..Attempts[t] :
       WriteDraft(t, n) \/ WriteFinal(t, n) \/ SendOutput(t, n) \/ Rewrite(t, n) \/ Exit(t, n)
  \/ \E c \in ending : StopApproved(c)
  \/ ApplyOutput \/ StartMergeCheck \/ EndMergeCheck \/ Crash \/ Recover

Spec == Init /\ [][Next]_vars

-----------------------------------------------------------------------------
TypeOK ==
  /\ at \in [Tasks -> {"idle", "executing", "output", "validating",
                       "checked", "reviewing", "queued", "failing", "cleaning", "merged"}]
  /\ \A t \in Tasks : num[t] \in 0..Attempts[t]
  /\ \A t \in Tasks : staging[t] \subseteq Outputs /\ artifacts[t] \subseteq Outputs
                        /\ outbox[t] \subseteq 1..num[t]
  /\ rows \subseteq Names /\ open \subseteq rows /\ up \subseteq rows /\ ending \subseteq Names
  /\ stray \subseteq rows /\ misread \subseteq Tasks \X Nat
  /\ queue \in Seq(QueueItem) /\ merging \in MergeItem \cup {NoItem}

(* The containers someone is going to stop. *)
Owned ==
  ending \cup {Meeseeks(t, num[t]) : t \in {u \in Tasks : at[u] \in
                 {"executing", "output", "validating", "checked", "reviewing", "failing"}}}
         \cup {Validator(t) : t \in {u \in Tasks : at[u] = "validating"}}
         \cup {Reviewer(t) : t \in {u \in Tasks : at[u] = "reviewing"}}
         \cup (IF merging # NoItem /\ merging.checking THEN {Validator(MergeQueue)} ELSE {})

(* While the engine runs, every container that runs is one the code at work will stop   *)
(* and is on file as running, except those Docker failed to stop or to remove: no error *)
(* path, no requeue and no restart leaves one behind.                                   *)
ContainersOwned == running => \A c \in up \ stray : c \in Owned /\ c \in open

(* What is committed for an attempt, although the queue was only given a path, was       *)
(* written by that attempt's worker and by no earlier one that still runs or left its    *)
(* files behind; it is finished; and when the worker kept to the protocol (nothing after *)
(* its message) it is the very output whose checksums are on file.  For the last two     *)
(* attempts that took an earlier one's message for their own are excused: recovery does  *)
(* not empty the ipc directories.                                                        *)
OwnOutput(t, n, output) ==
  /\ \A o \in output : o[1] = n
  /\ <<t, n>> \notin misread =>
       /\ <<n, "draft">> \notin output
       /\ did[t][n] = "sent" => output = artifacts[t]

MergedIsOwn == \A m \in merged : OwnOutput(m[1], m[2], m[3])
=============================================================================
