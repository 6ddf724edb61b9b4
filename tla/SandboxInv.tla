------------------------------ MODULE SandboxInv ------------------------------
(***************************************************************************)
(* The inductive invariant behind ContainersOwned and MergedIsOwn.         *)
(***************************************************************************)
EXTENDS Sandbox

Sent == {"sent", "more"}
Progress == {"nothing", "draft", "final"} \cup Sent

BoxTyped ==
  /\ TypeOK
  /\ num \in [Tasks -> Nat]
  /\ did = [t \in Tasks |-> did[t]]
  /\ \A t \in Tasks : did[t] \in [1..Attempts[t] -> Progress]
  /\ staging \in [Tasks -> SUBSET Outputs] /\ artifacts \in [Tasks -> SUBSET Outputs]
  /\ outbox = [t \in Tasks |-> outbox[t]]
  /\ merged \subseteq Tasks \X Nat \X SUBSET Outputs
  /\ detached \in [s : SUBSET rows, i : SUBSET rows]
  /\ running \in BOOLEAN /\ faults \in Nat

(* The engine that died took its queue and its deferred calls with it; a    *)
(* task that is at work has an attempt.                                    *)
Alive == running \/ (queue = <<>> /\ merging = NoItem /\ ending = {})
Begun == \A t \in Tasks : at[t] # "idle" => num[t] > 0

(* An item of the merge queue is the one of its task, which waits for it.   *)
OneItem ==
  /\ \A k \in DOMAIN queue : at[queue[k].task] = "queued" /\ num[queue[k].task] = queue[k].attempt
  /\ \A j, k \in DOMAIN queue : queue[j].task = queue[k].task => j = k
  /\ merging # NoItem =>
       /\ at[merging.task] = "queued" /\ num[merging.task] = merging.attempt
       /\ \A k \in DOMAIN queue : queue[k].task # merging.task

(* What is known of the workers of a task: the names up to num are taken, a *)
(* worker without a number has written nothing, a message was sent.         *)
Numbered(t) == \A n \in Nat : Meeseeks(t, n) \in rows => n \in 1..num[t]
Unstarted(t) == \A n \in 1..Attempts[t] : n > num[t] => did[t][n] = "nothing"
MessagesSent(t) == \A n \in outbox[t] : did[t][n] \in Sent

(* The steps at which an attempt is at work, its output is being judged,    *)
(* and those with no attempt at all.                                       *)
Judged == {"validating", "checked", "reviewing", "queued"}
Active == Judged \cup {"executing", "output"}
Ended == {"idle", "merged"}

(* Workers of earlier attempts have lost the staging directory if they      *)
(* still run, and so has that of an attempt that ended; the present one     *)
(* has not.                                                                *)
OthersDetached(t) ==
  \A n \in 1..num[t] : Meeseeks(t, n) \in up /\ (n < num[t] \/ at[t] \in Ended) =>
                        Meeseeks(t, n) \in detached.s
CurrentMounted(t) == at[t] \in Active => Meeseeks(t, num[t]) \notin detached.s

(* So the directory holds what the present worker last wrote, and nothing   *)
(* when there is none.                                                     *)
Wrote(n, progress) ==
  CASE progress = "nothing" -> {}
    [] progress = "draft" -> {<<n, "draft">>}
    [] progress \in {"final", "sent"} -> {<<n, "final">>}
    [] progress = "more" -> {<<n, "later">>}
Holds(t) ==
  /\ at[t] \in Ended => staging[t] = {}
  /\ at[t] \in Active => staging[t] = Wrote(num[t], did[t][num[t]])

(* What is judged is finished, unless the engine took an earlier worker's   *)
(* word for it, and was put on file unless it was changed since.           *)
Misread(t) == <<t, num[t]>> \in misread
SentRead(t) == at[t] \in Judged \cup {"output"} /\ ~Misread(t) => did[t][num[t]] \in Sent
OnFile(t) ==
  at[t] \in Judged /\ ~Misread(t) /\ did[t][num[t]] = "sent" =>
    artifacts[t] = {<<num[t], "final">>}

(* An output taken from the queue stays what it is, whatever the worker     *)
(* does now.                                                               *)
Kept(t, n, output) ==
  n \in 1..Attempts[t] /\ OwnOutput(t, n, output) /\ (<<t, n>> \notin misread => did[t][n] \in Sent)
MergingKept == merging # NoItem => Kept(merging.task, merging.attempt, merging.output)
MergedKept == \A m \in merged : at[m[1]] = "merged" /\ Kept(m[1], m[2], m[3])

OwnedInv == BoxTyped /\ Alive /\ Begun /\ OneItem /\ ContainersOwned

TaskInv(t) ==
  /\ Numbered(t) /\ Unstarted(t) /\ MessagesSent(t)
  /\ OthersDetached(t) /\ CurrentMounted(t) /\ Holds(t)
  /\ SentRead(t) /\ OnFile(t)

BoxInv == OwnedInv /\ (\A t \in Tasks : TaskInv(t)) /\ MergingKept /\ MergedKept
=============================================================================
