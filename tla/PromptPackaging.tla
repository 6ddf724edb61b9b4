--------------------------- MODULE PromptPackaging ---------------------------
(***************************************************************************)
(* What the models are shown: the TaskSpec and the ReviewSpec of each      *)
(* attempt on a task, the messages a worker sends to the inference broker, *)
(* and the prompt log.                                                     *)
(*                                                                         *)
(* Text is a sequence of lines; of a line the model keeps how many secrets *)
(* it holds and whether it is a comment with instructions.  A path is the  *)
(* sequence of its segments.  The working tree is read in one step, and    *)
(* may hold anything by then.                                              *)
(***************************************************************************)
EXTENDS Naturals, Sequences, FiniteSets, SequencesExt

CONSTANTS
  SpecFiles, Path,   \* target files of the task, the path of each
  SensitiveNames, ExcludedNames,  \* base names that match *key*, *.env and the like
  Root,              \* the project's directory, an absolute path
  Texts,             \* texts that are written: files, feedback, messages, outputs
  Objectives,        \* titles and descriptions a task may have
  SRSRefs,           \* the task maps to SRS requirements
  LocalModel,        \* the broker knows a local model
  ForceLocal,        \* security.force_local_for_secret_bearing
  NoText,            \* no file, no reason on file, no output yet, content left out
  MaxSpecs, MaxRequests   \* bounds

(* What the constants are. *)
ASSUME PromptAssumption ==
  /\ \A text \in Texts :
       /\ text \in Seq([secrets : Nat, order : BOOLEAN]) /\ text # <<>>
  /\ NoText \notin Seq([secrets : Nat, order : BOOLEAN])
  /\ "task_attempts" \notin ExcludedNames
  /\ ForceLocal \in BOOLEAN /\ {MaxSpecs, MaxRequests} \subseteq Nat

VARIABLES
  objective,
  phase,             \* of the current attempt
  reasons,           \* ended attempts: NoText or [why, twice]
  spec,              \* blocks of the spec.md of the worker: [source, payload]
  blind,             \* the attempts could not be listed when it was written
  output, review,    \* the worker's output, the block of it in the ReviewSpec
  promptSent,        \* its last request to reach a provider: [lines, found, local]
  logged,            \* its prompt log, which each request overwrites: [lines, response]
  requests

promptVars ==
  <<objective, phase, reasons, spec, blind, output, review, promptSent, logged, requests>>

Plain == [secrets |-> 0, order |-> FALSE]
SRSPath == <<".axiom", "srs.md">>
Staging == Root \o <<".axiom", "containers", "staging", "task">>

PromptTypeOK ==
  /\ objective \in Objectives
  /\ reasons \in Seq([why : Texts \cup {<<Plain>>}, twice : BOOLEAN] \cup {NoText})
  /\ phase \in {"spec", "work", "review", "over"} /\ output \in Texts \cup {NoText}
  /\ blind \in BOOLEAN /\ requests \in 0..MaxRequests

PromptInit ==
  /\ objective \in Objectives
  /\ phase = "spec" /\ reasons = <<>> /\ spec = {} /\ output = NoText /\ review = NoText
  /\ blind = FALSE /\ promptSent = NoText /\ logged = NoText /\ requests = 0

-----------------------------------------------------------------------------
(* security.Policy *)

(* Patterns of the forms  dir/**  and  **/dir/** . *)
Below(dir, path) == Len(path) > 1 /\ path[1] = dir
UnderDir(dir, path) == \E i \in 2..Len(path) - 1 : path[i] = dir

ClassifyPath(path) ==
  [sensitive |-> Last(path) \in SensitiveNames \/ UnderDir("secrets", path),
   excluded |-> \/ Last(path) \in ExcludedNames
                \/ \E dir \in {".axiom", "logs"} : Below(dir, path) \/ UnderDir(dir, path)]

(* The sum of the first n of some numbers. *)
Total(number, n) ==
  LET sum[i \in 0..n] == IF i = 0 THEN 0 ELSE sum[i - 1] + number[i] IN sum[n]

(* Secrets are not looked for in a comment that is taken out as a whole. *)
Redactions(line) == IF line.order THEN 0 ELSE line.secrets
Redacted(lines) == [i \in DOMAIN lines |-> Plain]
Found(lines) == Total([i \in DOMAIN lines |-> Redactions(lines[i])], Len(lines))

HighDensity(lines) ==
  LET bad == Cardinality({i \in DOMAIN lines : Redactions(lines[i]) > 0})
  IN  Found(lines) >= 3 \/ (bad >= 2 /\ 2 * bad >= Len(lines))

BuildPromptBlock(path, lines) ==
  [source |-> path,
   payload |-> IF ClassifyPath(path).excluded \/ HighDensity(lines) THEN NoText
               ELSE Redacted(lines)]

-----------------------------------------------------------------------------
(* TaskSpec *)

(* One entry: "failure=" why "; feedback=" why.  Its first line no longer   *)
(* starts as a comment, and the last line of the one runs into the other's. *)
ReasonText(reason) ==
  LET why == [reason.why EXCEPT ![1].order = FALSE]
      seam == [Last(why) EXCEPT !.secrets = @ + why[1].secrets]
  IN  IF reason.twice THEN Front(why) \o <<seam>> \o Tail(why) ELSE why

(* Mutant: only the attempt before this one is looked at. *)
buildLastFeedback ==
  IF reasons = <<>> \/ Last(reasons) = NoText THEN <<>> ELSE ReasonText(Last(reasons))

buildPriorFeedback ==
  LET entries[i \in 0..Len(reasons)] ==
        IF i = 0 THEN <<>>
        ELSE IF reasons[i] = NoText THEN entries[i - 1]
        ELSE entries[i - 1] \o ReasonText(reasons[i])
  IN  entries[Len(reasons)]

buildTaskContextBlocks(tree, feedback) ==
  LET present == {f \in SpecFiles : tree[f] # NoText}
      blocks == {<<Path[f], tree[f]>> : f \in present}
                \cup (IF SRSRefs THEN {<<SRSPath, <<Plain>>>>} ELSE {})
                \cup (IF feedback = <<>> THEN {} ELSE {<<<<"task_attempts">>, feedback>>})
  IN  IF blocks = {} THEN {<<<<"semantic_index">>, <<Plain>>>>} ELSE blocks

(* The objective, the interface contract and the acceptance criteria are    *)
(* written as they are; only the blocks of the context are packaged.  When  *)
(* the attempts cannot be listed the spec is written without feedback.      *)
WriteTaskSpec ==
  /\ phase = "spec" /\ phase' = "work" /\ blind' \in BOOLEAN
  /\ LET feedback == IF blind' THEN <<>> ELSE buildPriorFeedback
     IN  \E tree \in [SpecFiles -> Texts \cup {NoText}] :
           spec' = {BuildPromptBlock(b[1], b[2]) : b \in buildTaskContextBlocks(tree, feedback)}
  /\ UNCHANGED <<objective, reasons, output, review, promptSent, logged, requests>>

-----------------------------------------------------------------------------
(* Inference *)

(* A worker sends its spec, or a text of its own.  No caller names context *)
(* files or asks for the external override.                                *)
Prompts ==
  LET shown == {b.payload : b \in {c \in spec : c.payload # NoText}}
  IN  Texts \cup {objective \o FlattenSeq(SetToSeq(shown))}

prepareMessages(lines) == [lines |-> Redacted(lines), found |-> Found(lines) > 0]

(* promptlog.go: each request of an attempt overwrites the file of the one  *)
(* before.                                                                  *)
LogEntry(lines, response) == [lines |-> Redacted(lines), response |-> Redacted(response)]

SendPrompt ==
  /\ phase = "work" /\ requests < MaxRequests /\ requests' = requests + 1
  /\ \E lines \in Prompts, asked \in BOOLEAN, response \in Texts :
       LET message == prepareMessages(lines)
           local == (message.found /\ ForceLocal) \/ asked
       IN  /\ local => LocalModel
           /\ promptSent' = [lines |-> message.lines, found |-> message.found, local |-> local]
           /\ logged' = LogEntry(message.lines, response)
  /\ UNCHANGED <<objective, phase, reasons, spec, blind, output, review>>

-----------------------------------------------------------------------------
(* The end of an attempt *)

WriteReviewSpec ==
  /\ phase = "work" /\ phase' = "review"
  /\ output' \in Texts
  /\ review' = BuildPromptBlock(Staging, output')
  /\ UNCHANGED <<objective, reasons, spec, blind, promptSent, logged, requests>>

Ends(reason) ==
  /\ reasons' = Append(reasons, reason)
  /\ phase' = IF Len(reasons') < MaxSpecs THEN "spec" ELSE "over"
  /\ spec' = {} /\ blind' = FALSE /\ output' = NoText /\ review' = NoText
  /\ promptSent' = NoText /\ logged' = NoText
  /\ UNCHANGED <<objective, requests>>

(* A check or the reviewer refuses: the reason is stored as it is, twice. *)
failAttempt ==
  /\ phase \in {"work", "review"}
  /\ \E why \in Texts : Ends([why |-> why, twice |-> TRUE])

(* A crash: recovery gives a reason, unless the attempt was closed already  *)
(* and its reason not yet stored.                                           *)
AttemptDies ==
  /\ phase \in {"work", "review"}
  /\ \E reason \in {NoText, [why |-> <<Plain>>, twice |-> FALSE]} : Ends(reason)

Approve ==
  /\ phase = "review" /\ phase' = "over"
  /\ UNCHANGED <<objective, reasons, spec, blind, output, review, promptSent, logged, requests>>

PromptNext ==
  \/ WriteTaskSpec \/ SendPrompt \/ WriteReviewSpec \/ failAttempt \/ AttemptDies \/ Approve

PromptSpec == PromptInit /\ [][PromptNext]_promptVars

-----------------------------------------------------------------------------
(* A retry is told why each earlier attempt ended, as far as a reason is on *)
(* file: its spec holds every line of every reason, redacted, or says that  *)
(* the secrets among them were too many, unless the attempts could not be   *)
(* listed (taskspec.go:buildPriorFeedback).                                 *)
RetryToldWhy ==
  LET known == {i \in DOMAIN reasons : reasons[i] # NoText}
      size(r) == IF r.twice THEN 2 * Len(r.why) - 1 ELSE Len(r.why)
      lines == [i \in DOMAIN reasons |-> IF i \in known THEN size(reasons[i]) ELSE 0]
      secrets == [i \in DOMAIN reasons |->
                    IF i \in known THEN Found(ReasonText(reasons[i])) ELSE 0]
  IN  phase \in {"work", "review"} /\ ~blind /\ known # {} =>
        \E b \in spec :
          /\ b.source = <<"task_attempts">>
          /\ IF b.payload = NoText THEN Total(secrets, Len(reasons)) >= 2
             ELSE Len(b.payload) = Total(lines, Len(reasons))
=============================================================================
