-------------------------------- MODULE Terminal --------------------------------
(***************************************************************************)
(* The interactive terminal: one goroutine handles keys, events of the bus *)
(* and the results of StartRun calls it has sent to the background, and    *)
(* keeps a copy of the mode of the project.  Commands and orchestrators of *)
(* other processes change the run at any moment, without an event here.    *)
(***************************************************************************)
EXTENDS Naturals, Sequences

CONSTANTS
  MaxRuns, MaxInputs,  \* bounds: runs of the project, lines the operator enters
  NoRun

ASSUME TerminalAssumption == NoRun \notin Nat /\ {MaxRuns, MaxInputs} \subseteq Nat

VARIABLES
  runTable,          \* project_runs: status by age
  screen,            \* Model.mode, "unset" until the startup summary
  handler,           \* what the goroutine does: a command between two engine calls
  channel,           \* events that refresh, waiting in the subscription
  starts,            \* StartRun calls in the background
  results,           \* their messages, not handled yet
  shellLike,         \* Model.pendingShellLikePrompt is set
  pendingNewRunConfirm,
  pendingCmd,        \* what the next slash command hands to the runtime: "none", or force or not
  inputs,            \* history: lines entered, ...
  asked, armings,    \* ... prompts among them that ask for a run, gates armed by /new
  launched, forced,  \* history: StartRun calls, those with Force
  behind,            \* history: the run moved since the last refresh, not by a command here
  twoRuns            \* history: two StartRun calls overlapped and left two runs in flight

termVars == <<runTable, screen, handler, channel, starts, results, shellLike, pendingNewRunConfirm,
          pendingCmd, inputs, asked, armings, launched, forced, behind, twoRuns>>

Ongoing == {"draft", "awaiting", "active", "paused"}
Statuses == Ongoing \cup {"cancelled", "completed"}
AtRest == [cmd |-> "idle"]

TermTypeOK ==
  /\ runTable \in Seq(Statuses) /\ Len(runTable) <= MaxRuns
  /\ screen \in {"unset", "bootstrap", "approval", "execution", "postrun"}
  /\ {shellLike, pendingNewRunConfirm, behind, twoRuns} \subseteq BOOLEAN
  /\ pendingCmd \in {"none", "plain", "force"}

TermInit ==
  /\ runTable = <<>> /\ screen = "unset" /\ handler = AtRest /\ channel = 0
  /\ starts = {} /\ results = 0 /\ shellLike = FALSE /\ pendingNewRunConfirm = FALSE
  /\ pendingCmd = "none" /\ inputs = 0 /\ asked = 0 /\ armings = 0
  /\ launched = 0 /\ forced = 0 /\ behind = FALSE /\ twoRuns = FALSE

-----------------------------------------------------------------------------
Active == {i \in DOMAIN runTable : runTable[i] \in Ongoing}
GetActiveRun == IF Active = {} THEN NoRun ELSE CHOOSE i \in Active : \A j \in Active : j <= i

modeFromRunStatus(st) ==
  CASE st = "draft" -> "bootstrap"
    [] st = "awaiting" -> "approval"
    [] st \in {"active", "paused"} -> "execution"
    [] OTHER -> "postrun"

(* The run in flight, else the latest one. *)
DetermineMode ==
  CASE runTable = <<>> -> "bootstrap"
    [] Active # {} -> modeFromRunStatus(runTable[GetActiveRun])
    [] OTHER -> modeFromRunStatus(runTable[Len(runTable)])

refreshAfterStateChange == screen' = DetermineMode /\ behind' = FALSE

typed == <<twoRuns, shellLike, pendingNewRunConfirm, pendingCmd, inputs, asked, armings>>
counted == <<launched, forced>>

(* Other processes: the orchestrator submits, a command approves, pauses,  *)
(* resumes, cancels or starts a run, the last task completes it.           *)
Outside ==
  /\ \/ /\ Active = {} /\ Len(runTable) < MaxRuns /\ runTable' = Append(runTable, "draft")
     \/ \E i \in Active, to \in Statuses :
          /\ <<runTable[i], to>> \in {<<"draft", "awaiting">>, <<"awaiting", "active">>,
               <<"awaiting", "draft">>, <<"active", "paused">>, <<"paused", "active">>,
               <<"active", "completed">>} \cup (Ongoing \X {"cancelled"})
          /\ runTable' = [runTable EXCEPT ![i] = to]
  /\ behind' = TRUE
  /\ UNCHANGED <<screen, handler, channel, starts, results>> /\ UNCHANGED typed /\ UNCHANGED counted

-----------------------------------------------------------------------------
handleStartupSummary ==
  /\ screen = "unset" /\ refreshAfterStateChange
  /\ UNCHANGED <<runTable, handler, channel, starts, results>> /\ UNCHANGED typed /\ UNCHANGED counted

AtPrompt == handler = AtRest /\ screen # "unset"

(* RunCreated, SRSApproved, SRSRejected refresh; other events do not. *)
handleEvent ==
  /\ AtPrompt /\ channel > 0 /\ channel' = channel - 1
  /\ refreshAfterStateChange
  /\ UNCHANGED <<runTable, handler, starts, results>> /\ UNCHANGED typed /\ UNCHANGED counted

(* runStartedMsg refreshes, runStartFailedMsg only tells. *)
handleStarted ==
  /\ AtPrompt /\ results > 0 /\ results' = results - 1
  /\ refreshAfterStateChange
  /\ UNCHANGED <<runTable, handler, channel, starts>> /\ UNCHANGED typed /\ UNCHANGED counted

-----------------------------------------------------------------------------
Launch(force) ==
  /\ starts' = starts \cup {[id |-> launched + 1, step |-> "check", force |-> force]}
  /\ launched' = launched + 1
  /\ forced' = IF force THEN forced + 1 ELSE forced

Enter == AtPrompt /\ inputs < MaxInputs /\ inputs' = inputs + 1

(* A line that is no command: it starts a run in bootstrap mode, after a   *)
(* second one when it looks like a shell command.                          *)
submitInput ==
  /\ Enter
  /\ IF screen # "bootstrap"
     THEN UNCHANGED <<starts, launched, forced, shellLike, asked>>
     ELSE \E looksLikeShellCommand \in BOOLEAN :
            IF ~shellLike /\ looksLikeShellCommand
            THEN shellLike' = TRUE /\ UNCHANGED <<starts, launched, forced, asked>>
            ELSE shellLike' = FALSE /\ asked' = asked + 1 /\ Launch(FALSE)
  /\ UNCHANGED <<runTable, screen, handler, channel, results, pendingNewRunConfirm, pendingCmd,
                 armings, behind, twoRuns>>

(* Mutant: the call that was left behind stays. *)
DrainAndKeep ==
  IF pendingCmd = "none" THEN UNCHANGED <<starts, launched, forced, pendingCmd>>
  ELSE Launch(pendingCmd = "force") /\ UNCHANGED pendingCmd

(* A slash command may leave a call behind, which is handed over once. *)
Drain ==
  IF pendingCmd = "none" THEN UNCHANGED <<starts, launched, forced, pendingCmd>>
  ELSE Launch(pendingCmd = "force") /\ pendingCmd' = "none"

(* /new outside bootstrap mode arms the gate first.  A prompt passes it. *)
cmdNewRun ==
  /\ Enter
  /\ \/ /\ screen # "bootstrap" /\ ~pendingNewRunConfirm
        /\ pendingNewRunConfirm' = TRUE /\ armings' = armings + 1
        /\ UNCHANGED <<pendingCmd, asked, handler>>
     \/ /\ screen = "bootstrap" \/ pendingNewRunConfirm
        /\ pendingNewRunConfirm' = FALSE /\ asked' = asked + 1
        /\ pendingCmd' = IF screen # "bootstrap" THEN "force" ELSE "plain"
        /\ handler' = [cmd |-> "drain"] /\ UNCHANGED armings
  /\ UNCHANGED <<runTable, screen, channel, starts, results, shellLike, launched, forced, behind, twoRuns>>

(* The other commands: they look up a run, ... *)
Look(cmd) ==
  /\ Enter
  /\ \/ cmd \in {"pause", "cancel"} /\ screen = "execution" /\ GetActiveRun # NoRun
     \/ cmd \in {"approve", "reject"} /\ GetActiveRun # NoRun
                                       /\ runTable[GetActiveRun] = "awaiting"
     \/ cmd = "resume" /\ runTable # <<>> /\ runTable[Len(runTable)] = "paused"
  /\ handler' = [cmd |-> cmd, run |-> IF cmd = "resume" THEN Len(runTable) ELSE GetActiveRun]
  /\ UNCHANGED <<runTable, screen, channel, starts, results, shellLike, pendingNewRunConfirm,
                 pendingCmd, asked, armings, behind, twoRuns>> /\ UNCHANGED counted

Requires == [pause |-> {"active"}, cancel |-> Ongoing, resume |-> {"paused"},
         approve |-> {"awaiting"}, reject |-> {"awaiting"}]
Leaves == [pause |-> "paused", cancel |-> "cancelled", resume |-> "active",
       approve |-> "active", reject |-> "draft"]

(* ... then call the engine, which may refuse: PauseRun, CancelRun,        *)
(* ResumeRun, ApproveSRS, RejectSRS.                                       *)
CallEngine ==
  /\ handler.cmd \in DOMAIN Requires
  /\ IF runTable[handler.run] \in Requires[handler.cmd]
     THEN /\ runTable' = [runTable EXCEPT ![handler.run] = Leaves[handler.cmd]]
          /\ handler' = [cmd |-> "drain", after |-> handler.cmd]
          /\ channel' = IF handler.cmd \in {"approve", "reject"} THEN channel + 1 ELSE channel
     ELSE handler' = [cmd |-> "drain"] /\ UNCHANGED <<runTable, channel>>
  /\ UNCHANGED <<screen, starts, results, behind>> /\ UNCHANGED typed /\ UNCHANGED counted

ModeAfterCall(cmd) == IF cmd \in {"approve", "reject"} THEN DetermineMode ELSE screen

(* The mode a command leaves: two of them set it, the others read it. *)
ModeAfter(cmd) ==
  CASE cmd = "pause" -> "execution"
    [] cmd = "cancel" -> "postrun"
    [] OTHER -> DetermineMode

FinishCommand ==
  /\ handler.cmd = "drain" /\ handler' = AtRest
  /\ screen' = IF "after" \in DOMAIN handler THEN ModeAfter(handler.after) ELSE screen
  /\ behind' = IF "after" \in DOMAIN handler /\ handler.after \in {"resume", "approve", "reject"}
               THEN FALSE ELSE behind
  /\ Drain
  /\ UNCHANGED <<runTable, channel, results, shellLike, pendingNewRunConfirm, inputs, asked, armings,
                 twoRuns>>

-----------------------------------------------------------------------------
Step(s, step) == starts' = (starts \ {s}) \cup {[s EXCEPT !.step = step]}

(* With Force the run in flight is cancelled, without an event. *)
StartRunChecks(s) ==
  /\ s \in starts /\ s.step = "check"
  /\ IF Active # {} /\ ~s.force
     THEN starts' = starts \ {s} /\ UNCHANGED <<runTable, behind>>
     ELSE /\ Step(s, "create")
          /\ runTable' = [i \in DOMAIN runTable |->
                            IF i = GetActiveRun THEN "cancelled" ELSE runTable[i]]
          /\ behind' = (behind \/ Active # {})
  /\ UNCHANGED <<screen, handler, channel, results>> /\ UNCHANGED typed /\ UNCHANGED counted

(* The working tree is not clean, or the branch cannot be set up after the *)
(* run was created.                                                        *)
StartRunFails(s) ==
  /\ s \in starts /\ s.step \in {"create", "branch"}
  /\ starts' = starts \ {s}
  /\ UNCHANGED <<runTable, screen, handler, channel, results, behind>>
  /\ UNCHANGED typed /\ UNCHANGED counted

CreateRun(s) ==
  /\ s \in starts /\ s.step = "create" /\ Len(runTable) < MaxRuns
  /\ runTable' = Append(runTable, "draft") /\ channel' = channel + 1
  /\ Step(s, "branch") /\ twoRuns' = (twoRuns \/ Active # {})
  /\ UNCHANGED <<screen, handler, results, shellLike, pendingNewRunConfirm, pendingCmd, inputs,
                 asked, armings, behind>> /\ UNCHANGED counted

StartRunEnds(s) ==
  /\ s \in starts /\ s.step = "branch" /\ starts' = starts \ {s}
  /\ channel' = channel + 1 /\ results' = results + 1
  /\ UNCHANGED <<runTable, screen, handler, behind>> /\ UNCHANGED typed /\ UNCHANGED counted

TermNext ==
  \/ Outside \/ handleStartupSummary \/ handleEvent \/ handleStarted
  \/ submitInput \/ cmdNewRun \/ (\E cmd \in DOMAIN Requires : Look(cmd)) \/ CallEngine \/ FinishCommand
  \/ \E s \in starts :
       StartRunChecks(s) \/ StartRunFails(s) \/ CreateRun(s) \/ StartRunEnds(s)

TermSpec == TermInit /\ [][TermNext]_termVars

-----------------------------------------------------------------------------
(* The terminal shows the mode of the project whenever no event is on its  *)
(* way to it, StartRun calls in the background or not, unless the run      *)
(* moved elsewhere since the last refresh: a command that changes the run  *)
(* leaves the mode right (model.go:refreshAfterStateChange, "coherent with *)
(* the underlying engine state").                                          *)
ModeFollows ==
  AtPrompt /\ channel = 0 /\ ~behind /\ ~twoRuns => screen = DetermineMode

(* Every prompt starts at most one run ("dispatched exactly once",         *)
(* model.go:pendingCmd), and every call that may replace a run has had its *)
(* own gate armed by a /new before.                                        *)
StartsAsked == launched <= asked /\ forced <= armings

(* The terminal keeps up with the project, and starts what it was asked to. *)
TerminalFaithful == ModeFollows /\ StartsAsked
=============================================================================
