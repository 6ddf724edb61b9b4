---------------------------- MODULE InferenceBroker ----------------------------
(***************************************************************************)
(* Model calls of running attempts: the monitor of an attempt takes one    *)
(* request at a time from its container and the broker checks, routes,     *)
(* meters and logs it.  Attempts of different tasks run at the same time   *)
(* and meet in the budget tracker, which lives in memory, the rate limiter *)
(* and the database.  Costs are whole numbers; a price is per token.       *)
(***************************************************************************)
EXTENDS Integers, FiniteSets, FiniteSetsExt, Functions

CONSTANTS
  Tasks,             \* tasks with a running attempt: its monitor sends one request at a time
  Models, Price,     \* registry: models and their prices, the same for prompt and completion
  Tier, TaskTier,    \* rank of a model; rank of the tasks; 0 is local
  TokenCap,          \* inference.token_cap_per_request
  Prompt, Endless,   \* bounds: tokens of a prompt, of an answer without a limit
  MaxUSD,            \* budget.max_usd
  MaxRequestsTask,   \* inference.max_requests_per_task
  MaxAttempts        \* bound on the attempts of a task

(* The models a task may use. *)
Affordable == {m \in Models : Tier[m] <= TaskTier}

(* What the constants are. *)
ASSUME BrokerAssumption ==
  /\ IsFiniteSet(Tasks) /\ Tasks # {}
  /\ IsFiniteSet(Models) /\ Affordable # {}
  /\ Price \in [Models -> Nat] /\ Tier \in [Models -> Nat] /\ TaskTier \in Nat
  /\ {TokenCap, Prompt, Endless, MaxUSD, MaxRequestsTask} \subseteq Nat
  /\ MaxAttempts \in Nat \ {0}

VARIABLES
  spent, counts,     \* memory: BudgetEnforcer.spent, RateLimiter.counts
  inflight,          \* task |-> the request its monitor waits for
  ledger,            \* cost_log: sum of the run
  attempted,         \* number of the latest attempt
  opening,           \* history: ledger when the process started
  unlogged, uncapped \* history: an insert into cost_log failed; a request had no max_tokens

brokerVars == <<spent, counts, inflight, ledger, attempted, opening, unlogged, uncapped>>

NoCall == [step |-> "idle"]

BrokerTypeOK ==
  /\ {spent, ledger, opening} \subseteq Nat
  /\ \A t \in Tasks : counts[t] \in 0..MaxRequestsTask /\ attempted[t] \in 1..MaxAttempts
  /\ {unlogged, uncapped} \subseteq BOOLEAN
  /\ \A t \in Tasks : inflight[t].step \in {"idle", "allow", "complete", "record", "log"}

BrokerInit ==
  /\ spent = 0 /\ counts = [t \in Tasks |-> 0]
  /\ inflight = [t \in Tasks |-> NoCall]
  /\ ledger = 0 /\ opening = 0 /\ unlogged = FALSE
  /\ attempted = [t \in Tasks |-> 1]
  /\ uncapped = FALSE

-----------------------------------------------------------------------------
LocalModels == {m \in Models : Tier[m] = 0}

(* A prompt that bears secrets goes to the first local model; then the     *)
(* tier of the model must not be above that of the task.                   *)
Route(m, secret) == IF secret THEN LocalModels ELSE {m}
RouteTier(secret) == IF secret THEN 0 ELSE TaskTier

AuthorizeAlone(tokens, m) == tokens * Price[m] <= MaxUSD

(* The most a completion can cost, by max_tokens; a request without a limit *)
(* is taken to cost nothing.                                                *)
Authorize(tokens, m) ==
  tokens * Price[m] = 0 \/ tokens * Price[m] <= MaxUSD - spent

(* A request that is refused is answered with an error. *)
Infer(t) ==
  /\ inflight[t].step = "idle"
  /\ \E m \in Models, tokens \in 0..TokenCap, secret \in BOOLEAN :
     \E routed \in Route(m, secret) :
       /\ Tier[routed] <= RouteTier(secret)
       /\ Authorize(tokens, routed)
       /\ inflight' = [inflight EXCEPT ![t] =
                         [step |-> "allow", model |-> routed, tokens |-> tokens]]
       /\ uncapped' = (uncapped \/ (tokens = 0 /\ Price[routed] # 0))
  /\ UNCHANGED <<spent, counts, ledger, attempted, opening, unlogged>>

End(t) == inflight' = [inflight EXCEPT ![t] = NoCall]
Go(t, step) == inflight' = [inflight EXCEPT ![t].step = step]

(* A refused request is not counted, one whose provider fails is. *)
Allow(t) ==
  /\ inflight[t].step = "allow"
  /\ IF counts[t] >= MaxRequestsTask
     THEN End(t) /\ UNCHANGED counts
     ELSE Go(t, "complete") /\ counts' = [counts EXCEPT ![t] = @ + 1]
  /\ UNCHANGED <<spent, ledger, attempted, opening, unlogged, uncapped>>

(* The provider reports the tokens of prompt and answer; without a limit in *)
(* the request it sets none.                                                *)
Complete(t) ==
  /\ inflight[t].step = "complete"
  /\ \E input \in 0..Prompt,
        output \in 0..(IF inflight[t].tokens = 0 THEN Endless ELSE inflight[t].tokens) :
       inflight' = [inflight EXCEPT ![t] =
                      [step |-> "record",
                       cost |-> (input + output) * Price[inflight[t].model]]]
  /\ UNCHANGED <<spent, counts, ledger, attempted, opening, unlogged, uncapped>>

(* No provider, or it fails: error and end of request. *)
ProviderFails(t) ==
  /\ inflight[t].step = "complete" /\ End(t)
  /\ UNCHANGED <<spent, counts, ledger, attempted, opening, unlogged, uncapped>>

RecordCapped(t) ==
  /\ inflight[t].step = "record" /\ Go(t, "log")
  /\ spent' = Max({spent, Min({MaxUSD, spent + inflight[t].cost})})
  /\ UNCHANGED <<counts, ledger, attempted, opening, unlogged, uncapped>>

Record(t) ==
  /\ inflight[t].step = "record" /\ Go(t, "log")
  /\ spent' = spent + inflight[t].cost
  /\ UNCHANGED <<counts, ledger, attempted, opening, unlogged, uncapped>>

(* An insert that fails is only reported. *)
LogCost(t) ==
  /\ inflight[t].step = "log" /\ End(t)
  /\ \/ ledger' = ledger + inflight[t].cost /\ UNCHANGED unlogged
     \/ unlogged' = TRUE /\ UNCHANGED ledger
  /\ UNCHANGED <<spent, counts, attempted, opening, uncapped>>

-----------------------------------------------------------------------------
(* A retry starts from nothing but the count of requests of its task. *)
Retry(t) ==
  /\ inflight[t].step = "idle" /\ attempted[t] < MaxAttempts
  /\ attempted' = [attempted EXCEPT ![t] = @ + 1]
  /\ UNCHANGED <<spent, counts, inflight, ledger, opening, unlogged, uncapped>>

(* What is in memory is lost; the budget tracker starts again from zero. *)
Restart ==
  /\ \A t \in Tasks : attempted[t] < MaxAttempts
  /\ spent' = 0 /\ counts' = [t \in Tasks |-> 0]
  /\ inflight' = [t \in Tasks |-> NoCall]
  /\ attempted' = [t \in Tasks |-> attempted[t] + 1]
  /\ opening' = ledger /\ unlogged' = FALSE /\ uncapped' = FALSE
  /\ UNCHANGED ledger

BrokerNext ==
  \/ \E t \in Tasks :
       \/ Infer(t) \/ Allow(t) \/ Complete(t) \/ ProviderFails(t)
       \/ Record(t) \/ LogCost(t) \/ Retry(t)
  \/ Restart

BrokerSpec == BrokerInit /\ [][BrokerNext]_brokerVars

-----------------------------------------------------------------------------
Dearest == Max({Price[m] : m \in Affordable})

(* ARCHITECTURE.md 21.3: the pre-authorization keeps the spending of one    *)
(* process under the ceiling, but for what it does not see: the requests of *)
(* the other monitors that are under way, and the prompts.  A request       *)
(* without max_tokens is not bounded by it at all (budget.go:Authorize).    *)
BudgetBound ==
  ~uncapped => spent <= MaxUSD + Dearest * ((Cardinality(Tasks) - 1) * TokenCap
                                              + Cardinality(Tasks) * Prompt)

(* The cost of a request between the two writes. *)
Unlogged ==
  [t \in Tasks |-> IF inflight[t].step = "log" THEN inflight[t].cost ELSE 0]

(* What the process has spent is in the cost log of the run, but for        *)
(* requests between the two writes, as long as no insert fails: the         *)
(* status of the run and the budget tracker agree until a restart.          *)
LedgerAgrees ==
  ~unlogged => ledger - opening + SumFunctionOnSet(Unlogged, Tasks) = spent
=============================================================================
