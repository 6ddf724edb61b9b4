------------------------------ MODULE RequestsInv ------------------------------
(* The inductive invariants of the modules that serve requests, which share  *)
(* no variable, and what two of them promise together.                       *)
EXTENDS InferenceBroker, ModelRegistry, PackageGraph, ControlApi, PromptPackaging, TaskCreation

-----------------------------------------------------------------------------
(* The broker: InferenceBroker.                                             *)

ModelRequest == [step : {"allow", "complete"}, model : Affordable, tokens : 0..TokenCap]
             \cup [step : {"record", "log"}, cost : Nat] \cup {NoCall}

BrokerTyped ==
  /\ spent \in Nat /\ uncapped \in BOOLEAN /\ inflight \in [Tasks -> ModelRequest]

(* The most a request under way will still add to what is spent: the prompt  *)
(* and the tokens it was authorized for, or what it has cost.                *)
Due(c) ==
  CASE c.step \in {"allow", "complete"} -> (Prompt + c.tokens) * Price[c.model]
    [] c.step = "record" -> c.cost
    [] OTHER -> 0
Owes(t) == Due(inflight[t])
Owing == {t \in Tasks : Owes(t) # 0}

Share == Dearest * (Prompt + TokenCap)
Bound == MaxUSD + Dearest * ((Cardinality(Tasks) - 1) * TokenCap + Cardinality(Tasks) * Prompt)

(* A request without max_tokens was let through because it costs nothing. *)
OwesShare ==
  \A t \in Tasks :
    /\ Owes(t) <= Share
    /\ inflight[t].step \in {"allow", "complete"} /\ inflight[t].tokens = 0 =>
         Price[inflight[t].model] = 0

(* There is room for a share of each request under way, or for what the one  *)
(* admitted last owes and a share of each of the others.                     *)
RoomForAll == spent + Cardinality(Owing) * Share <= Bound
RoomForLast ==
  \E t \in Owing : spent + Owes(t) + (Cardinality(Owing) - 1) * Share <= Bound

(* What a request has cost and is not on the ledger yet. *)
LedgerInv == ledger \in Nat /\ opening \in Nat /\ unlogged \in BOOLEAN /\ LedgerAgrees

(* Requests and attempts are counted within their limits. *)
CountsInv == counts \in [Tasks -> 0..MaxRequestsTask] /\ attempted \in [Tasks -> 1..MaxAttempts]

BudgetInv == BrokerTyped /\ (~uncapped => OwesShare /\ (RoomForAll \/ RoomForLast))

-----------------------------------------------------------------------------
(* The registry: ModelRegistry.                                             *)

Selected == attempt # NoModel /\ attempt.id # NoModel

(* While nobody refreshed the registry, the engine's copy is the table, the *)
(* shipped models are in it as they were shipped, and what was selected is  *)
(* in it with the tier it was selected for.                                 *)
CopyCurrent == maps = registry
ShippedIn ==
  \A id \in Listed(Shipped) : id \in Listed(registry) /\ registry[id] = Shipped[id]
SelectedListed ==
  Selected => attempt.id \in Listed(registry) /\ registry[attempt.id].tier = attempt.tier
AnswerDue ==
  answer # NoModel /\ Selected => answer = [ok |-> TRUE, price |-> registry[attempt.id].price]

RegInv ==
  /\ RegTypeOK
  /\ registry = [id \in Listed(registry) |-> registry[id]]
  /\ answer # NoModel => attempt # NoModel
  /\ serving /\ ~refreshed /\ ~cut => CopyCurrent /\ ShippedIn /\ SelectedListed /\ AnswerDue

-----------------------------------------------------------------------------
(* The package graph: PackageGraph.                                         *)

Current == GoFiles \ stale
InStep(steps) == rebuild.step \in steps
ToIndex(f) == InStep({"walk"}) \/ (InStep({"files"}) /\ f \in rebuild.todo)

GraphTyped ==
  /\ GraphTypeOK
  /\ source \in [GoFiles -> Contents \cup {NoRow}] /\ facts \in [GoFiles -> Contents \cup {NoRow}]
  /\ rebuild = [step |-> rebuild.step, found |-> rebuild.found, todo |-> rebuild.todo]
  /\ InStep({"rest"}) => rebuild = Resting
  /\ InStep({"walk", "files", "packages"}) => packages = {} /\ edges = {}
  /\ InStep({"edges"}) => \A f \in rebuild.found : Dir[f] \in packages

(* Of the files that did not change since the rebuild began, those that are *)
(* there were found, and each part of the index is that of the files as     *)
(* soon as its step is over.                                                *)
FoundCurrent ==
  InStep({"files", "packages", "edges"}) =>
    \A f \in Current : f \in rebuild.found <=> source[f] # NoRow
FactsCurrent ==
  \A f \in Current : facts[f] = IF ToIndex(f) THEN NoRow ELSE source[f]
ImplementsCurrent ==
  InStep({"packages", "edges", "rest"}) =>
    \A f, g \in Current : g \in implements[f] <=> Matches(g, f)
PackagesCurrent ==
  InStep({"edges", "rest"}) => \A f \in Current : source[f] # NoRow => Dir[f] \in packages

(* The edges of the files that are done with. *)
Drawn(p) ==
  {q \in packages \ {p} : \E f \in GoFiles \ rebuild.todo :
     Dir[f] = p /\ source[f] # NoRow /\ \E i \in source[f].imports : Named(i, q)}
EdgesCurrent ==
  InStep({"edges", "rest"}) => \A p \in packages : Fresh(p) => ListPackageDeps(p) = Drawn(p)

GraphInv ==
  /\ GraphTyped /\ FoundCurrent /\ FactsCurrent /\ ImplementsCurrent /\ PackagesCurrent
  /\ EdgesCurrent

-----------------------------------------------------------------------------
(* The API server: ControlApi.                                              *)

(* The requests the limiter counts are those let through in the last minute. *)
LimiterInv ==
  /\ now \in 0..MaxTime /\ standing \in [Tokens -> {"valid", "revoked", "expired"}]
  /\ buckets \in [Tokens -> Seq(Nat)] /\ passed \in [Tokens -> Seq(Nat)]
  /\ lastClean \in [Tokens -> Nat]
  /\ \A t \in Tokens :
       lastClean[t] <= now /\ passed[t] = InWindow(buckets[t], now) /\ Len(passed[t]) <= RPM

(* A socket remembers each key that came in, but for the one it is serving,  *)
(* and serves one at a time.                                                 *)
Serving == [step : {"dispatch", "set"}, key : ApiKeys, cache : SUBSET ApiKeys,
            came : SUBSET ApiKeys, lost : BOOLEAN]
SocketsTyped ==
  /\ conn = [c \in Conns |-> conn[c]]
  /\ \A c \in Conns :
       /\ conn[c].step \in {"closed", "auth", "rest", "open", "dispatch", "set"}
       /\ conn[c].step = "open" => conn[c].cache \subseteq ApiKeys /\ conn[c].came = conn[c].cache
       /\ conn[c].step \in {"dispatch", "set"} =>
            conn[c] \in Serving /\ conn[c].came = conn[c].cache \cup {conn[c].key}
       /\ conn[c].step = "dispatch" => conn[c].key \notin conn[c].cache

(* The sockets a key came in by are those it was executed for, and those    *)
(* about to execute it.                                                     *)
Dispatching(k) == {c \in Conns : conn[c].step = "dispatch" /\ conn[c].key = k}
SocketsInv ==
  /\ SocketsTyped
  /\ executed \in [ApiKeys -> 0..MaxEffects] /\ sent \in [ApiKeys -> 0..MaxEffects]
  /\ \A k \in ApiKeys : executed[k] + Cardinality(Dispatching(k)) = sent[k]

ControlInv == LimiterInv /\ SocketsInv

-----------------------------------------------------------------------------
(* What the models are shown: PromptPackaging.                              *)

Line == [secrets : Nat, order : BOOLEAN]
Reason == [why : Texts \cup {<<Plain>>}, twice : BOOLEAN]

(* What a retry is told is in its spec until the attempt ends. *)
PromptInv ==
  /\ PromptTypeOK
  /\ phase \in {"work", "review"} /\ ~blind /\ (\E i \in DOMAIN reasons : reasons[i] # NoText) =>
       BuildPromptBlock(<<"task_attempts">>, buildPriorFeedback) \in spec

-----------------------------------------------------------------------------
(* How tasks enter the database: TaskCreation.                              *)

(* What there is of each node of a graph comes before it in some order. *)
Grounded(nodes, needs) ==
  \A S \in SUBSET nodes : S # {} => \E t \in S : needs[t] \cap S = {}

Needs == [t \in DOMAIN tasks |-> tasks[t].dependsOn]
TasksTyped ==
  /\ IsFiniteSet(DOMAIN tasks)
  /\ \A t \in DOMAIN tasks :
       /\ tasks[t] = [run |-> tasks[t].run, dependsOn |-> tasks[t].dependsOn,
                      files |-> tasks[t].files, spec |-> tasks[t].spec]
       /\ tasks[t].run \in Runs
TasksGrounded ==
  ~careless => /\ \A t \in DOMAIN tasks : Needs[t] \subseteq DOMAIN tasks
               /\ Grounded(DOMAIN tasks, Needs)

CreationClient ==
  [pc : {"idle", "row", "files"}, run : Runs \cup {NoTask}, told : Nat, made : Nat,
   deaf : BOOLEAN]
ClientTyped(c) ==
  /\ client[c] \in CreationClient
  /\ client[c].told + client[c].made <= Len(Specs[c])
  /\ client[c].pc # "idle" =>
       client[c].run \in Runs /\ client[c].told + client[c].made < Len(Specs[c])
  /\ client[c].pc = "idle" /\ ~client[c].deaf => client[c].made = 0

(* The tasks of a client are numbered; as long as it hears the answers, it  *)
(* has those it was told of, and those of its request so far.               *)
Numbered(c) ==
  /\ Number(c) \in Nat
  /\ \A t \in DOMAIN tasks : t[1] = c <=> \E k \in 1..Number(c) : t = <<c, k>>
  /\ \A k \in 1..Number(c) : <<c, k>> \in DOMAIN tasks
InOrder(c) ==
  /\ Number(c) = client[c].told + client[c].made + (IF client[c].pc = "files" THEN 1 ELSE 0)
  /\ \A k \in 1..Number(c) : tasks[<<c, k>>].spec = k

ClientsInv ==
  /\ client = [c \in Clients |-> client[c]]
  /\ \A c \in Clients : ClientTyped(c) /\ Numbered(c) /\ (~client[c].deaf => InOrder(c))

CreationInv ==
  /\ active \in Runs \cup {NoTask}
  /\ serviceCalls \in 0..MaxCalls /\ insertFaults \in 0..MaxInsertFaults
  /\ runs \in 0..MaxRunChanges
  /\ TasksTyped /\ TasksGrounded /\ ClientsInv

-----------------------------------------------------------------------------
(* What is promised.                                                        *)

(* A model selected for an attempt is served at the price on file, and what *)
(* requests have cost is on the ledger of the run (models/registry.go,      *)
(* inference/broker.go).                                                    *)
ChargesAgree == LedgerAgrees /\ SelectedIsServed

(* What clients are promised: the control API bounds the requests of a      *)
(* token, and runs those of a key once per socket; batches leave tasks that *)
(* can be done in some order, and a client learns which of its own exist    *)
(* (api/ratelimit.go, api/websocket.go, task/service.go,                    *)
(* engine/task_control.go).                                                 *)
ClientsServed == WindowBound /\ OncePerSocket /\ Orderable /\ EachSpecOnce
=============================================================================
