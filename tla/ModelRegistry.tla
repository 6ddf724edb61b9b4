--------------------------- MODULE ModelRegistry ---------------------------
(***************************************************************************)
(* The model registry, the processes that refresh it, and the engine that  *)
(* selects models from the table but answers requests from a copy of it    *)
(* taken at its start.                                                     *)
(*                                                                         *)
(* Every command opens the project and so loads the shipped models again,  *)
(* as far as the statements succeed; "models refresh" runs in a process of *)
(* its own and asks OpenRouter and the local server.  An entry is reduced  *)
(* to its tier, a number, and its price, which is also what OpenRouter's   *)
(* models are classified by.                                               *)
(***************************************************************************)
EXTENDS Naturals

CONSTANTS
  Ids, Tiers,       \* models, and tiers in the broker's order: 0 is local
  Family,           \* [Ids -> families]
  Shipped,          \* [a subset of Ids -> entries]: the embedded models.json
  Prices,           \* what OpenRouter may ask for a model
  LocalIds,         \* the models the local server may list
  MaxOpens,         \* bound: starts of processes and refreshes
  NoModel           \* no model, no attempt, no answer yet

Listed(table) == DOMAIN table

(* What the constants are. *)
ASSUME RegistryAssumption ==
  /\ Listed(Shipped) \subseteq Ids
  /\ \A id \in Listed(Shipped) : Shipped[id].tier \in Tiers
  /\ Tiers \subseteq Nat /\ 0..2 \subseteq Tiers /\ LocalIds \subseteq Ids /\ MaxOpens \in Nat

VARIABLES
  registry,   \* model_registry: a function from the known models to entries
  maps,       \* BrokerMaps: the engine's copy of it
  serving,    \* the engine runs
  attempt,    \* the model selected for the current attempt
  answer,     \* how the broker answered its last request
  refreshed,  \* the registry was refreshed since the engine started
  cut,        \* the engine's start could not load every shipped model, or copy the table
  opens       \* processes started and refreshes so far

regVars == <<registry, maps, serving, attempt, answer, refreshed, cut, opens>>

Entry(tier, price) == [tier |-> tier, price |-> price]

(* DB.UpsertModel for every entry of a table. *)
Upsert(new, old) ==
  [id \in Listed(new) \cup Listed(old) |-> IF id \in Listed(new) THEN new[id] ELSE old[id]]

NoModels == [id \in {} |-> NoModel]

RegInit ==
  /\ registry = NoModels /\ maps = NoModels
  /\ serving = FALSE /\ attempt = NoModel /\ answer = NoModel /\ refreshed = FALSE
  /\ cut = FALSE /\ opens = 0

CountOpen == opens < MaxOpens /\ opens' = opens + 1

(* The rows written before one fails, all of them if none does: App.Open only warns. *)
RefreshShipped(rows) == Upsert([id \in rows |-> Shipped[id]], registry)

(* Mutant: the copy is taken before the shipped models are loaded. *)
BrokerMapsEarly(rows) == registry

BrokerMaps(rows) == RefreshShipped(rows)

(* The engine's process: App.Open loads the shipped models, then copies the table, or *)
(* starts with no models when it cannot be read.                                      *)
OpenEngine ==
  /\ ~serving /\ CountOpen /\ serving' = TRUE
  /\ \E rows \in SUBSET Listed(Shipped), read \in BOOLEAN :
       /\ registry' = RefreshShipped(rows)
       /\ maps' = IF read THEN BrokerMaps(rows) ELSE NoModels
       /\ cut' = (rows # Listed(Shipped) \/ ~read)
  /\ refreshed' = FALSE /\ attempt' = NoModel /\ answer' = NoModel

CloseEngine ==
  serving /\ serving' = FALSE /\ UNCHANGED <<registry, maps, attempt, answer, refreshed, cut, opens>>

(* Any other command on the project, "models refresh" among them. *)
OpenOther ==
  /\ CountOpen /\ \E rows \in SUBSET Listed(Shipped) : registry' = RefreshShipped(rows)
  /\ UNCHANGED <<maps, serving, attempt, answer, refreshed, cut>>

ClassifyTier(price) == IF price = 0 THEN 0 ELSE IF price = 1 THEN 1 ELSE 2

(* Some of the entries may fail to be written; curated tiers win over the classified. *)
RefreshOpenRouter ==
  \E listed \in SUBSET (Ids \ LocalIds) : \E price \in [listed -> Prices] :
    registry' = Upsert([id \in listed |->
                          Entry(IF id \in Listed(Shipped) THEN Shipped[id].tier
                                ELSE ClassifyTier(price[id]), price[id])], registry)

RefreshBitNet ==
  \E listed \in SUBSET LocalIds :
    registry' = Upsert([id \in listed |-> Entry(0, 0)], registry)

(* The command's process has opened the project before, as OpenOther. *)
ModelsRefresh ==
  /\ CountOpen /\ (RefreshOpenRouter \/ RefreshBitNet) /\ refreshed' = TRUE
  /\ UNCHANGED <<maps, serving, attempt, answer, cut>>

(* Engine and reviewer selection: a model of the tier, of another family when there is one. *)
SelectModel(tier, exclude) ==
  LET models == {id \in Listed(registry) : registry[id].tier = tier}
      others == {id \in models : Family[id] # exclude}
  IN /\ serving /\ answer' = NoModel
     /\ \/ models = {} /\ attempt' = [id |-> NoModel, tier |-> tier]     \* "default/<tier>"
        \/ \E id \in IF others # {} THEN others ELSE models :
             attempt' = [id |-> id, tier |-> tier]
     /\ UNCHANGED <<registry, maps, serving, refreshed, cut, opens>>

TierAllowed(taskTier, modelTier) == modelTier <= taskTier

(* Broker.InferPrice serving to the price it charges. *)
InferPrice ==
  /\ serving /\ attempt # NoModel
  /\ answer' = IF attempt.id \in Listed(maps) /\ TierAllowed(attempt.tier, maps[attempt.id].tier)
               THEN [ok |-> TRUE, price |-> maps[attempt.id].price]
               ELSE [ok |-> FALSE, price |-> 0]
  /\ UNCHANGED <<registry, maps, serving, attempt, refreshed, cut, opens>>

RegNext ==
  \/ OpenEngine \/ CloseEngine \/ OpenOther \/ ModelsRefresh \/ InferPrice
  \/ \E tier \in Tiers : \E f \in {Family[id] : id \in Ids} \cup {NoModel} : SelectModel(tier, f)

RegSpec == RegInit /\ [][RegNext]_regVars

-----------------------------------------------------------------------------
IsTable(table) ==
  Listed(table) \subseteq Ids /\ \A id \in Listed(table) : table[id].tier \in Tiers

RegTypeOK ==
  /\ IsTable(registry) /\ IsTable(maps) /\ serving \in BOOLEAN
  /\ refreshed \in BOOLEAN /\ cut \in BOOLEAN
  /\ attempt # NoModel => attempt.id \in Ids \cup {NoModel} /\ attempt.tier \in Tiers
  /\ opens \in 0..MaxOpens

(* A model selected for an attempt is served by the same process's broker, at the price *)
(* the table has for it, whatever other commands open the project meanwhile.  Excused   *)
(* are a tier without models, a refresh by another process since the engine started     *)
(* (the broker keeps the copy of its start and refuses what came later), and a start    *)
(* whose load or copy of the table failed, which is only logged.                        *)
SelectedIsServed ==
  serving /\ answer # NoModel /\ ~refreshed /\ ~cut /\ attempt.id # NoModel =>
    answer = [ok |-> TRUE, price |-> registry[attempt.id].price]
=============================================================================
