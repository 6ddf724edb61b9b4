------------------------------ MODULE MCServices ------------------------------
(***************************************************************************)
(* Small instances, for TLC, of the merges and of the services around the  *)
(* scheduler and the attempts.  A behaviour explores one of them, the one  *)
(* named by focus, and leaves the variables of the others alone.           *)
(***************************************************************************)
EXTENDS MCMerge, MergeApplyInv

CONSTANTS
  p1, p2,            \* two of the actors that are alike: tasks, clients, goroutines, files ...
  f1, f2,            \* runs
  m1, m2, x, loc,    \* models
  tk, ro, q,         \* tokens, an idempotency key
  Focus              \* the services explored

VARIABLE focus

Two == {p1, p2}
TwoRuns == {f1, f2}
ThreeModels == {loc, m1, m2}
Symmetric == Permutations(Two)

ModelPrice == loc :> 0 @@ m1 :> 1 @@ m2 :> 2
ModelTier == loc :> 0 @@ m1 :> 1 @@ m2 :> 3
ModelFamily == m1 :> "a" @@ m2 :> "b" @@ x :> "a" @@ loc :> "falcon"
ShippedModels == m1 :> [tier |-> 1, price |-> 1] @@ m2 :> [tier |-> 1, price |-> 2]
                   @@ loc :> [tier |-> 0, price |-> 0]

FileDir == fa :> "." @@ fb :> "b" @@ fc :> "c"
C(imports, wants, has) == [imports |-> imports, wants |-> wants, has |-> has]
SomeContents ==
  {C({<<"full", "b">>}, {1}, {}), C({<<"full", "c">>, <<"full", ".">>}, {}, {1, 2}),
   C({<<"dir", ".">>}, {1, 2}, {1})}

Id(n) == <<"task", n>>
In(n, r, deps) == [id |-> Id(n), run |-> r, dependsOn |-> [i \in DOMAIN deps |-> Id(deps[i])]]
SomeInputs ==
  {In(1, f1, <<>>), In(1, f1, <<1>>), In(1, f1, <<2>>), In(2, f1, <<>>), In(2, f1, <<1>>),
   In(2, f1, <<3>>), In(2, f2, <<1>>), In(3, f1, <<>>), In(3, f1, <<1, 1>>), In(3, NoTask, <<>>)}

(* Of three tasks: a cycle, a task given twice, an order forwards, one backwards. *)
SomeBatches ==
  [1..1 -> SomeInputs] \cup [1..2 -> SomeInputs] \cup
  {<<In(1, f1, <<2>>), In(2, f1, <<3>>), In(3, f1, <<1>>)>>,
   <<In(1, f1, <<2>>), In(2, f1, <<1>>), In(2, f1, <<>>)>>,
   <<In(1, f1, <<2, 3>>), In(2, f1, <<3>>), In(3, f1, <<>>)>>,
   <<In(3, f1, <<>>), In(2, f1, <<3>>), In(1, f1, <<2>>)>>}
ClientSpecs == x :> <<{fa}, {}>>

L(secrets, order) == [secrets |-> secrets, order |-> order]
FilePath == fa :> <<"pkg", "a.go">> @@ fb :> <<"pkg", ".env">>
ProjectRoot == <<"", "home", "project">>
SomeTexts ==
  {<<L(0, FALSE)>>, <<L(1, FALSE), L(0, TRUE)>>, <<L(0, TRUE), L(1, FALSE), L(0, FALSE)>>}
SomeObjectives == {<<L(0, FALSE)>>, <<L(1, FALSE)>>}

-----------------------------------------------------------------------------
serviceVars == <<vars, ecoVars, feedVars, sessVars, termVars, indexVars>>
requestVars == <<brokerVars, controlVars, regVars, graphVars, creationVars, promptVars>>

(* The parts that are not explored stay as they are; the graph has one such  *)
(* state, not one for each tree of files.                                    *)
ServicesInit ==
  /\ focus \in Focus
  /\ Init /\ EcoInit /\ FeedInit /\ SessInit /\ TermInit /\ IndexInit
  /\ BrokerInit /\ ControlInit /\ RegInit /\ GraphInit /\ CreationInit /\ PromptInit
  /\ focus # "graph" => source = [f \in GoFiles |-> NoRow]
  /\ focus # "creation" => active = f1
  /\ focus # "packaging" => objective = <<L(0, FALSE)>>

ServicesNext ==
  \/ /\ focus = "merge" /\ Next
     /\ UNCHANGED <<focus, ecoVars, feedVars, sessVars, termVars, indexVars, requestVars>>
  \/ /\ focus = "eco" /\ EcoNext
     /\ UNCHANGED <<focus, vars, feedVars, sessVars, termVars, indexVars, requestVars>>
  \/ /\ focus = "feed" /\ FeedNext
     /\ UNCHANGED <<focus, vars, ecoVars, sessVars, termVars, indexVars, requestVars>>
  \/ /\ focus = "transcript" /\ SessNext
     /\ UNCHANGED <<focus, vars, ecoVars, feedVars, termVars, indexVars, requestVars>>
  \/ /\ focus = "terminal" /\ TermNext
     /\ UNCHANGED <<focus, vars, ecoVars, feedVars, sessVars, indexVars, requestVars>>
  \/ /\ focus = "index" /\ IndexNext
     /\ UNCHANGED <<focus, vars, ecoVars, feedVars, sessVars, termVars, requestVars>>
  \/ /\ focus = "broker" /\ BrokerNext
     /\ UNCHANGED <<focus, controlVars, regVars, graphVars, creationVars, promptVars, serviceVars>>
  \/ /\ focus = "control" /\ ControlNext
     /\ UNCHANGED <<focus, brokerVars, regVars, graphVars, creationVars, promptVars, serviceVars>>
  \/ /\ focus = "models" /\ RegNext
     /\ UNCHANGED <<focus, brokerVars, controlVars, graphVars, creationVars, promptVars, serviceVars>>
  \/ /\ focus = "graph" /\ GraphNext
     /\ UNCHANGED <<focus, brokerVars, controlVars, regVars, creationVars, promptVars, serviceVars>>
  \/ /\ focus = "creation" /\ CreationNext
     /\ UNCHANGED <<focus, brokerVars, controlVars, regVars, graphVars, promptVars, serviceVars>>
  \/ /\ focus = "packaging" /\ PromptNext
     /\ UNCHANGED <<focus, brokerVars, controlVars, regVars, graphVars, creationVars, serviceVars>>

ServicesSpec == ServicesInit /\ [][ServicesNext]_<<focus, serviceVars, requestVars>>
=============================================================================
