---------------------------- MODULE TaskCreation ----------------------------
(***************************************************************************)
(* How tasks enter the database: the transactions of the task service,     *)
(* which its tests alone call, and the create_task and create_task_batch   *)
(* requests of the control plane, which insert row by row.                 *)
(*                                                                         *)
(* The pragma that turns foreign keys on reaches one connection of the     *)
(* pool; whether the connection that serves a transaction is that one is a *)
(* choice (fk).  Ids of the control plane are fresh: <<client, number>>.   *)
(***************************************************************************)
EXTENDS Naturals, Sequences, FiniteSets, SequencesExt

CONSTANTS
  Runs,              \* runs, the active one among them or none
  Batches,           \* sequences of inputs [id, run, dependsOn] given to the service
  Clients, Specs,    \* clients of the control plane, the files of each task they want
  NoTask,            \* no run, no table, a circular dependency
  MaxCalls, MaxInsertFaults, MaxRunChanges   \* bounds

(* What the constants are.  The service's ids are none of the control plane's. *)
ASSUME CreationAssumption ==
  /\ \A batch \in Batches :
       /\ batch \in Seq(Range(batch))
       /\ \A in \in Range(batch) :
            /\ in.run \in Runs \cup {NoTask} /\ in.id[1] \notin Clients
            /\ in.dependsOn \in Seq(Range(in.dependsOn))
  /\ \A c \in Clients : Len(Specs[c]) \in Nat /\ \A i \in DOMAIN Specs[c] : IsFiniteSet(Specs[c][i])
  /\ {MaxCalls, MaxInsertFaults, MaxRunChanges} \subseteq Nat

VARIABLES
  tasks,             \* id |-> [run, dependsOn, files, spec]
  careless,          \* CreateTask was given a dependency that is not a task
  active,            \* the active run of the project
  client,            \* requests: [pc, run, told, made, deaf]
  serviceCalls, insertFaults, runs

creationVars == <<tasks, careless, active, client, serviceCalls, insertFaults, runs>>
plane == <<active, client, insertFaults, runs>>

IdleClient == [pc |-> "idle", run |-> NoTask, told |-> 0, made |-> 0, deaf |-> FALSE]

CreationTypeOK ==
  /\ \A t \in DOMAIN tasks : tasks[t].run \in Runs
  /\ active \in Runs \cup {NoTask}
  /\ \A c \in Clients :
       /\ client[c].pc \in {"idle", "row", "files"}
       /\ client[c].told + client[c].made \in 0..Len(Specs[c])
  /\ serviceCalls \in 0..MaxCalls /\ insertFaults \in 0..MaxInsertFaults
  /\ runs \in 0..MaxRunChanges

CreationInit ==
  /\ tasks = <<>> /\ careless = FALSE /\ active \in Runs
  /\ client = [c \in Clients |-> IdleClient] /\ serviceCalls = 0 /\ insertFaults = 0 /\ runs = 0

-----------------------------------------------------------------------------
(* task.Service *)

validateInput(in) == in.run # NoTask

WithRow(table, id, row) ==
  [t \in DOMAIN table \cup {id} |-> IF t \in DOMAIN table THEN table[t] ELSE row]

(* One row with its dependencies, inside a transaction: the table after it, *)
(* or NoTask.  A dependency is recorded once; rows refer to rows that are    *)
(* there, when foreign keys are on.                                         *)
InsertTask(table, in, fk) ==
  IF \/ table = NoTask
     \/ in.id \in DOMAIN table
     \/ ~IsInjective(in.dependsOn)
     \/ fk /\ ~(Range(in.dependsOn) \subseteq DOMAIN table \cup {in.id})
  THEN NoTask
  ELSE WithRow(table, in.id,
         [run |-> in.run, dependsOn |-> Range(in.dependsOn), files |-> {}, spec |-> 0])

CreateTask(in) ==
  /\ serviceCalls < MaxCalls /\ serviceCalls' = serviceCalls + 1
  /\ validateInput(in)
  /\ \E fk \in BOOLEAN :
       /\ tasks' = InsertTask(tasks, in, fk)
       /\ tasks' # NoTask
  /\ careless' = (careless \/ ~(Range(in.dependsOn) \subseteq DOMAIN tasks))
  /\ UNCHANGED plane

(* The last input of an id stands for it. *)
Adjacency(batch) ==
  [id \in {batch[i].id : i \in DOMAIN batch} |->
     LET last == CHOOSE i \in DOMAIN batch :
                   batch[i].id = id /\ \A j \in DOMAIN batch : batch[j].id = id => j <= i
     IN  batch[last].dependsOn]

(* Depth-first search from a node, deeper being that from the next ones:    *)
(* the colors after it, or NoTask once a gray node is met again.  What is   *)
(* outside the batch is not followed.                                       *)
Visit(adj, deeper, node, color) ==
  LET after[i \in 0..Len(adj[node])] ==
        IF i = 0 THEN [color EXCEPT ![node] = "gray"]
        ELSE LET c == after[i - 1]  dep == adj[node][i]
             IN  IF c = NoTask \/ dep \notin DOMAIN adj THEN c
                 ELSE IF c[dep] = "gray" THEN NoTask
                 ELSE IF c[dep] = "white" THEN deeper[dep][c] ELSE c
      last == after[Len(adj[node])]
  IN  IF last = NoTask THEN NoTask ELSE [last EXCEPT ![node] = "black"]

(* Each call colors a white node: no search is deeper than there are nodes. *)
dfs(adj) ==
  LET search[n \in 0..Cardinality(DOMAIN adj)] ==
        [node \in DOMAIN adj |-> [color \in [DOMAIN adj -> {"white", "gray", "black"}] |->
           IF n = 0 THEN NoTask ELSE Visit(adj, search[n - 1], node, color)]]
  IN  search[Cardinality(DOMAIN adj)]

detectCycle(batch) ==
  LET adj == Adjacency(batch)
      color[i \in 0..Len(batch)] ==
        IF i = 0 THEN [id \in DOMAIN adj |-> "white"]
        ELSE LET c == color[i - 1]
             IN  IF c = NoTask \/ c[batch[i].id] # "white" THEN c ELSE dfs(adj)[batch[i].id][c]
  IN  color[Len(batch)] = NoTask

KnownIds(batch) == DOMAIN Adjacency(batch) \cup DOMAIN tasks

(* Mutant: the tasks of a batch are only checked to be known. *)
validateKnownOnly(batch) ==
  \A i \in DOMAIN batch : Range(batch[i].dependsOn) \subseteq KnownIds(batch) \ {batch[i].id}

validateBatchDependencies(batch) ==
  /\ \A i \in DOMAIN batch : Range(batch[i].dependsOn) \subseteq KnownIds(batch) \ {batch[i].id}
  /\ ~detectCycle(batch)

CreateBatch(batch) ==
  /\ serviceCalls < MaxCalls /\ serviceCalls' = serviceCalls + 1
  /\ \A i \in DOMAIN batch : validateInput(batch[i])
  /\ validateBatchDependencies(batch)
  /\ \E fk \in BOOLEAN :
       LET table[i \in 0..Len(batch)] ==
             IF i = 0 THEN tasks ELSE InsertTask(table[i - 1], batch[i], fk)
       IN  tasks' = table[Len(batch)]
  /\ tasks' # NoTask
  /\ UNCHANGED <<careless, plane>>

-----------------------------------------------------------------------------
(* The control plane.  A client asks for the tasks it was not told of yet.  *)

(* The request decodes, or nothing is done; the active run is asked for once. *)
dispatchCreateTaskBatch(c) ==
  /\ client[c].pc = "idle" /\ ~client[c].deaf /\ client[c].told < Len(Specs[c])
  /\ active # NoTask
  /\ client' = [client EXCEPT ![c].pc = "row", ![c].run = active]
  /\ UNCHANGED <<tasks, careless, active, serviceCalls, insertFaults, runs>>

Number(c) == Cardinality({t \in DOMAIN tasks : t[1] = c})
CurrentSpec(c) == client[c].told + client[c].made + 1

(* The run has to exist; that it still is the active one is not asked. *)
CreateRow(c) ==
  /\ client[c].pc = "row"
  /\ tasks' = WithRow(tasks, <<c, Number(c) + 1>>,
       [run |-> client[c].run, dependsOn |-> {}, files |-> {}, spec |-> CurrentSpec(c)])
  /\ client' = [client EXCEPT ![c].pc = "files"]
  /\ UNCHANGED <<careless, active, serviceCalls, insertFaults, runs>>

(* Mutant: what was made for a request still counts for the next one. *)
ReplyKeepMade(c, told) == client' = [client EXCEPT ![c].pc = "idle", ![c].told = @ + told]

Reply(c, told) == client' = [client EXCEPT ![c].pc = "idle", ![c].told = @ + told, ![c].made = 0]

CreateRowFails(c) ==
  /\ client[c].pc = "row" /\ insertFaults < MaxInsertFaults /\ insertFaults' = insertFaults + 1
  /\ Reply(c, client[c].made)
  /\ UNCHANGED <<tasks, careless, active, serviceCalls, runs>>

(* A target file that cannot be recorded is logged and left out. *)
AddTargetFiles(c) ==
  /\ client[c].pc = "files"
  /\ LET files == Specs[c][CurrentSpec(c)]
     IN  \E kept \in SUBSET files :
           /\ insertFaults + Cardinality(files \ kept) <= MaxInsertFaults
           /\ insertFaults' = insertFaults + Cardinality(files \ kept)
           /\ tasks' = [tasks EXCEPT ![<<c, Number(c)>>].files = kept]
  /\ IF CurrentSpec(c) = Len(Specs[c])
       THEN Reply(c, client[c].made + 1)
       ELSE client' = [client EXCEPT ![c].pc = "row", ![c].made = @ + 1]
  /\ UNCHANGED <<careless, active, serviceCalls, runs>>

(* The socket closes, and the request goes on without anyone to answer. *)
Disconnect(c) ==
  /\ client[c].pc # "idle" /\ ~client[c].deaf
  /\ client' = [client EXCEPT ![c].deaf = TRUE]
  /\ UNCHANGED <<tasks, careless, active, serviceCalls, insertFaults, runs>>

CreationCrash ==
  /\ insertFaults < MaxInsertFaults /\ insertFaults' = insertFaults + 1
  /\ client' = [c \in Clients |->
       [client[c] EXCEPT !.pc = "idle", !.deaf = @ \/ client[c].pc # "idle"]]
  /\ UNCHANGED <<tasks, careless, active, serviceCalls, runs>>

(* A run ends, or another one starts. *)
ActiveRun ==
  /\ runs < MaxRunChanges /\ runs' = runs + 1
  /\ active' \in (Runs \cup {NoTask}) \ {active}
  /\ UNCHANGED <<tasks, careless, client, serviceCalls, insertFaults>>

CreationNext ==
  \/ \E batch \in Batches : CreateBatch(batch)
  \/ \E in \in UNION {Range(batch) : batch \in Batches} : CreateTask(in)
  \/ \E c \in Clients : \/ dispatchCreateTaskBatch(c) \/ CreateRow(c) \/ CreateRowFails(c)
                        \/ AddTargetFiles(c) \/ Disconnect(c)
  \/ CreationCrash \/ ActiveRun

CreationSpec == CreationInit /\ [][CreationNext]_creationVars

-----------------------------------------------------------------------------
(* Unless CreateTask was given a dependency that is not a task, every       *)
(* dependency is a task and the tasks can be done in some order, whatever   *)
(* batches came in whatever order, with foreign keys or without             *)
(* (task/service.go:CreateBatch).                                           *)
Orderable ==
  ~careless =>
    LET Layer[n \in 0..Cardinality(DOMAIN tasks)] ==
          IF n = 0 THEN {}
          ELSE {t \in DOMAIN tasks : tasks[t].dependsOn \subseteq Layer[n - 1]}
    IN  Layer[Cardinality(DOMAIN tasks)] = DOMAIN tasks

(* A client that got its replies and asks again for what they did not list  *)
(* has each of its tasks once, through inserts that fail half way through a *)
(* batch (engine/task_control.go:CreateTaskBatch, api/websocket.go).        *)
EachSpecOnce ==
  \A c \in Clients : client[c].pc = "idle" /\ ~client[c].deaf =>
    \A i \in DOMAIN Specs[c] :
      Cardinality({t \in DOMAIN tasks : t[1] = c /\ tasks[t].spec = i}) =
        IF i <= client[c].told THEN 1 ELSE 0
=============================================================================
