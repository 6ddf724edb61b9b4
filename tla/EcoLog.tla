-------------------------------- MODULE EcoLog --------------------------------
(***************************************************************************)
(* Engineering change orders: proposed for a run that is active or paused, *)
(* then approved, which writes a file named after the code of the order,   *)
(* or rejected.  Command lines and API handlers call at the same time; the *)
(* database statements and the file are steps of their own.                *)
(***************************************************************************)
EXTENDS Sequences, Naturals, FiniteSets

CONSTANTS
  EcoRuns,           \* runs of the project, one in flight at a time
  EcoClients,        \* commands and handlers at work at once
  NoOrder,           \* no order, no run
  MaxOrders          \* bound on the orders

VARIABLES
  current, executing,  \* the run in flight; it is active or paused
  log,               \* eco_log: run, code and status, by ID
  files,             \* .axiom/eco: code |-> ID of the order written there
  calls,             \* client |-> what it does
  clashed, lost      \* history: runs with overlapping proposals; orders whose file was
                     \* never written, the process died

ecoVars == <<current, executing, log, files, calls, clashed, lost>>

Orders == 1..MaxOrders
Free == [step |-> "idle"]

(* What the constants are. *)
ASSUME EcoAssumption == MaxOrders \in Nat /\ NoOrder \notin EcoRuns \cup Orders

EcoTypeOK ==
  /\ current \in EcoRuns \cup {NoOrder} /\ executing \in BOOLEAN
  /\ log \in Seq([run : EcoRuns, code : Orders,
                  status : {"proposed", "approved", "rejected"}])
  /\ files \in [Orders -> Orders \cup {NoOrder}]
  /\ \A c \in EcoClients : calls[c].step \in {"idle", "list", "create", "write"}
  /\ clashed \subseteq EcoRuns /\ lost \subseteq Orders

EcoInit ==
  /\ current = NoOrder /\ executing = FALSE
  /\ log = <<>> /\ files = [o \in Orders |-> NoOrder]
  /\ calls = [c \in EcoClients |-> Free]
  /\ clashed = {} /\ lost = {}

Call(c, r) == calls' = [calls EXCEPT ![c] = r]

-----------------------------------------------------------------------------
(* A run starts when none is in flight; it may be waiting for its SRS, or  *)
(* end, while a call that looked at it goes on.                            *)
RunMoves ==
  /\ \/ /\ current = NoOrder /\ current' \in EcoRuns
        /\ \A i \in DOMAIN log : log[i].run # current'
        /\ executing' = FALSE
     \/ /\ current # NoOrder /\ ~executing
        /\ executing' = TRUE /\ UNCHANGED current
     \/ /\ current # NoOrder
        /\ current' = NoOrder /\ executing' = FALSE
  /\ UNCHANGED <<log, files, calls, clashed, lost>>

ProposeECO(c) ==
  /\ calls[c].step = "idle" /\ current # NoOrder /\ executing
  /\ Call(c, [step |-> "list", run |-> current])
  /\ clashed' = IF \E d \in EcoClients : calls[d].step \in {"list", "create"}
                                           /\ calls[d].run = current
                THEN clashed \cup {current} ELSE clashed
  /\ UNCHANGED <<current, executing, log, files, lost>>

Count(r) == Cardinality({i \in DOMAIN log : log[i].run = r})

NumberOpenOrders(c) ==
  /\ calls[c].step = "list"
  /\ LET open == {i \in DOMAIN log : log[i].run = calls[c].run /\ log[i].status # "rejected"}
     IN  Call(c, [step |-> "create", run |-> calls[c].run, code |-> Cardinality(open) + 1])
  /\ UNCHANGED <<current, executing, log, files, clashed, lost>>

(* The code is the number of orders of the run, plus one. *)
NumberOrder(c) ==
  /\ calls[c].step = "list"
  /\ Call(c, [step |-> "create", run |-> calls[c].run, code |-> Count(calls[c].run) + 1])
  /\ UNCHANGED <<current, executing, log, files, clashed, lost>>

CreateECO(c) ==
  /\ calls[c].step = "create" /\ Len(log) < MaxOrders
  /\ log' = Append(log, [run |-> calls[c].run, code |-> calls[c].code, status |-> "proposed"])
  /\ Call(c, Free)
  /\ UNCHANGED <<current, executing, files, clashed, lost>>

-----------------------------------------------------------------------------
(* UpdateECOStatus moves a proposed order only. *)

ApproveAny(c) ==
  /\ calls[c].step = "idle"
  /\ \E i \in DOMAIN log :
       /\ log' = [log EXCEPT ![i].status = "approved"]
       /\ Call(c, [step |-> "write", order |-> i])
  /\ UNCHANGED <<current, executing, files, clashed, lost>>

ApproveECO(c) ==
  /\ calls[c].step = "idle"
  /\ \E i \in DOMAIN log :
       /\ log[i].status = "proposed"
       /\ log' = [log EXCEPT ![i].status = "approved"]
       /\ Call(c, [step |-> "write", order |-> i])
  /\ UNCHANGED <<current, executing, files, clashed, lost>>

(* The file is created or overwritten. *)
WriteECOFile(c) ==
  /\ calls[c].step = "write"
  /\ files' = [files EXCEPT ![log[calls[c].order].code] = calls[c].order]
  /\ Call(c, Free)
  /\ UNCHANGED <<current, executing, log, clashed, lost>>

RejectECO(c) ==
  /\ calls[c].step = "idle"
  /\ \E i \in DOMAIN log :
       log[i].status = "proposed" /\ log' = [log EXCEPT ![i].status = "rejected"]
  /\ UNCHANGED <<current, executing, files, calls, clashed, lost>>

Die(c) ==
  /\ calls[c].step # "idle" /\ Call(c, Free)
  /\ lost' = IF calls[c].step = "write" THEN lost \cup {calls[c].order} ELSE lost
  /\ UNCHANGED <<current, executing, log, files, clashed>>

EcoNext ==
  \/ RunMoves
  \/ \E c \in EcoClients :
       \/ ProposeECO(c) \/ NumberOrder(c) \/ CreateECO(c)
       \/ ApproveECO(c) \/ WriteECOFile(c) \/ RejectECO(c) \/ Die(c)

EcoSpec == EcoInit /\ [][EcoNext]_ecoVars

-----------------------------------------------------------------------------
(* Orders whose file is being written; other orders with the code of i. *)
Writing == {calls[c].order : c \in {d \in EcoClients : calls[d].step = "write"}}
Rivals(i) == {j \in DOMAIN log \ {i} :
                /\ log[j].code = log[i].code /\ log[j].status = "approved"
                /\ log[j].run # log[i].run \/ log[i].run \in clashed}

(* Every approved order is on file under its own code, and no file shows an *)
(* order that was not approved.  Two approved orders share a file when they *)
(* belong to two runs, or to one with overlapping proposals: the file shows *)
(* one of them then (eco.go:WriteECOFile, "never overwritten").             *)
OrdersOnFile ==
  /\ \A i \in DOMAIN log : log[i].status = "approved" /\ i \notin Writing \cup lost =>
       files[log[i].code] \in {i} \cup Rivals(i)
  /\ \A o \in Orders : files[o] # NoOrder =>
       log[files[o]].status = "approved" /\ log[files[o]].code = o
=============================================================================
