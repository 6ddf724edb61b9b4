---------------------------- MODULE Services_proofs ----------------------------
(***************************************************************************)
(* What holds of five services of the process, for every value of their    *)
(* constants: the orders of the ECO log and the files they are written to, *)
(* what subscribers of the event bus see, the transcripts of the sessions, *)
(* what the terminal shows and starts, and what the project index says of  *)
(* the files.                                                              *)
(***************************************************************************)
EXTENDS ServicesInv, TLAPS, FiniteSetTheorems, WellFoundedInduction

-----------------------------------------------------------------------------
(***************************************************************************)
(* THE ECO LOG.                                                            *)
(***************************************************************************)

(***************************************************************************)
(* The number of the orders of a run.                                      *)
(***************************************************************************)
OfRun(r) == {i \in DOMAIN log : log[i].run = r}

LEMMA CountKnown ==
  ASSUME EcoTyped, NEW r
  PROVE  IsFiniteSet(OfRun(r)) /\ Count(r) = Cardinality(OfRun(r)) /\ Count(r) \in 0..Len(log)
<1>1. Len(log) \in Nat /\ DOMAIN log = 1..Len(log)
  BY DEF EcoTyped, EcoTypeOK
<1>2. IsFiniteSet(DOMAIN log) /\ Cardinality(DOMAIN log) = Len(log)
  <2> DEFINE n == Len(log)
  <2>1. IsFiniteSet(1..n) /\ Cardinality(1..n) = IF 1 > n THEN 0 ELSE n - 1 + 1
    <3> HIDE DEF n
    <3>1. n \in Int
      BY <1>1 DEF n
    <3> QED
      BY <3>1, FS_Interval
  <2> QED
    BY <1>1, <2>1
<1>3. OfRun(r) \subseteq DOMAIN log
  BY DEF OfRun
<1>4. IsFiniteSet(OfRun(r)) /\ Cardinality(OfRun(r)) <= Len(log)
  BY <1>2, <1>3, FS_Subset
<1>5. Cardinality(OfRun(r)) \in Nat
  BY <1>4, FS_CardinalityType
<1> QED
  BY <1>1, <1>4, <1>5 DEF Count, OfRun

LEMMA CountSame ==
  ASSUME DOMAIN log' = DOMAIN log, \A i \in DOMAIN log : log'[i].run = log[i].run, NEW r
  PROVE  Count(r)' = Count(r)
<1>1. OfRun(r)' = OfRun(r)
  BY DEF OfRun
<1> QED
  BY <1>1 DEF Count, OfRun

LEMMA CountAppended ==
  ASSUME EcoTyped, NEW e, log' = Append(log, e), NEW r
  PROVE  Count(r)' = IF e.run = r THEN Count(r) + 1 ELSE Count(r)
<1> DEFINE n == Len(log) + 1
<1>1. /\ Len(log) \in Nat /\ DOMAIN log = 1..Len(log) /\ DOMAIN log' = 1..n
      /\ log'[n] = e /\ \A i \in DOMAIN log : log'[i] = log[i]
  BY DEF EcoTyped, EcoTypeOK
<1>2. n \notin OfRun(r)
  BY <1>1 DEF OfRun
<1>3. OfRun(r)' = IF e.run = r THEN OfRun(r) \cup {n} ELSE OfRun(r)
  BY <1>1 DEF OfRun
<1>4. Cardinality(OfRun(r) \cup {n}) = Cardinality(OfRun(r)) + 1
  BY <1>2, CountKnown, FS_AddElement
<1> QED
  BY <1>3, <1>4 DEF Count, OfRun

-----------------------------------------------------------------------------
(* What a step may do to the orders: add one, or move a proposed one.       *)
SameOrders ==
  /\ DOMAIN log' = DOMAIN log /\ Len(log') = Len(log)
  /\ \A i \in DOMAIN log : log'[i].run = log[i].run /\ log'[i].code = log[i].code

Judged(i, to) ==
  /\ i \in DOMAIN log /\ log[i].status = "proposed"
  /\ SameOrders /\ log'[i].status = to
  /\ \A j \in DOMAIN log \ {i} : log'[j] = log[j]

OrderRow == [run : EcoRuns, code : Orders, status : {"proposed", "approved", "rejected"}]

LEMMA LogRows ==
  ASSUME EcoTyped
  PROVE  /\ log \in Seq(OrderRow) /\ Len(log) \in Nat /\ DOMAIN log = 1..Len(log)
         /\ \A i \in DOMAIN log : log[i] \in OrderRow
<1>1. log \in Seq(OrderRow)
  BY DEF EcoTyped, EcoTypeOK, OrderRow
<1> QED
  BY <1>1

LEMMA StatusMoved ==
  ASSUME EcoTyped, NEW i \in DOMAIN log, NEW to \in {"approved", "rejected"},
         log[i].status = "proposed", log' = [log EXCEPT ![i].status = to]
  PROVE  Judged(i, to) /\ log' \in Seq(OrderRow)
<1>1. DOMAIN log' = DOMAIN log /\ Len(log') = Len(log)
  BY LogRows
<1>2. log'[i] = [log[i] EXCEPT !.status = to] /\ \A j \in DOMAIN log \ {i} : log'[j] = log[j]
  BY LogRows
<1>3. log[i] \in OrderRow
  BY LogRows
<1>4. /\ log'[i].run = log[i].run /\ log'[i].code = log[i].code /\ log'[i].status = to
      /\ log'[i] \in OrderRow
  BY <1>2, <1>3 DEF OrderRow
<1>5. Judged(i, to)
  BY <1>1, <1>2, <1>4 DEF Judged, SameOrders
<1>6. \A j \in DOMAIN log : log'[j] \in OrderRow
  BY <1>2, <1>4, LogRows
<1> QED
  BY <1>1, <1>5, <1>6, LogRows

LEMMA CallMade ==
  ASSUME EcoTyped, NEW c \in EcoClients, NEW r, Call(c, r)
  PROVE  calls'[c] = r /\ \A d \in EcoClients \ {c} : calls'[d] = calls[d]
BY DEF EcoTyped, Call

LEMMA CallParts ==
  ASSUME EcoTyped, NEW c \in EcoClients
  PROVE  /\ calls[c] \in CallTags
         /\ calls[c].step \in {"idle", "list", "create", "write"}
         /\ calls[c].step \in {"list", "create"} => calls[c].run \in EcoRuns
         /\ calls[c].step = "create" => calls[c].code \in 1..(Len(log) + 1)
BY DEF EcoTyped, CallTags, Free

-----------------------------------------------------------------------------
(***************************************************************************)
(* Types.                                                                  *)
(***************************************************************************)
LEMMA EcoTypedKept ==
  ASSUME EcoTyped, WritesApproved, [EcoNext]_ecoVars
  PROVE  EcoTyped'
<1> DEFINE Log == /\ log' \in Seq(OrderRow) /\ Len(log') \in Len(log)..MaxOrders
           Rest == /\ current' \in EcoRuns \cup {NoOrder} /\ executing' \in BOOLEAN
                   /\ files' \in [Orders -> Orders \cup {NoOrder}]
                   /\ clashed' \subseteq EcoRuns /\ lost' \subseteq Orders
           Typed(r) == /\ r \in CallTags
                       /\ r.step = "create" => r.code \in 1..(Len(log) + 1)
<1>1. /\ log \in Seq(OrderRow) /\ Len(log) \in Nat /\ Len(log) <= MaxOrders /\ MaxOrders \in Nat
      /\ calls \in [EcoClients -> CallTags] /\ current \in EcoRuns \cup {NoOrder}
      /\ executing \in BOOLEAN /\ files \in [Orders -> Orders \cup {NoOrder}]
      /\ clashed \subseteq EcoRuns /\ lost \subseteq Orders
  BY LogRows, EcoAssumption DEF EcoTyped, EcoTypeOK
<1>2. UNCHANGED log => Log
  BY <1>1
<1>3. \A i \in DOMAIN log : i \in Orders
  BY <1>1, LogRows DEF Orders
<1>4. ASSUME NEW c \in EcoClients, NEW r, Typed(r), Call(c, r), Log, Rest
      PROVE  EcoTyped'
  <2>1. \A d \in EcoClients : Typed(calls'[d])
    BY <1>4, CallMade, CallParts
  <2>2. calls' \in [EcoClients -> CallTags]
    BY <1>1, <1>4 DEF Call
  <2>3. \A d \in EcoClients : calls'[d].step \in {"idle", "list", "create", "write"}
    BY <2>1 DEF CallTags, Free
  <2>4. /\ Len(log') <= MaxOrders
        /\ \A d \in EcoClients : calls'[d].step = "create" => calls'[d].code \in 1..(Len(log') + 1)
    <3> HIDE DEF Rest
    <3> QED
      BY <1>1, <1>4, <2>1
  <2> QED
    BY <1>4, <2>2, <2>3, <2>4 DEF EcoTyped, EcoTypeOK, OrderRow
<1>5. ASSUME UNCHANGED calls, Log, Rest
      PROVE  EcoTyped'
  <2>1. \A d \in EcoClients : Typed(calls[d]) /\ calls[d].step \in {"idle", "list", "create", "write"}
    BY CallParts
  <2>2. /\ Len(log') <= MaxOrders
        /\ \A d \in EcoClients : calls[d].step = "create" => calls[d].code \in 1..(Len(log') + 1)
    <3> HIDE DEF Rest
    <3> QED
      BY <1>1, <1>5, <2>1
  <2> QED
    BY <1>1, <1>5, <2>1, <2>2 DEF EcoTyped, EcoTypeOK, OrderRow
<1>6. Typed(Free)
  BY DEF CallTags, Free
<1>7. CASE RunMoves
  BY <1>1, <1>2, <1>5, <1>7 DEF RunMoves
<1>8. ASSUME NEW c \in EcoClients, ProposeECO(c) PROVE EcoTyped'
  <2>1. Typed([step |-> "list", run |-> current]) /\ Rest
    BY <1>1, <1>8 DEF ProposeECO, CallTags
  <2> QED
    BY <1>2, <1>4, <1>8, <2>1 DEF ProposeECO
<1>9. ASSUME NEW c \in EcoClients, NumberOrder(c) PROVE EcoTyped'
  <2> DEFINE r == calls[c].run
  <2>1. r \in EcoRuns
    BY <1>9, CallParts DEF NumberOrder
  <2>2. Count(r) \in 0..Len(log)
    BY CountKnown
  <2>3. Typed([step |-> "create", run |-> r, code |-> Count(r) + 1])
    BY <1>1, <2>1, <2>2 DEF CallTags
  <2> QED
    BY <1>1, <1>2, <1>4, <1>9, <2>3 DEF NumberOrder
<1>10. ASSUME NEW c \in EcoClients, CreateECO(c) PROVE EcoTyped'
  <2> DEFINE e == [run |-> calls[c].run, code |-> calls[c].code, status |-> "proposed"]
  <2>1. e \in OrderRow
    BY <1>1, <1>10, CallParts DEF CreateECO, OrderRow, Orders
  <2>2. log' = Append(log, e)
    BY <1>10 DEF CreateECO
  <2>3. Log
    <3> HIDE DEF e
    <3> QED
      BY <1>1, <1>10, <2>1, <2>2 DEF CreateECO
  <2> QED
    BY <1>1, <1>4, <1>6, <1>10, <2>3 DEF CreateECO
<1>11. ASSUME NEW c \in EcoClients, ApproveECO(c) PROVE EcoTyped'
  <2>1. PICK i \in DOMAIN log : /\ log[i].status = "proposed"
                                /\ log' = [log EXCEPT ![i].status = "approved"]
                                /\ Call(c, [step |-> "write", order |-> i])
    BY <1>11 DEF ApproveECO
  <2>2. Log
    <3>1. Judged(i, "approved") /\ log' \in Seq(OrderRow)
      BY <2>1, StatusMoved
    <3> QED
      BY <1>1, <3>1 DEF Judged, SameOrders
  <2>3. Typed([step |-> "write", order |-> i])
    BY LogRows DEF CallTags
  <2> QED
    BY <1>1, <1>4, <1>11, <2>1, <2>2, <2>3 DEF ApproveECO
<1>12. ASSUME NEW c \in EcoClients, WriteECOFile(c) PROVE EcoTyped'
  <2>1. calls[c].order \in Orders
    BY <1>3, <1>12 DEF WriteECOFile, WritesApproved
  <2> QED
    BY <1>1, <1>2, <1>4, <1>6, <1>12, <2>1 DEF WriteECOFile
<1>13. ASSUME NEW c \in EcoClients, RejectECO(c) PROVE EcoTyped'
  <2>1. Log
    <3>1. PICK i \in DOMAIN log : log[i].status = "proposed" /\ log' = [log EXCEPT ![i].status = "rejected"]
      BY <1>13 DEF RejectECO
    <3>2. Judged(i, "rejected") /\ log' \in Seq(OrderRow)
      BY <3>1, StatusMoved
    <3> QED
      BY <1>1, <3>2 DEF Judged, SameOrders
  <2> QED
    BY <1>1, <1>5, <1>13, <2>1 DEF RejectECO
<1>14. ASSUME NEW c \in EcoClients, Die(c) PROVE EcoTyped'
  <2>1. lost' \subseteq Orders
    BY <1>1, <1>3, <1>14 DEF Die, WritesApproved
  <2> QED
    BY <1>1, <1>2, <1>4, <1>6, <1>14, <2>1 DEF Die
<1>15. CASE UNCHANGED ecoVars
  BY <1>1, <1>2, <1>5, <1>15 DEF ecoVars
<1> QED
  BY <1>7, <1>8, <1>9, <1>10, <1>11, <1>12, <1>13, <1>14, <1>15 DEF EcoNext

-----------------------------------------------------------------------------
(***************************************************************************)
(* The orders of a run whose proposals never overlapped.                   *)
(***************************************************************************)
(* A step in which no order is made and nobody else proposes. *)
LEMMA RunUntouched ==
  ASSUME EcoTyped, NEW r, RunInv(r), SameOrders,
         \A c \in EcoClients : Proposing(c, r)' => Proposing(c, r) /\ calls'[c] = calls[c]
  PROVE  RunInv(r)'
<1>1. Count(r)' = Count(r)
  BY CountSame DEF SameOrders
<1>2. OneProposal(r)'
  BY DEF RunInv, OneProposal
<1>3. CodesCounted(r)'
  <2>1. \A c \in EcoClients : calls'[c].step = "create" /\ calls'[c].run = r =>
          calls'[c].code = Count(r) + 1
    BY DEF RunInv, CodesCounted, Proposing
  <2>2. \A i \in DOMAIN log' : log'[i].run = r => log'[i].code <= Count(r)
    BY DEF RunInv, CodesCounted, SameOrders
  <2> QED
    BY <1>1, <2>1, <2>2 DEF CodesCounted
<1>4. CodesDiffer(r)'
  BY DEF RunInv, CodesDiffer, SameOrders
<1> QED
  BY <1>2, <1>3, <1>4 DEF RunInv

LEMMA OrderCreated ==
  ASSUME EcoTyped, NEW c \in EcoClients, CreateECO(c), NEW r, RunInv(r)
  PROVE  RunInv(r)'
<1> DEFINE e == [run |-> calls[c].run, code |-> calls[c].code, status |-> "proposed"]
           n == Len(log) + 1
<1>1. /\ log' = Append(log, e) /\ calls'[c] = Free
      /\ \A d \in EcoClients \ {c} : calls'[d] = calls[d]
  BY CallMade DEF CreateECO
<1>2. /\ Len(log) \in Nat /\ DOMAIN log = 1..Len(log) /\ DOMAIN log' = DOMAIN log \cup {n}
      /\ log'[n] = e /\ n \notin DOMAIN log /\ \A i \in DOMAIN log : log'[i] = log[i]
  BY <1>1, LogRows
<1>3. Count(r) \in Nat /\ Count(r)' = IF e.run = r THEN Count(r) + 1 ELSE Count(r)
  BY <1>1, CountKnown, CountAppended
<1>4. calls[c].step = "create" /\ (e.run = r => e.code = Count(r) + 1 /\ Proposing(c, r))
  BY DEF CreateECO, RunInv, CodesCounted, Proposing
<1>5. \A d \in EcoClients : Proposing(d, r)' => d # c /\ Proposing(d, r) /\ calls'[d] = calls[d]
  BY <1>1 DEF Proposing, Free
<1>6. OneProposal(r)'
  BY <1>5 DEF RunInv, OneProposal
<1>7. CodesCounted(r)'
  <2>1. \A i \in DOMAIN log' : log'[i].run = r => log'[i].code <= Count(r)'
    <3>1. \A i \in DOMAIN log : log[i].run = r => log[i].code \in Nat /\ log[i].code <= Count(r)
      BY LogRows DEF RunInv, CodesCounted, OrderRow, Orders
    <3> HIDE DEF e
    <3> QED
      BY <1>2, <1>3, <1>4, <3>1
  <2>2. \A d \in EcoClients : calls'[d].step = "create" /\ calls'[d].run = r =>
          calls'[d].code = Count(r)'  + 1
    <3> SUFFICES ASSUME NEW d \in EcoClients, calls'[d].step = "create", calls'[d].run = r
                 PROVE  calls'[d].code = Count(r)' + 1
      OBVIOUS
    <3>1. Proposing(d, r) /\ d # c /\ calls'[d] = calls[d]
      BY <1>5 DEF Proposing
    <3>2. e.run # r
      BY <1>4, <3>1 DEF RunInv, OneProposal
    <3> QED
      BY <1>3, <3>1, <3>2 DEF RunInv, CodesCounted
  <2> QED
    BY <2>1, <2>2 DEF CodesCounted
<1>8. CodesDiffer(r)'
  <2>1. \A i \in DOMAIN log : log[i].run = r /\ e.run = r => log[i].code # e.code
    <3>1. \A i \in DOMAIN log : log[i].run = r => log[i].code \in Nat /\ log[i].code <= Count(r)
      BY LogRows DEF RunInv, CodesCounted, OrderRow, Orders
    <3> HIDE DEF e
    <3> QED
      BY <1>3, <1>4, <3>1
  <2> HIDE DEF e
  <2> QED
    BY <1>2, <2>1 DEF RunInv, CodesDiffer
<1> QED
  BY <1>6, <1>7, <1>8 DEF RunInv

LEMMA RunsKept ==
  ASSUME EcoTyped, [EcoNext]_ecoVars, NEW r \in EcoRuns \ clashed', r \notin clashed => RunInv(r)
  PROVE  RunInv(r)'
<1>1. RunInv(r)
  BY DEF EcoNext, ecoVars, RunMoves, ProposeECO, NumberOrder, CreateECO, ApproveECO, WriteECOFile, RejectECO, Die
<1>2. UNCHANGED log => SameOrders
  BY DEF SameOrders
<1>3. CASE RunMoves \/ UNCHANGED ecoVars
  BY <1>1, <1>2, <1>3, RunUntouched DEF RunMoves, ecoVars, Proposing
<1>4. ASSUME NEW c \in EcoClients, ProposeECO(c) PROVE RunInv(r)'
  <2>1. CASE current # r
    <3>1. \A d \in EcoClients : Proposing(d, r)' => Proposing(d, r) /\ calls'[d] = calls[d]
      BY <1>4, <2>1, CallMade DEF ProposeECO, Proposing
    <3> QED
      BY <1>1, <1>2, <1>4, <3>1, RunUntouched DEF ProposeECO
  <2>2. CASE current = r
    <3>1. \A d \in EcoClients : ~Proposing(d, r)
      BY <1>4, <2>2 DEF ProposeECO, Proposing
    <3>2. calls'[c] = [step |-> "list", run |-> r] /\ \A d \in EcoClients : d # c => calls'[d] = calls[d]
      BY <1>4, <2>2, CallMade DEF ProposeECO
    <3>3. OneProposal(r)'
      BY <3>1, <3>2 DEF OneProposal, Proposing
    <3>4. \A d \in EcoClients : ~(calls'[d].step = "create" /\ calls'[d].run = r)
      BY <3>1, <3>2 DEF Proposing
    <3>5. UNCHANGED log /\ Count(r)' = Count(r)
      BY <1>4, CountSame DEF ProposeECO
    <3> QED
      BY <1>1, <3>3, <3>4, <3>5 DEF RunInv, CodesCounted, CodesDiffer
  <2> QED
    BY <2>1, <2>2
<1>5. ASSUME NEW c \in EcoClients, NumberOrder(c) PROVE RunInv(r)'
  <2> DEFINE s == calls[c].run
  <2>1. /\ calls'[c] = [step |-> "create", run |-> s, code |-> Count(s) + 1]
        /\ \A d \in EcoClients : d # c => calls'[d] = calls[d]
    BY <1>5, CallMade DEF NumberOrder
  <2>2. \A d \in EcoClients : Proposing(d, r)' => Proposing(d, r)
    BY <1>5, <2>1 DEF Proposing, NumberOrder
  <2>3. OneProposal(r)'
    BY <1>1, <2>2 DEF OneProposal, RunInv
  <2>4. UNCHANGED log /\ Count(r)' = Count(r)
    BY <1>5, CountSame DEF NumberOrder
  <2>5. \A d \in EcoClients : calls'[d].step = "create" /\ calls'[d].run = r =>
          calls'[d].code = Count(r) + 1
    BY <1>1, <2>1 DEF RunInv, CodesCounted
  <2> QED
    BY <1>1, <2>3, <2>4, <2>5 DEF RunInv, CodesCounted, CodesDiffer
<1>6. ASSUME NEW c \in EcoClients, CreateECO(c) PROVE RunInv(r)'
  BY <1>1, <1>6, OrderCreated
<1>7. ASSUME NEW c \in EcoClients, WriteECOFile(c) \/ Die(c) PROVE RunInv(r)'
  <2>1. \A d \in EcoClients : Proposing(d, r)' => Proposing(d, r) /\ calls'[d] = calls[d]
    BY <1>7, CallMade DEF WriteECOFile, Die, Proposing, Free
  <2> QED
    BY <1>1, <1>2, <1>7, <2>1, RunUntouched DEF WriteECOFile, Die
<1>8. ASSUME NEW c \in EcoClients, ApproveECO(c) PROVE RunInv(r)'
  <2>1. PICK i \in DOMAIN log : /\ log[i].status = "proposed"
                                /\ log' = [log EXCEPT ![i].status = "approved"]
                                /\ Call(c, [step |-> "write", order |-> i])
    BY <1>8 DEF ApproveECO
  <2>2. SameOrders
    BY <2>1, StatusMoved DEF Judged
  <2>3. \A d \in EcoClients : Proposing(d, r)' => Proposing(d, r) /\ calls'[d] = calls[d]
    BY <2>1, CallMade DEF Proposing
  <2> QED
    BY <1>1, <2>2, <2>3, RunUntouched
<1>9. ASSUME NEW c \in EcoClients, RejectECO(c) PROVE RunInv(r)'
  <2>1. PICK i \in DOMAIN log : log[i].status = "proposed" /\ log' = [log EXCEPT ![i].status = "rejected"]
    BY <1>9 DEF RejectECO
  <2>2. SameOrders
    BY <2>1, StatusMoved DEF Judged
  <2> QED
    BY <1>1, <1>9, <2>2, RunUntouched DEF RejectECO, Proposing
<1> QED
  BY <1>3, <1>4, <1>5, <1>6, <1>7, <1>8, <1>9 DEF EcoNext

-----------------------------------------------------------------------------
(***************************************************************************)
(* The files.                                                              *)
(***************************************************************************)
Approved(i) == i \in DOMAIN log /\ log[i].status = "approved"

(* Orders come and are judged; what is approved is then being written.      *)
OrdersStay ==
  /\ DOMAIN log \subseteq DOMAIN log'
  /\ \A i \in DOMAIN log : log'[i].run = log[i].run /\ log'[i].code = log[i].code
  /\ \A i \in DOMAIN log : Approved(i) => Approved(i)'
  /\ \A i \in DOMAIN log' : Approved(i)' => Approved(i) \/ i \in Writing'

(* A step that writes no file. *)
LEMMA FilesUntouched ==
  ASSUME OrdersStay, UNCHANGED files, Writing \subseteq Writing' \cup lost', lost \subseteq lost',
         clashed \subseteq clashed', FilesShow, OrdersOnFile
  PROVE  FilesShow' /\ OrdersOnFile'
<1>1. FilesShow'
  BY DEF FilesShow, OrdersStay
<1>2. \A i \in DOMAIN log : Rivals(i) \subseteq Rivals(i)'
  BY DEF Rivals, OrdersStay, Approved
<1>3. ASSUME NEW i \in DOMAIN log', log'[i].status = "approved", i \notin Writing' \cup lost'
      PROVE  files'[log'[i].code] \in {i} \cup Rivals(i)'
  <2>1. Approved(i) /\ i \notin Writing \cup lost
    BY <1>3 DEF OrdersStay, Approved
  <2>2. files[log[i].code] \in {i} \cup Rivals(i)
    BY <2>1 DEF OrdersOnFile, Approved
  <2> QED
    BY <1>2, <2>1, <2>2 DEF OrdersStay, Approved
<1>4. ASSUME NEW o \in Orders, files'[o] # NoOrder
      PROVE  log'[files'[o]].status = "approved" /\ log'[files'[o]].code = o
  <2>1. files[o] \in DOMAIN log /\ log[files[o]].status = "approved" /\ log[files[o]].code = o
    BY <1>4 DEF FilesShow, OrdersOnFile
  <2> QED
    BY <2>1 DEF OrdersStay, Approved
<1> QED
  BY <1>1, <1>3, <1>4 DEF OrdersOnFile

LEMMA OrderWritten ==
  ASSUME EcoTyped, WritesApproved, FilesShow, OrdersOnFile,
         \A r \in EcoRuns \ clashed : CodesDiffer(r), NEW c \in EcoClients, WriteECOFile(c)
  PROVE  FilesShow' /\ OrdersOnFile'
<1> DEFINE k == calls[c].order
<1>1. /\ Approved(k) /\ log[k].code \in Orders /\ files' = [files EXCEPT ![log[k].code] = k]
      /\ UNCHANGED <<log, clashed, lost>>
  BY LogRows DEF WriteECOFile, WritesApproved, Approved, OrderRow
<1>2. files \in [Orders -> Orders \cup {NoOrder}]
  BY DEF EcoTyped, EcoTypeOK
<1>3. /\ files'[log[k].code] = k
      /\ \A o \in Orders : o # log[k].code => files'[o] = files[o]
  BY <1>1, <1>2
<1>4. \A i : i \in Writing => i = k \/ i \in Writing'
  <2>1. \A d \in EcoClients : d # c => calls'[d] = calls[d]
    BY CallMade DEF WriteECOFile
  <2> QED
    BY <2>1 DEF Writing
<1> HIDE DEF k
<1>5. FilesShow'
  BY <1>1, <1>3 DEF FilesShow, Approved
<1>6. ASSUME NEW i \in DOMAIN log, log[i].status = "approved", i \notin Writing' \cup lost
      PROVE  files'[log[i].code] \in {i} \cup Rivals(i)
  <2>1. log[i].code \in Orders /\ log[i].run \in EcoRuns
    BY LogRows DEF OrderRow
  <2>2. CASE log[i].code = log[k].code
    <3>1. k = i \/ log[k].run # log[i].run \/ log[i].run \in clashed
      BY <1>1, <2>1, <2>2 DEF CodesDiffer, Approved
    <3> QED
      BY <1>1, <1>3, <2>2, <3>1 DEF Rivals, Approved
  <2>3. CASE log[i].code # log[k].code
    <3>1. i \notin Writing
      BY <1>4, <1>6, <2>3
    <3> QED
      BY <1>3, <1>6, <2>1, <2>3, <3>1 DEF OrdersOnFile
  <2> QED
    BY <2>2, <2>3
<1>7. \A i \in DOMAIN log : Rivals(i)' = Rivals(i)
  BY <1>1 DEF Rivals
<1>8. ASSUME NEW o \in Orders, files'[o] # NoOrder
      PROVE  log[files'[o]].status = "approved" /\ log[files'[o]].code = o
  BY <1>1, <1>3, <1>8 DEF OrdersOnFile, Approved
<1> QED
  BY <1>1, <1>5, <1>6, <1>7, <1>8 DEF OrdersOnFile

LEMMA WritesKept ==
  ASSUME EcoTyped, WritesApproved, [EcoNext]_ecoVars
  PROVE  WritesApproved' /\ OrdersStay
<1> DEFINE Still(c) == calls'[c].step = "write" =>
                         \/ calls[c].step = "write" /\ calls'[c].order = calls[c].order
                         \/ /\ calls'[c].order \in DOMAIN log'
                            /\ log'[calls'[c].order].status = "approved"
<1>1. ASSUME OrdersStay, \A c \in EcoClients : Still(c)
      PROVE  WritesApproved'
  <2> SUFFICES ASSUME NEW c \in EcoClients, calls'[c].step = "write"
               PROVE  /\ calls'[c].order \in DOMAIN log'
                      /\ log'[calls'[c].order].status = "approved"
    BY DEF WritesApproved
  <2>1. CASE calls[c].step = "write" /\ calls'[c].order = calls[c].order
    <3>1. Approved(calls[c].order)
      BY <2>1 DEF WritesApproved, Approved
    <3> QED
      BY <1>1, <2>1, <3>1 DEF OrdersStay, Approved
  <2> QED
    BY <1>1, <2>1
<1>2. UNCHANGED log => OrdersStay
  BY DEF OrdersStay, Approved
<1>3. CASE UNCHANGED <<log, calls>>
  BY <1>1, <1>2, <1>3
<1>4. ASSUME NEW c \in EcoClients, NEW r, r.step # "write", Call(c, r), OrdersStay
      PROVE  WritesApproved'
  <2>1. \A d \in EcoClients : Still(d)
    BY <1>4, CallMade
  <2> QED
    BY <1>1, <1>4, <2>1
<1>5. ASSUME NEW c \in EcoClients, CreateECO(c) PROVE OrdersStay
  <2> DEFINE e == [run |-> calls[c].run, code |-> calls[c].code, status |-> "proposed"]
             n == Len(log) + 1
  <2>1. /\ DOMAIN log' = DOMAIN log \cup {n} /\ log'[n] = e /\ n \notin DOMAIN log
        /\ \A i \in DOMAIN log : log'[i] = log[i]
    BY <1>5, LogRows DEF CreateECO
  <2> QED
    BY <2>1 DEF OrdersStay, Approved
<1>6. ASSUME NEW c \in EcoClients, ApproveECO(c) PROVE WritesApproved' /\ OrdersStay
  <2>1. PICK i \in DOMAIN log : /\ log[i].status = "proposed"
                                /\ log' = [log EXCEPT ![i].status = "approved"]
                                /\ Call(c, [step |-> "write", order |-> i])
    BY <1>6 DEF ApproveECO
  <2>2. Judged(i, "approved")
    BY <2>1, StatusMoved
  <2>3. calls'[c] = [step |-> "write", order |-> i] /\ \A d \in EcoClients : d # c => calls'[d] = calls[d]
    BY <2>1, CallMade
  <2>4. i \in Writing'
    BY <2>3 DEF Writing
  <2>5. OrdersStay
    BY <2>2, <2>4 DEF OrdersStay, Judged, SameOrders, Approved
  <2>6. \A d \in EcoClients : Still(d)
    <3>1. i \in DOMAIN log' /\ log'[i].status = "approved"
      BY <2>2 DEF Judged, SameOrders
    <3> QED
      BY <2>3, <3>1
  <2> QED
    BY <1>1, <2>5, <2>6
<1>7. ASSUME NEW c \in EcoClients, RejectECO(c) PROVE WritesApproved' /\ OrdersStay
  <2>1. PICK i \in DOMAIN log : log[i].status = "proposed" /\ log' = [log EXCEPT ![i].status = "rejected"]
    BY <1>7 DEF RejectECO
  <2>2. Judged(i, "rejected")
    BY <2>1, StatusMoved
  <2>3. OrdersStay
    BY <2>2 DEF OrdersStay, Judged, SameOrders, Approved
  <2> QED
    BY <1>1, <1>7, <2>3 DEF RejectECO
<1>8. ASSUME NEW c \in EcoClients,
             ProposeECO(c) \/ NumberOrder(c) \/ CreateECO(c) \/ WriteECOFile(c) \/ Die(c)
      PROVE  WritesApproved' /\ OrdersStay
  <2>1. OrdersStay
    BY <1>2, <1>5, <1>8 DEF ProposeECO, NumberOrder, WriteECOFile, Die
  <2>2. \E r : r.step # "write" /\ Call(c, r)
    BY <1>8 DEF ProposeECO, NumberOrder, CreateECO, WriteECOFile, Die, Free
  <2> QED
    BY <1>4, <2>1, <2>2
<1> QED
  BY <1>2, <1>3, <1>6, <1>7, <1>8 DEF EcoNext, RunMoves, ecoVars

-----------------------------------------------------------------------------
(***************************************************************************)
(* The orders of the ECO log are on file.                                  *)
(***************************************************************************)
LEMMA EcoStarts ==
  ASSUME EcoInit
  PROVE  EcoInv
<1>1. log = <<>> /\ DOMAIN log = {} /\ Len(log) = 0
  BY DEF EcoInit
<1>2. \A c \in EcoClients : calls[c] = Free /\ calls[c].step = "idle"
  BY DEF EcoInit, Free
<1>3. EcoTypeOK
  <2>1. log \in Seq(OrderRow)
    BY <1>1
  <2>2. files \in [Orders -> Orders \cup {NoOrder}]
    BY DEF EcoInit
  <2> QED
    BY <1>2, <2>1, <2>2 DEF EcoInit, EcoTypeOK, OrderRow
<1>4. calls \in [EcoClients -> CallTags]
  BY DEF EcoInit, CallTags
<1>5. EcoTyped
  BY <1>1, <1>2, <1>3, <1>4, EcoAssumption DEF EcoTyped
<1>6. ASSUME NEW r PROVE RunInv(r)
  BY <1>1, <1>2 DEF RunInv, OneProposal, CodesCounted, CodesDiffer, Proposing
<1>7. WritesApproved
  BY <1>2 DEF WritesApproved
<1>8. FilesShow /\ OrdersOnFile
  BY <1>1 DEF EcoInit, FilesShow, OrdersOnFile
<1> QED
  BY <1>5, <1>6, <1>7, <1>8 DEF EcoInv

LEMMA WritingGoesOn ==
  ASSUME EcoTyped, [EcoNext]_ecoVars, \A c \in EcoClients : ~WriteECOFile(c)
  PROVE  Writing \subseteq Writing' \cup lost'
<1> SUFFICES ASSUME NEW d \in EcoClients, calls[d].step = "write"
             PROVE  calls[d].order \in Writing' \cup lost'
  BY DEF Writing
<1>1. CASE UNCHANGED calls
  BY <1>1 DEF Writing
<1>2. ASSUME NEW c \in EcoClients, NEW r, Call(c, r), c # d
      PROVE  calls[d].order \in Writing'
  BY <1>2, CallMade DEF Writing
<1>3. CASE Die(d)
  BY <1>3 DEF Die
<1>4. ASSUME NEW c \in EcoClients,
             ProposeECO(c) \/ NumberOrder(c) \/ CreateECO(c) \/ ApproveECO(c) \/ Die(c), ~Die(d)
      PROVE  calls[d].order \in Writing'
  <2>1. c # d
    BY <1>4 DEF ProposeECO, NumberOrder, CreateECO, ApproveECO
  <2>2. \E r : Call(c, r)
    BY <1>4 DEF ProposeECO, NumberOrder, CreateECO, ApproveECO, Die
  <2> QED
    BY <1>2, <2>1, <2>2
<1> QED
  BY <1>1, <1>3, <1>4 DEF EcoNext, RunMoves, RejectECO, ecoVars

LEMMA EcoKept ==
  ASSUME EcoInv, [EcoNext]_ecoVars
  PROVE  EcoInv'
<1>1. EcoTyped /\ WritesApproved /\ FilesShow /\ OrdersOnFile
  BY DEF EcoInv
<1>2. EcoTyped'
  BY <1>1, EcoTypedKept
<1>3. WritesApproved' /\ OrdersStay
  BY <1>1, WritesKept
<1>4. \A r \in EcoRuns \ clashed' : RunInv(r)'
  <2> SUFFICES ASSUME NEW r \in EcoRuns \ clashed' PROVE RunInv(r)'
    OBVIOUS
  <2>1. r \notin clashed => RunInv(r)
    BY DEF EcoInv
  <2> QED
    BY <1>1, <2>1, RunsKept
<1>5. FilesShow' /\ OrdersOnFile'
  <2>1. ASSUME NEW c \in EcoClients, WriteECOFile(c) PROVE FilesShow' /\ OrdersOnFile'
    <3>1. \A r \in EcoRuns \ clashed : CodesDiffer(r)
      BY DEF EcoInv, RunInv
    <3> QED
      BY <1>1, <2>1, <3>1, OrderWritten
  <2>2. CASE \A c \in EcoClients : ~WriteECOFile(c)
    <3>1. UNCHANGED files /\ lost \subseteq lost' /\ clashed \subseteq clashed'
      BY <2>2 DEF EcoNext, ecoVars, RunMoves, ProposeECO, NumberOrder, CreateECO, ApproveECO, RejectECO, Die
    <3>2. Writing \subseteq Writing' \cup lost'
      BY <1>1, <2>2, WritingGoesOn
    <3> QED
      BY <1>1, <1>3, <3>1, <3>2, FilesUntouched
  <2> QED
    BY <2>1, <2>2
<1> QED
  BY <1>2, <1>3, <1>4, <1>5 DEF EcoInv

LEMMA EcoAlways == EcoSpec => []EcoInv
<1>1. EcoInit => EcoInv
  BY EcoStarts
<1>2. EcoInv /\ [EcoNext]_ecoVars => EcoInv'
  BY EcoKept
<1> QED
  BY <1>1, <1>2, PTL DEF EcoSpec

(* An approved order is on file under its own code once it was written, and *)
(* no file shows an order that was not approved; only orders of two runs,   *)
(* or of a run with overlapping proposals, ever share a file.               *)
THEOREM OrdersCorrect == EcoSpec => []OrdersOnFile
<1>1. EcoInv => OrdersOnFile
  BY DEF EcoInv
<1> QED
  BY <1>1, EcoAlways, PTL

LEMMA EcoTypes == EcoSpec => []EcoTypeOK
<1>1. EcoInv => EcoTypeOK
  BY DEF EcoInv, EcoTyped
<1> QED
  BY <1>1, EcoAlways, PTL

-----------------------------------------------------------------------------
(***************************************************************************)
(* THE EVENT BUS.                                                          *)
(***************************************************************************)

(***************************************************************************)
(* Types.                                                                  *)
(***************************************************************************)
LEMMA FeedParts ==
  ASSUME FeedTyped
  PROVE  /\ Len(chans) \in Nat /\ DOMAIN chans = 1..Len(chans)
         /\ Len(events) \in Nat /\ DOMAIN events = 1..Len(events)
         /\ \A k \in DOMAIN events : events[k] \in Event
         /\ \A c \in DOMAIN chans : chans[c] \in Channel
         /\ \A p \in Publishers : pubs[p] \in Emission /\ emitted[p] \in Nat
BY DEF FeedTyped

LEMMA ChannelParts ==
  ASSUME NEW ch \in Channel
  PROVE  /\ ch.id \in Nat /\ ch.from \in Nat /\ ch.unread \in Nat /\ ch.got \in Seq(Event)
         /\ Len(ch.got) \in Nat /\ DOMAIN ch.got = 1..Len(ch.got)
         /\ \A j \in DOMAIN ch.got : ch.got[j] \in Event
BY DEF Channel

LEMMA EventAdded ==
  ASSUME NEW s \in Seq(Event), NEW e \in Event
  PROVE  /\ Append(s, e) \in Seq(Event) /\ Len(Append(s, e)) = Len(s) + 1
         /\ DOMAIN Append(s, e) = DOMAIN s \cup {Len(s) + 1} /\ Len(s) + 1 \notin DOMAIN s
         /\ \A k \in DOMAIN s : Append(s, e)[k] = s[k]
         /\ Append(s, e)[Len(s) + 1] = e
OBVIOUS

LEMMA PublisherMoved ==
  ASSUME FeedTyped, NEW p \in Publishers, NEW r \in Emission, Becomes(p, r)
  PROVE  /\ pubs' \in [Publishers -> Emission] /\ pubs'[p] = r
         /\ \A q \in Publishers \ {p} : pubs'[q] = pubs[q]
BY DEF FeedTyped, Becomes

LEMMA EmissionKinds ==
  ASSUME NEW r \in Emission
  PROVE  /\ r.step \in {"idle", "persist", "ready", "fan"}
         /\ r.step # "idle" => r.ev \in Event
         /\ r.step = "fan" => r.left \in SUBSET Nat
BY DEF Emission, Idle

LEMMA FeedTypedKept ==
  ASSUME FeedTyped, \A p \in Publishers : OnItsWay(p), [FeedNext]_feedVars
  PROVE  FeedTyped'
<1>1. /\ events \in Seq(Event) /\ nextID \in Nat /\ chans \in Seq(Channel)
      /\ DOMAIN subs \subseteq Nat /\ subs \in [DOMAIN subs -> DOMAIN chans]
      /\ pubs \in [Publishers -> Emission] /\ emitted \in [Publishers -> Nat]
  BY DEF FeedTyped
<1>2. CASE Subscribe
  <2> DEFINE ch == [id |-> nextID, open |-> TRUE, from |-> Len(events),
                    got |-> <<>>, unread |-> 0, dropped |-> FALSE]
  <2>1. /\ chans' = Append(chans, ch) /\ nextID' = nextID + 1 /\ UNCHANGED <<events, pubs, emitted>>
        /\ subs' = [i \in DOMAIN subs \cup {nextID} |->
                      IF i = nextID THEN Len(chans) + 1 ELSE subs[i]]
    BY <1>2 DEF Subscribe, SubscribeAs
  <2>2. ch \in Channel
    BY <1>1, FeedParts DEF Channel
  <2> HIDE DEF ch
  <2>3. chans' \in Seq(Channel) /\ DOMAIN chans' = 1..(Len(chans) + 1) /\ nextID' \in Nat
    BY <1>1, <2>1, <2>2, FeedParts
  <2>4. DOMAIN subs' \subseteq Nat /\ subs' \in [DOMAIN subs' -> DOMAIN chans']
    BY <1>1, <2>1, <2>3, FeedParts
  <2> QED
    BY <1>1, <2>1, <2>3, <2>4 DEF FeedTyped
<1>3. ASSUME NEW c \in DOMAIN chans, NEW ch \in Channel, chans' = [chans EXCEPT ![c] = ch]
      PROVE  chans' \in Seq(Channel) /\ DOMAIN chans' = DOMAIN chans
  BY <1>1, <1>3
<1>4. ASSUME NEW c \in DOMAIN chans, Unsubscribe(c)
      PROVE  FeedTyped'
  <2>1. [[chans[c] EXCEPT !.open = FALSE] EXCEPT !.unread = 0] \in Channel
    BY FeedParts DEF Channel
  <2>2. chans' = [chans EXCEPT ![c] = [[chans[c] EXCEPT !.open = FALSE] EXCEPT !.unread = 0]]
    BY <1>1, <1>4 DEF Unsubscribe
  <2>3. chans' \in Seq(Channel) /\ DOMAIN chans' = DOMAIN chans
    BY <1>3, <2>1, <2>2
  <2>4. DOMAIN subs' \subseteq Nat /\ subs' \in [DOMAIN subs' -> DOMAIN chans']
    BY <1>1, <1>4, <2>3 DEF Unsubscribe
  <2> QED
    BY <1>1, <1>4, <2>3, <2>4 DEF Unsubscribe, FeedTyped
<1>5. ASSUME NEW c \in DOMAIN chans, Read(c)
      PROVE  FeedTyped'
  <2> chans[c] \in Channel /\ chans[c].unread \in Nat /\ chans[c].unread > 0
    BY <1>5, FeedParts, ChannelParts DEF Read
  <2>1. [chans[c] EXCEPT !.unread = @ - 1] \in Channel
    <3>1. chans[c].unread - 1 \in Nat
      OBVIOUS
    <3> QED
      BY <3>1 DEF Channel
  <2>2. chans' = [chans EXCEPT ![c] = [chans[c] EXCEPT !.unread = @ - 1]]
    BY <1>1, <1>5 DEF Read
  <2>3. chans' \in Seq(Channel) /\ DOMAIN chans' = DOMAIN chans
    BY <1>3, <2>1, <2>2
  <2> QED
    BY <1>1, <1>5, <2>3 DEF Read, FeedTyped
<1>6. ASSUME NEW p \in Publishers, Publish(p)
      PROVE  FeedTyped'
  <2>1. PICK kept \in BOOLEAN :
          Becomes(p, [step |-> IF kept THEN "persist" ELSE "ready",
                      ev |-> [by |-> p, n |-> emitted'[p], kept |-> kept]])
    BY <1>6 DEF Publish
  <2>2. emitted' = [emitted EXCEPT ![p] = @ + 1] /\ UNCHANGED <<events, subs, nextID, chans>>
    BY <1>6 DEF Publish
  <2>3. emitted' \in [Publishers -> Nat] /\ emitted'[p] \in Nat
    BY <1>1, <2>2
  <2>4. [step |-> IF kept THEN "persist" ELSE "ready",
         ev |-> [by |-> p, n |-> emitted'[p], kept |-> kept]] \in Emission
    BY <2>3 DEF Emission, Event
  <2>5. pubs' \in [Publishers -> Emission]
    BY <2>1, <2>4, PublisherMoved
  <2> QED
    BY <1>1, <2>2, <2>3, <2>5 DEF FeedTyped
<1>7. ASSUME NEW p \in Publishers, Persist(p)
      PROVE  FeedTyped'
  <2>1. pubs[p] \in Emission /\ pubs[p].ev \in Event
    BY <1>1, <1>7, EmissionKinds DEF Persist
  <2>2. events' \in Seq(Event)
    <3>1. events' = Append(events, pubs[p].ev) \/ events' = events
      BY <1>7 DEF Persist
    <3>2. Append(events, pubs[p].ev) \in Seq(Event)
      BY <1>1, <2>1, EventAdded
    <3> QED
      BY <1>1, <3>1, <3>2
  <2>3. Idle \in Emission /\ [pubs[p] EXCEPT !.step = "ready"] \in Emission
    BY <1>7, <2>1 DEF Emission, Idle, Persist
  <2>4. pubs' \in [Publishers -> Emission]
    BY <1>7, <2>3, PublisherMoved DEF Persist
  <2> QED
    BY <1>1, <1>7, <2>2, <2>4 DEF FeedTyped, Persist
<1>8. ASSUME NEW p \in Publishers, FanOut(p)
      PROVE  FeedTyped'
  <2>1. pubs[p].ev \in Event
    BY <1>1, <1>8, EmissionKinds DEF FanOut
  <2>2. [step |-> "fan", ev |-> pubs[p].ev, left |-> DOMAIN subs] \in Emission
    BY <1>1, <2>1 DEF Emission
  <2>3. pubs' \in [Publishers -> Emission]
    BY <1>8, <2>2, PublisherMoved DEF FanOut
  <2> QED
    BY <1>1, <1>8, <2>3 DEF FeedTyped, FanOut
<1>9. ASSUME NEW p \in Publishers, Send(p)
      PROVE  FeedTyped'
  <2>1. /\ pubs[p] \in Emission /\ pubs[p].step = "fan" /\ pubs[p].ev \in Event
        /\ pubs[p].left \in SUBSET Nat /\ pubs[p].left \subseteq DOMAIN subs
    BY <1>1, <1>9, EmissionKinds DEF Send, OnItsWay
  <2>2. PICK i \in pubs[p].left :
          /\ chans' = IF chans[subs[i]].unread < Buffer
                      THEN [chans EXCEPT ![subs[i]].got = Append(@, pubs[p].ev),
                                         ![subs[i]].unread = @ + 1]
                      ELSE [chans EXCEPT ![subs[i]].dropped = TRUE]
          /\ Becomes(p, [pubs[p] EXCEPT !.left = @ \ {i}])
    BY <1>9 DEF Send
  <2> DEFINE c == subs[i]
             took == [[chans[c] EXCEPT !.got = Append(@, pubs[p].ev)] EXCEPT !.unread = @ + 1]
             missed == [chans[c] EXCEPT !.dropped = TRUE]
  <2>3. c \in DOMAIN chans /\ chans[c] \in Channel
    BY <1>1, <2>1, <2>2, FeedParts
  <2>4. took \in Channel /\ missed \in Channel
    <3>1. Append(chans[c].got, pubs[p].ev) \in Seq(Event) /\ chans[c].unread + 1 \in Nat
      BY <2>1, <2>3, ChannelParts, EventAdded
    <3>2. took = [[chans[c] EXCEPT !.got = Append(chans[c].got, pubs[p].ev)]
                    EXCEPT !.unread = chans[c].unread + 1]
      BY <2>3 DEF Channel
    <3>3. took \in Channel
      BY <2>3, <3>1, <3>2 DEF Channel
    <3>4. missed \in Channel
      BY <2>3 DEF Channel
    <3> QED
      BY <3>3, <3>4
  <2>5. chans' = [chans EXCEPT ![c] = took] \/ chans' = [chans EXCEPT ![c] = missed]
    BY <1>1, <2>2, <2>3
  <2> HIDE DEF took, missed
  <2>6. chans' \in Seq(Channel) /\ DOMAIN chans' = DOMAIN chans
    BY <1>3, <2>3, <2>4, <2>5
  <2>7. [pubs[p] EXCEPT !.left = @ \ {i}] \in Emission
    BY <2>1 DEF Emission, Idle
  <2>8. pubs' \in [Publishers -> Emission]
    BY <2>2, <2>7, PublisherMoved
  <2> QED
    BY <1>1, <1>9, <2>6, <2>8 DEF FeedTyped, Send
<1>10. ASSUME NEW p \in Publishers, FanOutEnds(p)
       PROVE  FeedTyped'
  <2>1. Idle \in Emission
    BY DEF Emission
  <2>2. pubs' \in [Publishers -> Emission]
    BY <1>10, <2>1, PublisherMoved DEF FanOutEnds
  <2> QED
    BY <1>1, <1>10, <2>2 DEF FeedTyped, FanOutEnds
<1>11. CASE UNCHANGED feedVars
  BY <1>1, <1>11 DEF feedVars, FeedTyped
<1> QED
  BY <1>2, <1>4, <1>5, <1>6, <1>7, <1>8, <1>9, <1>10, <1>11 DEF FeedNext

-----------------------------------------------------------------------------
(***************************************************************************)
(* What the operations on the subscriptions do to the channels, and the    *)
(* steps of a fan-out to the other publishers.                             *)
(***************************************************************************)
LEMMA SubscribeAdds ==
  ASSUME FeedTyped, Subscribe
  PROVE  /\ DOMAIN chans' = DOMAIN chans \cup {Len(chans) + 1} /\ Len(chans) + 1 \notin DOMAIN chans
         /\ \A c \in DOMAIN chans : chans'[c] = chans[c]
         /\ chans'[Len(chans) + 1] = [id |-> nextID, open |-> TRUE, from |-> Len(events),
                                      got |-> <<>>, unread |-> 0, dropped |-> FALSE]
         /\ nextID' = nextID + 1 /\ nextID \in Nat /\ UNCHANGED <<events, pubs, emitted>>
         /\ DOMAIN subs' = DOMAIN subs \cup {nextID} /\ subs'[nextID] = Len(chans) + 1
         /\ \A i \in DOMAIN subs \ {nextID} : subs'[i] = subs[i]
<1> DEFINE ch == [id |-> nextID, open |-> TRUE, from |-> Len(events),
                  got |-> <<>>, unread |-> 0, dropped |-> FALSE]
<1>1. chans' = Append(chans, ch)
  BY DEF Subscribe, SubscribeAs
<1> HIDE DEF ch
<1>2. chans \in Seq(Channel) /\ nextID \in Nat
  BY DEF FeedTyped
<1>3. /\ DOMAIN chans' = DOMAIN chans \cup {Len(chans) + 1} /\ Len(chans) + 1 \notin DOMAIN chans
      /\ \A c \in DOMAIN chans : chans'[c] = chans[c]
      /\ chans'[Len(chans) + 1] = ch
  BY <1>1, <1>2
<1> QED
  BY <1>2, <1>3 DEF Subscribe, SubscribeAs, ch

LEMMA UnsubscribeCloses ==
  ASSUME FeedTyped, NEW c \in DOMAIN chans, Unsubscribe(c)
  PROVE  /\ DOMAIN chans' = DOMAIN chans /\ \A d \in DOMAIN chans \ {c} : chans'[d] = chans[d]
         /\ chans'[c].id = chans[c].id /\ chans'[c].got = chans[c].got /\ ~chans'[c].open
         /\ UNCHANGED <<events, nextID, pubs, emitted>>
         /\ DOMAIN subs' = DOMAIN subs \ {chans[c].id}
         /\ \A i \in DOMAIN subs' : subs'[i] = subs[i]
<1>1. chans \in Seq(Channel) /\ chans[c] \in Channel
  BY FeedParts DEF FeedTyped
<1> DEFINE ch == [[chans[c] EXCEPT !.open = FALSE] EXCEPT !.unread = 0]
<1>2. chans' = [chans EXCEPT ![c] = ch]
  BY <1>1 DEF Unsubscribe
<1>3. ch.id = chans[c].id /\ ch.got = chans[c].got /\ ~ch.open
  BY <1>1 DEF Channel
<1> HIDE DEF ch
<1> QED
  BY <1>1, <1>2, <1>3 DEF Unsubscribe

LEMMA ReadTakes ==
  ASSUME FeedTyped, NEW c \in DOMAIN chans, Read(c)
  PROVE  /\ DOMAIN chans' = DOMAIN chans /\ \A d \in DOMAIN chans \ {c} : chans'[d] = chans[d]
         /\ chans'[c].id = chans[c].id /\ chans'[c].got = chans[c].got
         /\ chans'[c].open = chans[c].open /\ chans'[c].from = chans[c].from
         /\ chans'[c].dropped = chans[c].dropped
         /\ UNCHANGED <<events, subs, nextID, pubs, emitted>>
<1>1. chans \in Seq(Channel) /\ chans[c] \in Channel
  BY FeedParts DEF FeedTyped
<1> DEFINE ch == [chans[c] EXCEPT !.unread = @ - 1]
<1>2. chans' = [chans EXCEPT ![c] = ch]
  BY <1>1 DEF Read
<1>3. /\ ch.id = chans[c].id /\ ch.got = chans[c].got
      /\ ch.open = chans[c].open /\ ch.from = chans[c].from /\ ch.dropped = chans[c].dropped
  BY <1>1 DEF Channel
<1> HIDE DEF ch
<1> QED
  BY <1>1, <1>2, <1>3 DEF Read

LEMMA SendReaches ==
  ASSUME FeedTyped, NEW p \in Publishers, OnItsWay(p), Send(p)
  PROVE  \E i \in pubs[p].left, c \in DOMAIN chans :
           /\ i \in DOMAIN subs /\ subs[i] = c
           /\ DOMAIN chans' = DOMAIN chans /\ \A d \in DOMAIN chans \ {c} : chans'[d] = chans[d]
           /\ chans'[c].id = chans[c].id /\ chans'[c].open = chans[c].open
           /\ chans'[c].from = chans[c].from
           /\ \/ /\ chans'[c].got = Append(chans[c].got, pubs[p].ev)
                 /\ chans'[c].dropped = chans[c].dropped
              \/ chans'[c].got = chans[c].got /\ chans'[c].dropped
           /\ pubs[p].step = "fan" /\ pubs'[p].step = "fan" /\ pubs'[p].ev = pubs[p].ev
           /\ pubs'[p].left = pubs[p].left \ {i}
           /\ \A q \in Publishers \ {p} : pubs'[q] = pubs[q]
           /\ UNCHANGED <<events, subs, nextID, emitted>>
<1>1. PICK i \in pubs[p].left :
        /\ chans' = IF chans[subs[i]].unread < Buffer
                    THEN [chans EXCEPT ![subs[i]].got = Append(@, pubs[p].ev),
                                       ![subs[i]].unread = @ + 1]
                    ELSE [chans EXCEPT ![subs[i]].dropped = TRUE]
        /\ Becomes(p, [pubs[p] EXCEPT !.left = @ \ {i}])
  BY DEF Send
<1> DEFINE c == subs[i]
           took == [[chans[c] EXCEPT !.got = Append(@, pubs[p].ev)] EXCEPT !.unread = @ + 1]
           missed == [chans[c] EXCEPT !.dropped = TRUE]
<1>2. /\ pubs[p] \in Emission /\ pubs[p].step = "fan" /\ pubs[p].ev \in Event
      /\ pubs[p].left \in SUBSET Nat /\ pubs[p].left \subseteq DOMAIN subs
  BY FeedParts, EmissionKinds DEF Send, OnItsWay
<1>3. i \in DOMAIN subs /\ c \in DOMAIN chans /\ chans[c] \in Channel /\ chans \in Seq(Channel)
  BY <1>1, <1>2, FeedParts DEF FeedTyped
<1>4. chans' = [chans EXCEPT ![c] = took] \/ chans' = [chans EXCEPT ![c] = missed]
  BY <1>1, <1>3
<1>5. /\ took.id = chans[c].id /\ took.open = chans[c].open /\ took.from = chans[c].from
      /\ took.got = Append(chans[c].got, pubs[p].ev) /\ took.dropped = chans[c].dropped
  BY <1>3 DEF Channel
<1>6. /\ missed.id = chans[c].id /\ missed.open = chans[c].open /\ missed.from = chans[c].from
      /\ missed.got = chans[c].got /\ missed.dropped
  BY <1>3 DEF Channel
<1> HIDE DEF took, missed
<1>7. /\ DOMAIN chans' = DOMAIN chans /\ \A d \in DOMAIN chans \ {c} : chans'[d] = chans[d]
      /\ chans'[c] \in {took, missed}
  BY <1>3, <1>4
<1>8. /\ pubs'[p] = [pubs[p] EXCEPT !.left = @ \ {i}]
      /\ \A q \in Publishers \ {p} : pubs'[q] = pubs[q]
  BY <1>1 DEF Becomes, FeedTyped
<1>9. pubs'[p].step = "fan" /\ pubs'[p].ev = pubs[p].ev /\ pubs'[p].left = pubs[p].left \ {i}
  BY <1>2, <1>8 DEF Emission, Idle
<1>10. UNCHANGED <<events, subs, nextID, emitted>>
  BY DEF Send
<1>11. /\ chans'[c].id = chans[c].id /\ chans'[c].open = chans[c].open
       /\ chans'[c].from = chans[c].from
       /\ \/ /\ chans'[c].got = Append(chans[c].got, pubs[p].ev)
             /\ chans'[c].dropped = chans[c].dropped
          \/ chans'[c].got = chans[c].got /\ chans'[c].dropped
  BY <1>5, <1>6, <1>7
<1>12. i \in DOMAIN subs /\ subs[i] = c /\ i \in pubs[p].left /\ c \in DOMAIN chans
  BY <1>1, <1>3
<1> HIDE DEF c
<1> QED
  BY <1>2, <1>7, <1>8, <1>9, <1>10, <1>11, <1>12

(* What the other steps of a publisher do. *)
LEMMA PublishBegins ==
  ASSUME FeedTyped, NEW p \in Publishers, Publish(p)
  PROVE  /\ pubs[p].step = "idle" /\ emitted'[p] = emitted[p] + 1
         /\ \A q \in Publishers \ {p} : pubs'[q] = pubs[q] /\ emitted'[q] = emitted[q]
         /\ pubs'[p].ev.by = p /\ pubs'[p].ev.n = emitted'[p]
         /\ \/ pubs'[p].step = "persist" /\ pubs'[p].ev.kept
            \/ pubs'[p].step = "ready" /\ ~pubs'[p].ev.kept
         /\ UNCHANGED <<events, subs, nextID, chans>>
<1>1. PICK kept \in BOOLEAN :
        Becomes(p, [step |-> IF kept THEN "persist" ELSE "ready",
                    ev |-> [by |-> p, n |-> emitted'[p], kept |-> kept]])
  BY DEF Publish
<1>2. /\ pubs'[p] = [step |-> IF kept THEN "persist" ELSE "ready",
                     ev |-> [by |-> p, n |-> emitted'[p], kept |-> kept]]
      /\ \A q \in Publishers \ {p} : pubs'[q] = pubs[q]
  BY <1>1 DEF Becomes, FeedTyped
<1>3. /\ pubs[p].step = "idle" /\ emitted' = [emitted EXCEPT ![p] = @ + 1]
      /\ UNCHANGED <<events, subs, nextID, chans>>
  BY DEF Publish
<1>4. /\ emitted'[p] = emitted[p] + 1
      /\ \A q \in Publishers \ {p} : emitted'[q] = emitted[q]
  BY <1>3 DEF FeedTyped
<1> QED
  BY <1>2, <1>3, <1>4

LEMMA PersistWrites ==
  ASSUME FeedTyped, NEW p \in Publishers, Persist(p)
  PROVE  /\ pubs[p].step = "persist" /\ UNCHANGED <<subs, nextID, chans, emitted>>
         /\ \A q \in Publishers \ {p} : pubs'[q] = pubs[q]
         /\ \/ /\ DOMAIN events' = DOMAIN events \cup {Len(events) + 1}
               /\ Len(events) + 1 \notin DOMAIN events /\ Len(events') = Len(events) + 1
               /\ \A k \in DOMAIN events : events'[k] = events[k]
               /\ events'[Len(events) + 1] = pubs[p].ev
               /\ pubs'[p].step = "ready" /\ pubs'[p].ev = pubs[p].ev
            \/ events' = events /\ pubs'[p].step = "idle"
<1>1. pubs[p] \in Emission /\ pubs[p].step = "persist" /\ pubs[p].ev \in Event
  BY FeedParts, EmissionKinds DEF Persist
<1>2. UNCHANGED <<subs, nextID, chans, emitted>> /\ \A q \in Publishers \ {p} : pubs'[q] = pubs[q]
  BY DEF Persist, Becomes, FeedTyped
<1>3. CASE events' = Append(events, pubs[p].ev) /\ Becomes(p, [pubs[p] EXCEPT !.step = "ready"])
  <2>1. pubs'[p] = [pubs[p] EXCEPT !.step = "ready"]
    BY <1>3 DEF Becomes, FeedTyped
  <2>2. pubs'[p].step = "ready" /\ pubs'[p].ev = pubs[p].ev
    BY <1>1, <2>1 DEF Emission, Idle
  <2>3. events \in Seq(Event)
    BY DEF FeedTyped
  <2> QED
    BY <1>1, <1>2, <1>3, <2>2, <2>3, EventAdded
<1>4. CASE UNCHANGED events /\ Becomes(p, Idle)
  <2>1. pubs'[p].step = "idle"
    BY <1>4 DEF Becomes, FeedTyped, Idle
  <2> QED
    BY <1>1, <1>2, <1>4, <2>1
<1> QED
  BY <1>3, <1>4 DEF Persist

LEMMA FanOutStarts ==
  ASSUME FeedTyped, NEW p \in Publishers, FanOut(p)
  PROVE  /\ pubs[p].step = "ready" /\ pubs'[p].step = "fan" /\ pubs'[p].ev = pubs[p].ev
         /\ pubs'[p].left = DOMAIN subs
         /\ \A q \in Publishers \ {p} : pubs'[q] = pubs[q]
         /\ UNCHANGED <<events, subs, nextID, chans, emitted>>
BY DEF FanOut, Becomes, FeedTyped

LEMMA FanOutLeaves ==
  ASSUME FeedTyped, NEW p \in Publishers, FanOutEnds(p)
  PROVE  /\ pubs[p].step = "fan" /\ pubs[p].left = {} /\ pubs'[p].step = "idle"
         /\ \A q \in Publishers \ {p} : pubs'[q] = pubs[q]
         /\ UNCHANGED <<events, subs, nextID, chans, emitted>>
BY DEF FanOutEnds, Becomes, FeedTyped, Idle

-----------------------------------------------------------------------------
(***************************************************************************)
(* The map of the bus, and the events on their way.                        *)
(***************************************************************************)
LEMMA SubsKept ==
  ASSUME BusInv, [FeedNext]_feedVars
  PROVE  SubsAreOpen'
<1> USE DEF SubsAreOpen
<1>1. FeedTyped /\ SubsAreOpen /\ \A p \in Publishers : OnItsWay(p)
  BY DEF BusInv
<1>2. /\ DOMAIN subs \subseteq Nat /\ \A i \in DOMAIN subs : subs[i] \in DOMAIN chans
      /\ \A c \in DOMAIN chans : chans[c].id \in Nat
  BY <1>1, FeedParts, ChannelParts DEF FeedTyped
<1>3. CASE Subscribe
  <2>1. /\ DOMAIN chans' = DOMAIN chans \cup {Len(chans) + 1} /\ Len(chans) + 1 \notin DOMAIN chans
        /\ \A c \in DOMAIN chans : chans'[c] = chans[c]
        /\ chans'[Len(chans) + 1].id = nextID /\ chans'[Len(chans) + 1].open
        /\ nextID' = nextID + 1 /\ nextID \in Nat
        /\ DOMAIN subs' = DOMAIN subs \cup {nextID} /\ subs'[nextID] = Len(chans) + 1
        /\ \A i \in DOMAIN subs \ {nextID} : subs'[i] = subs[i]
    BY <1>1, <1>3, SubscribeAdds
  <2>2. \A c \in DOMAIN chans' : chans'[c].id < nextID'
    BY <1>1, <1>2, <2>1
  <2>3. nextID \notin DOMAIN subs
    BY <1>1, <1>2
  <2>4. \A c \in DOMAIN chans' : chans'[c].open =>
          chans'[c].id \in DOMAIN subs' /\ subs'[chans'[c].id] = c
    BY <1>1, <2>1, <2>3
  <2>5. \A i \in DOMAIN subs' : chans'[subs'[i]].id = i /\ chans'[subs'[i]].open
    BY <1>1, <1>2, <2>1, <2>3
  <2> QED
    BY <2>2, <2>4, <2>5
<1>4. ASSUME NEW c \in DOMAIN chans, Unsubscribe(c)
      PROVE  SubsAreOpen'
  <2>1. /\ DOMAIN chans' = DOMAIN chans /\ \A d \in DOMAIN chans \ {c} : chans'[d] = chans[d]
        /\ chans'[c].id = chans[c].id /\ ~chans'[c].open /\ nextID' = nextID
        /\ DOMAIN subs' = DOMAIN subs \ {chans[c].id}
        /\ \A i \in DOMAIN subs' : subs'[i] = subs[i]
    BY <1>1, <1>4, UnsubscribeCloses
  <2>2. chans[c].open
    BY <1>4 DEF Unsubscribe
  <2>3. \A d \in DOMAIN chans \ {c} : chans[d].open => chans[d].id # chans[c].id
    BY <1>1, <2>2
  <2> QED
    BY <1>1, <1>2, <2>1, <2>3
<1>5. ASSUME NEW c \in DOMAIN chans, Read(c)
      PROVE  SubsAreOpen'
  BY <1>1, <1>2, <1>5, ReadTakes
<1>6. ASSUME NEW p \in Publishers, Send(p)
      PROVE  SubsAreOpen'
  <2>1. /\ DOMAIN chans' = DOMAIN chans /\ UNCHANGED <<subs, nextID>>
        /\ \A d \in DOMAIN chans : chans'[d].id = chans[d].id /\ chans'[d].open = chans[d].open
    BY <1>1, <1>6, SendReaches
  <2> QED
    BY <1>1, <1>2, <2>1
<1>7. ASSUME NEW p \in Publishers, Publish(p) \/ Persist(p) \/ FanOut(p) \/ FanOutEnds(p)
      PROVE  SubsAreOpen'
  BY <1>1, <1>7 DEF Publish, Persist, FanOut, FanOutEnds
<1>8. CASE UNCHANGED feedVars
  BY <1>1, <1>8 DEF feedVars
<1> QED
  BY <1>3, <1>4, <1>5, <1>6, <1>7, <1>8 DEF FeedNext

LEMMA OnItsWayKept ==
  ASSUME BusInv, [FeedNext]_feedVars, NEW q \in Publishers
  PROVE  OnItsWay(q)'
<1> USE DEF OnItsWay, Within
<1>1. FeedTyped /\ SubsAreOpen /\ \A p \in Publishers : OnItsWay(p)
  BY DEF BusInv
<1>2. CASE Subscribe \/ \E c \in DOMAIN chans : Unsubscribe(c)
  <2>1. UNCHANGED <<events, pubs, emitted>> /\ pubs[q].step # "fan"
    BY <1>2 DEF Subscribe, SubscribeAs, Unsubscribe, Unlocked
  <2> QED
    BY <1>1, <2>1
<1>3. ASSUME NEW c \in DOMAIN chans, Read(c)
      PROVE  OnItsWay(q)'
  BY <1>1, <1>3 DEF Read
<1>4. ASSUME NEW p \in Publishers, Publish(p)
      PROVE  OnItsWay(q)'
  BY <1>1, <1>4, PublishBegins
<1>5. ASSUME NEW p \in Publishers, Persist(p)
      PROVE  OnItsWay(q)'
  BY <1>1, <1>5, PersistWrites
<1>6. ASSUME NEW p \in Publishers, FanOut(p)
      PROVE  OnItsWay(q)'
  BY <1>1, <1>6, FanOutStarts
<1>7. ASSUME NEW p \in Publishers, Send(p)
      PROVE  OnItsWay(q)'
  BY <1>1, <1>7, SendReaches
<1>8. ASSUME NEW p \in Publishers, FanOutEnds(p)
      PROVE  OnItsWay(q)'
  BY <1>1, <1>8, FanOutLeaves
<1>9. CASE UNCHANGED feedVars
  BY <1>1, <1>9 DEF feedVars
<1> QED
  BY <1>2, <1>3, <1>4, <1>5, <1>6, <1>7, <1>8, <1>9 DEF FeedNext

(* Events by their publisher and number: what a channel has of a publisher *)
(* that sends it one more came before.                                     *)
LEMMA BehindKept ==
  ASSUME BusInv, [FeedNext]_feedVars, NEW q \in Publishers, NEW d \in DOMAIN chans'
  PROVE  Behind(q, chans[d])'
<1> USE DEF Behind, ToBeSent
<1>1. /\ FeedTyped /\ SubsAreOpen /\ \A p \in Publishers : OnItsWay(p)
      /\ \A c \in DOMAIN chans : Behind(q, chans[c])
  BY DEF BusInv
<1>2. /\ emitted[q] \in Nat
      /\ \A c \in DOMAIN chans : /\ chans[c].got \in Seq(Event)
                                 /\ \A j \in DOMAIN chans[c].got : chans[c].got[j].n \in Nat
  BY <1>1, FeedParts, ChannelParts DEF Event
<1>3. CASE Subscribe
  <2>1. CASE d = Len(chans) + 1
    BY <1>1, <1>3, <2>1, SubscribeAdds
  <2>2. CASE d \in DOMAIN chans
    BY <1>1, <1>3, <2>2, SubscribeAdds
  <2> QED
    BY <1>1, <1>3, <2>1, <2>2, SubscribeAdds
<1>4. ASSUME NEW c \in DOMAIN chans, Unsubscribe(c)
      PROVE  Behind(q, chans[d])'
  BY <1>1, <1>4, UnsubscribeCloses
<1>5. ASSUME NEW c \in DOMAIN chans, Read(c)
      PROVE  Behind(q, chans[d])'
  BY <1>1, <1>5, ReadTakes
<1>6. ASSUME NEW p \in Publishers, Publish(p)
      PROVE  Behind(q, chans[d])'
  BY <1>1, <1>2, <1>6, PublishBegins
<1>7. ASSUME NEW p \in Publishers, Persist(p)
      PROVE  Behind(q, chans[d])'
  BY <1>1, <1>7, PersistWrites
<1>8. ASSUME NEW p \in Publishers, FanOut(p)
      PROVE  Behind(q, chans[d])'
  BY <1>1, <1>8, FanOutStarts
<1>9. ASSUME NEW p \in Publishers, Send(p)
      PROVE  Behind(q, chans[d])'
  <2>1. PICK i \in pubs[p].left, c \in DOMAIN chans :
           /\ i \in DOMAIN subs /\ subs[i] = c
           /\ DOMAIN chans' = DOMAIN chans /\ \A x \in DOMAIN chans \ {c} : chans'[x] = chans[x]
           /\ chans'[c].id = chans[c].id
           /\ \/ chans'[c].got = Append(chans[c].got, pubs[p].ev)
              \/ chans'[c].got = chans[c].got
           /\ pubs[p].step = "fan" /\ pubs'[p].step = "fan"
           /\ pubs'[p].left = pubs[p].left \ {i}
           /\ \A x \in Publishers \ {p} : pubs'[x] = pubs[x]
           /\ UNCHANGED emitted
    BY <1>1, <1>9, SendReaches
  <2>2. ToBeSent(q, chans[d])' => ToBeSent(q, chans[d])
    BY <2>1
  <2>3. CASE chans'[d].got = chans[d].got
    BY <1>1, <2>1, <2>2, <2>3
  <2>4. CASE d = c /\ chans'[c].got = Append(chans[c].got, pubs[p].ev)
    <3>1. pubs[p].ev \in Event /\ pubs[p].ev.by = p /\ pubs[p].ev.n = emitted[p]
      BY <1>1, <2>1, FeedParts, EmissionKinds DEF OnItsWay
    <3>2. /\ DOMAIN chans'[c].got = DOMAIN chans[c].got \cup {Len(chans[c].got) + 1}
          /\ \A j \in DOMAIN chans[c].got : chans'[c].got[j] = chans[c].got[j]
          /\ chans'[c].got[Len(chans[c].got) + 1] = pubs[p].ev
      BY <1>2, <2>4, <3>1, EventAdded
    <3>3. chans[c].id = i
      BY <1>1, <2>1 DEF SubsAreOpen
    <3>4. q = p => ~ToBeSent(q, chans[d])'
      BY <2>1, <2>4, <3>3
    <3> QED
      BY <1>1, <1>2, <2>1, <2>2, <2>4, <3>1, <3>2, <3>4
  <2> QED
    BY <2>1, <2>3, <2>4
<1>10. ASSUME NEW p \in Publishers, FanOutEnds(p)
      PROVE  Behind(q, chans[d])'
  BY <1>1, <1>10, FanOutLeaves
<1>11. CASE UNCHANGED feedVars
  BY <1>1, <1>11 DEF feedVars
<1> QED
  BY <1>3, <1>4, <1>5, <1>6, <1>7, <1>8, <1>9, <1>10, <1>11 DEF FeedNext

-----------------------------------------------------------------------------
(***************************************************************************)
(* What the subscribers see.                                               *)
(***************************************************************************)
Faithful(c) ==
  /\ SentIsLogged(chans[c]) /\ SentInOrder(chans[c])
  /\ chans[c].open /\ ~chans[c].dropped => LoggedIsSent(chans[c])

(* An event of the table that ch is still to be sent. *)
Coming(e, ch) ==
  /\ pubs[e.by].step \in {"ready", "fan"} /\ pubs[e.by].ev = e
  /\ pubs[e.by].step = "fan" => ch.id \in pubs[e.by].left

(* A step that adds nothing to the table or to a channel, and takes no     *)
(* event that comes to it, leaves it as faithful as it was.                *)
LEMMA StillFaithful ==
  ASSUME FeedTyped, NEW d \in DOMAIN chans, Faithful(d), UNCHANGED events,
         chans'[d].got = chans[d].got, chans'[d].from = chans[d].from,
         chans'[d].open => chans[d].open, chans[d].dropped => chans'[d].dropped,
         \A e \in Event :
           chans[d].open /\ Coming(e, chans[d]) => Coming(e, chans[d])'
  PROVE  Faithful(d)'
<1>1. chans[d].from \in Nat /\ \A k \in chans[d].from + 1 .. Len(events) : events[k] \in Event
  <2>1. chans[d].from \in Nat /\ \A k \in 1 .. Len(events) : events[k] \in Event
    BY FeedParts, ChannelParts
  <2> QED
    BY <2>1, FeedParts
<1>2. SentIsLogged(chans[d])' /\ SentInOrder(chans[d])'
  BY DEF Faithful, SentIsLogged, SentInOrder, Within
<1>3. ASSUME chans'[d].open, ~chans'[d].dropped, NEW k \in chans'[d].from + 1 .. Len(events')
      PROVE  Within(events'[k], chans'[d].got) \/ Coming(events[k], chans[d])'
  <2>1. Within(events[k], chans[d].got) \/ Coming(events[k], chans[d])
    BY <1>3 DEF Faithful, LoggedIsSent, Coming
  <2>2. events[k] \in Event /\ chans[d].open
    BY <1>1, <1>3
  <2>3. Within(events[k], chans[d].got) <=> Within(events'[k], chans'[d].got)
    BY DEF Within
  <2> DEFINE e == events[k]
  <2>4. Coming(e, chans[d]) => Coming(e, chans[d])'
    BY <2>2 DEF Coming
  <2> QED
    BY <2>1, <2>3, <2>4
<1> QED
  BY <1>2, <1>3 DEF Faithful, LoggedIsSent, Coming

LEMMA FaithfulKept ==
  ASSUME BusInv, [FeedNext]_feedVars, NEW d \in DOMAIN chans'
  PROVE  Faithful(d)'
<1> USE DEF Faithful, SentIsLogged, SentInOrder, LoggedIsSent, Within
<1>1. /\ FeedTyped /\ SubsAreOpen /\ \A p \in Publishers : OnItsWay(p)
      /\ \A p \in Publishers, c \in DOMAIN chans : Behind(p, chans[c])
      /\ \A c \in DOMAIN chans : Faithful(c)
  BY DEF BusInv, FeedFaithful
<1>2. /\ Len(events) \in Nat /\ DOMAIN events = 1..Len(events)
      /\ \A k \in DOMAIN events : events[k] \in Event /\ events[k].by \in Publishers
      /\ \A c \in DOMAIN chans : /\ chans[c].got \in Seq(Event) /\ chans[c].from \in Nat
                                 /\ \A k \in chans[c].from + 1 .. Len(events) : k \in DOMAIN events
  <2>1. /\ Len(events) \in Nat /\ DOMAIN events = 1..Len(events)
        /\ \A k \in DOMAIN events : events[k] \in Event /\ events[k].by \in Publishers
    BY <1>1, FeedParts DEF Event
  <2>2. \A c \in DOMAIN chans : chans[c].got \in Seq(Event) /\ chans[c].from \in Nat
    BY <1>1, FeedParts, ChannelParts
  <2> QED
    BY <2>1, <2>2
<1>3. CASE Subscribe
  <2>1. CASE d = Len(chans) + 1
    <3>1. chans'[d].got = <<>> /\ chans'[d].from = Len(events) /\ UNCHANGED events
      BY <1>1, <1>3, <2>1, SubscribeAdds
    <3> QED
      BY <1>2, <3>1
  <2>2. CASE d \in DOMAIN chans
    BY <1>1, <1>3, <2>2, SubscribeAdds
  <2> QED
    BY <1>1, <1>3, <2>1, <2>2, SubscribeAdds
<1>4. ASSUME NEW c \in DOMAIN chans, Unsubscribe(c)
      PROVE  Faithful(d)'
  <2>1. CASE d = c
    <3>1. chans'[d].got = chans[d].got /\ ~chans'[d].open /\ UNCHANGED events
      BY <1>1, <1>4, <2>1, UnsubscribeCloses
    <3>2. SentIsLogged(chans[d]) /\ SentInOrder(chans[d])
      BY <1>1, <1>4, <2>1
    <3> QED
      BY <3>1, <3>2
  <2>2. CASE d # c
    <3>1. d \in DOMAIN chans /\ chans'[d] = chans[d] /\ UNCHANGED <<events, pubs>>
      BY <1>1, <1>4, <2>2, UnsubscribeCloses
    <3> QED
      BY <1>1, <3>1
  <2> QED
    BY <2>1, <2>2
<1>5. ASSUME NEW c \in DOMAIN chans, Read(c)
      PROVE  Faithful(d)'
  BY <1>1, <1>5, ReadTakes
<1>6. ASSUME NEW p \in Publishers, Publish(p)
      PROVE  Faithful(d)'
  <2>1. /\ pubs[p].step = "idle" /\ UNCHANGED <<events, chans>>
        /\ \A q \in Publishers \ {p} : pubs'[q] = pubs[q]
    BY <1>1, <1>6, PublishBegins
  <2>2. \A e \in Event : Coming(e, chans[d]) => Coming(e, chans[d])'
    BY <2>1 DEF Coming, Event
  <2> QED
    BY <1>1, <2>1, <2>2, StillFaithful
<1>7. ASSUME NEW p \in Publishers, Persist(p)
      PROVE  Faithful(d)'
  <2>1. CASE events' = events
    <3>1. /\ pubs[p].step = "persist" /\ pubs'[p].step = "idle" /\ UNCHANGED <<events, chans>>
          /\ \A q \in Publishers \ {p} : pubs'[q] = pubs[q]
      BY <1>1, <1>7, <2>1, PersistWrites
    <3>2. \A e \in Event : Coming(e, chans[d]) => Coming(e, chans[d])'
      BY <3>1 DEF Coming, Event
    <3> QED
      BY <1>1, <3>1, <3>2, StillFaithful
  <2>2. CASE events' # events
    <3>1. /\ DOMAIN events' = DOMAIN events \cup {Len(events) + 1} /\ Len(events') = Len(events) + 1
          /\ \A k \in DOMAIN events : events'[k] = events[k]
          /\ events'[Len(events) + 1] = pubs[p].ev /\ pubs[p].ev.by = p
          /\ pubs[p].step = "persist" /\ pubs'[p].step = "ready" /\ pubs'[p].ev = pubs[p].ev
          /\ \A q \in Publishers \ {p} : pubs'[q] = pubs[q]
          /\ chans' = chans
      BY <1>1, <1>7, <2>2, PersistWrites DEF OnItsWay
    <3>2. SentIsLogged(chans[d])' /\ SentInOrder(chans[d])'
      BY <1>1, <3>1
    <3>3. ASSUME chans'[d].open, ~chans'[d].dropped, NEW k \in chans'[d].from + 1 .. Len(events')
          PROVE  \/ Within(events'[k], chans'[d].got)
                 \/ /\ pubs'[events'[k].by].step \in {"ready", "fan"}
                    /\ pubs'[events'[k].by].ev = events'[k]
                    /\ pubs'[events'[k].by].step = "fan" =>
                         chans'[d].id \in pubs'[events'[k].by].left
      <4>1. CASE k = Len(events) + 1
        BY <3>1, <4>1
      <4>2. CASE k # Len(events) + 1
        <5>1. k \in chans[d].from + 1 .. Len(events) /\ k \in DOMAIN events /\ d \in DOMAIN chans
          BY <1>2, <3>1, <3>3, <4>2
        <5> QED
          BY <1>1, <1>2, <3>1, <3>3, <5>1
      <4> QED
        BY <4>1, <4>2
    <3> QED
      BY <3>2, <3>3
  <2> QED
    BY <2>1, <2>2
<1>8. ASSUME NEW p \in Publishers, FanOut(p)
      PROVE  Faithful(d)'
  <2>1. /\ pubs[p].step = "ready" /\ pubs'[p].step = "fan" /\ pubs'[p].ev = pubs[p].ev
        /\ pubs'[p].left = DOMAIN subs /\ \A q \in Publishers \ {p} : pubs'[q] = pubs[q]
        /\ UNCHANGED <<events, subs, nextID, chans, emitted>>
    BY <1>1, <1>8, FanOutStarts
  <2>2. chans[d].open => chans[d].id \in pubs'[p].left
    BY <1>1, <2>1 DEF SubsAreOpen
  <2>3. \A e \in Event :
          chans[d].open /\ Coming(e, chans[d]) => Coming(e, chans[d])'
    BY <2>1, <2>2 DEF Coming, Event
  <2> QED
    BY <1>1, <2>1, <2>3, StillFaithful
<1>9. ASSUME NEW p \in Publishers, Send(p)
      PROVE  Faithful(d)'
  <2>1. PICK i \in pubs[p].left, c \in DOMAIN chans :
           /\ i \in DOMAIN subs /\ subs[i] = c
           /\ DOMAIN chans' = DOMAIN chans /\ \A x \in DOMAIN chans \ {c} : chans'[x] = chans[x]
           /\ chans'[c].id = chans[c].id /\ chans'[c].open = chans[c].open
           /\ chans'[c].from = chans[c].from
           /\ \/ /\ chans'[c].got = Append(chans[c].got, pubs[p].ev)
                 /\ chans'[c].dropped = chans[c].dropped
              \/ chans'[c].got = chans[c].got /\ chans'[c].dropped
           /\ pubs[p].step = "fan" /\ pubs'[p].step = "fan" /\ pubs'[p].ev = pubs[p].ev
           /\ pubs'[p].left = pubs[p].left \ {i}
           /\ \A q \in Publishers \ {p} : pubs'[q] = pubs[q]
           /\ UNCHANGED <<events, subs, nextID, emitted>>
    BY <1>1, <1>9, SendReaches
  <2>2. CASE d # c
    <3>1. d \in DOMAIN chans /\ chans'[d] = chans[d]
      BY <2>1, <2>2
    <3>2. chans[d].open => chans[d].id # i
      BY <1>1, <2>1, <2>2, <3>1 DEF SubsAreOpen
    <3>3. \A e \in Event : chans[d].open /\ Coming(e, chans[d]) => Coming(e, chans[d])'
      BY <2>1, <3>1, <3>2 DEF Coming, Event
    <3> QED
      BY <1>1, <2>1, <3>1, <3>3, StillFaithful
  <2>3. CASE d = c /\ chans'[c].got = chans[c].got /\ chans'[c].dropped
    BY <1>1, <2>1, <2>3
  <2>4. CASE /\ d = c /\ chans'[c].got = Append(chans[c].got, pubs[p].ev)
             /\ chans'[c].dropped = chans[c].dropped
    <3>1. pubs[p].ev \in Event /\ pubs[p].ev.by = p /\ pubs[p].ev.n = emitted[p]
      BY <1>1, <2>1, FeedParts, EmissionKinds DEF OnItsWay
    <3>2. /\ DOMAIN chans'[c].got = DOMAIN chans[c].got \cup {Len(chans[c].got) + 1}
          /\ \A j \in DOMAIN chans[c].got : chans'[c].got[j] = chans[c].got[j]
          /\ chans'[c].got[Len(chans[c].got) + 1] = pubs[p].ev
          /\ DOMAIN chans[c].got = 1..Len(chans[c].got) /\ Len(chans[c].got) \in Nat
      BY <1>2, <2>1, <2>4, <3>1, EventAdded
    <3>3. chans[c].id = i
      BY <1>1, <2>1 DEF SubsAreOpen
    <3>4. SentIsLogged(chans[d])'
      <4>1. pubs[p].ev.kept => \E k \in DOMAIN events : events[k] = pubs[p].ev
        BY <1>1, <2>1 DEF OnItsWay
      <4> QED
        BY <1>1, <2>1, <2>4, <3>2, <4>1
    <3>5. SentInOrder(chans[d])'
      <4>1. \A j \in DOMAIN chans[c].got :
              chans[c].got[j].by = p => chans[c].got[j].n < pubs[p].ev.n
        BY <1>1, <2>1, <3>1, <3>3 DEF Behind, ToBeSent
      <4> QED
        BY <1>1, <2>1, <2>4, <3>1, <3>2, <4>1
    <3>6. ASSUME chans'[d].open, ~chans'[d].dropped
          PROVE  LoggedIsSent(chans[d])'
      <4>1. Within(pubs[p].ev, chans'[c].got)
        BY <3>2
      <4>2. \A e : Within(e, chans[c].got) => Within(e, chans'[c].got)
        BY <3>2
      <4>3. LoggedIsSent(chans[c])
        BY <1>1, <2>1, <2>4, <3>6
      <4> HIDE DEF Within
      <4>4. ASSUME NEW k \in chans[c].from + 1 .. Len(events)
            PROVE  \/ Within(events[k], chans'[c].got)
                   \/ /\ pubs'[events[k].by].step \in {"ready", "fan"}
                      /\ pubs'[events[k].by].ev = events[k]
                      /\ pubs'[events[k].by].step = "fan" =>
                           chans[c].id \in pubs'[events[k].by].left
        <5>1. events[k] \in Event /\ events[k].by \in Publishers
          BY <1>2
        <5>2. CASE events[k] = pubs[p].ev \/ Within(events[k], chans[c].got)
          BY <4>1, <4>2, <5>2
        <5>3. CASE events[k] # pubs[p].ev /\ ~Within(events[k], chans[c].got)
          BY <2>1, <4>3, <5>1, <5>3
        <5> QED
          BY <5>2, <5>3
      <4> QED
        BY <2>1, <2>4, <4>4
    <3> QED
      BY <3>4, <3>5, <3>6
  <2> QED
    BY <2>1, <2>2, <2>3, <2>4
<1>10. ASSUME NEW p \in Publishers, FanOutEnds(p)
       PROVE  Faithful(d)'
  <2>1. /\ pubs[p].step = "fan" /\ pubs[p].left = {} /\ UNCHANGED <<events, chans>>
        /\ \A q \in Publishers \ {p} : pubs'[q] = pubs[q]
    BY <1>1, <1>10, FanOutLeaves
  <2>2. \A e \in Event : Coming(e, chans[d]) => Coming(e, chans[d])'
    BY <2>1 DEF Coming, Event
  <2> QED
    BY <1>1, <2>1, <2>2, StillFaithful
<1>11. CASE UNCHANGED feedVars
  BY <1>1, <1>11 DEF feedVars
<1> QED
  BY <1>3, <1>4, <1>5, <1>6, <1>7, <1>8, <1>9, <1>10, <1>11 DEF FeedNext

-----------------------------------------------------------------------------
LEMMA FeedStarts ==
  ASSUME FeedInit
  PROVE  BusInv
<1>1. FeedTyped
  BY DEF FeedInit, FeedTyped, Emission, Idle
<1>2. chans = <<>> /\ DOMAIN subs = {} /\ \A p \in Publishers : pubs[p].step = "idle"
  BY DEF FeedInit, Idle
<1> QED
  BY <1>1, <1>2 DEF BusInv, SubsAreOpen, OnItsWay, FeedFaithful

LEMMA BusKept ==
  ASSUME BusInv, [FeedNext]_feedVars
  PROVE  BusInv'
<1>1. FeedTyped'
  BY FeedTypedKept DEF BusInv
<1>2. FeedFaithful'
  BY FaithfulKept DEF FeedFaithful, Faithful
<1>3. \A p \in Publishers : OnItsWay(p)' /\ \A c \in DOMAIN chans' : Behind(p, chans[c])'
  BY OnItsWayKept, BehindKept
<1> QED
  BY <1>1, <1>2, <1>3, SubsKept DEF BusInv

(***************************************************************************)
(* A subscriber whose channel was never full sees, until it leaves, the    *)
(* history the events table keeps, of every publisher in its order, for    *)
(* any number of publishers and subscribers, any capacity of the channels  *)
(* and any interleaving of their steps (bus.go:Publish, fanOut, Subscribe, *)
(* Unsubscribe).                                                           *)
(***************************************************************************)
THEOREM FeedCorrect == FeedSpec => []FeedFaithful
<1>1. FeedInit => BusInv
  BY FeedStarts
<1>2. BusInv /\ [FeedNext]_feedVars => BusInv'
  BY BusKept
<1>3. BusInv => FeedFaithful
  BY DEF BusInv
<1> QED
  BY <1>1, <1>2, <1>3, PTL DEF FeedSpec

(***************************************************************************)
(* What the channels hold.                                                 *)
(***************************************************************************)
LEMMA SizedKept ==
  ASSUME BusInv, FeedSized, [FeedNext]_feedVars
  PROVE  FeedSized'
<1>1. /\ FeedTyped /\ chans \in Seq(Channel) /\ Len(chans) \in Nat /\ DOMAIN chans = 1..Len(chans)
      /\ {Buffer, MaxSubscriptions} \subseteq Nat /\ \A p \in Publishers : OnItsWay(p)
      /\ DOMAIN subs \subseteq Nat /\ \A i \in DOMAIN subs : subs[i] \in DOMAIN chans
  BY FeedParts, FeedAssumption DEF BusInv, FeedTyped
<1>2. ASSUME NEW ch \in Channel
      PROVE  /\ ch.unread \in Nat /\ ch.got \in Seq(Event) /\ Len(ch.got) \in Nat
             /\ [ch EXCEPT !.open = FALSE, !.unread = 0].unread = 0
             /\ [ch EXCEPT !.unread = ch.unread - 1].unread = ch.unread - 1
             /\ [ch EXCEPT !.unread = ch.unread - 1].got = ch.got
             /\ [ch EXCEPT !.dropped = TRUE].unread = ch.unread
             /\ [ch EXCEPT !.dropped = TRUE].got = ch.got
             /\ [ch EXCEPT !.open = FALSE, !.unread = 0].got = ch.got
  BY DEF Channel
<1>3. ASSUME NEW c \in DOMAIN chans, NEW ch, chans' = [chans EXCEPT ![c] = ch], nextID' = nextID,
             ch.unread <= Buffer, ch.unread <= Len(ch.got)
      PROVE  FeedSized'
  <2>1. Len(chans') = Len(chans) /\ DOMAIN chans' = DOMAIN chans
    BY <1>1, <1>3
  <2>2. \A d \in DOMAIN chans : chans'[d] = IF d = c THEN ch ELSE chans[d]
    BY <1>3
  <2> QED
    BY <1>3, <2>1, <2>2 DEF FeedSized
<1>4. CASE Subscribe
  <2> DEFINE ch == [id |-> nextID, open |-> TRUE, from |-> Len(events),
                    got |-> <<>>, unread |-> 0, dropped |-> FALSE]
  <2>1. /\ Len(chans) < MaxSubscriptions /\ chans' = Append(chans, ch) /\ nextID' = nextID + 1
    BY <1>4 DEF Subscribe, SubscribeAs
  <2>2. ch.unread = 0 /\ Len(ch.got) = 0
    OBVIOUS
  <2> HIDE DEF ch
  <2>3. /\ Len(chans') = Len(chans) + 1
        /\ \A d \in DOMAIN chans' : chans'[d] = IF d \in DOMAIN chans THEN chans[d] ELSE ch
    BY <1>1, <2>1
  <2> QED
    BY <1>1, <2>1, <2>2, <2>3 DEF FeedSized
<1>5. ASSUME NEW c \in DOMAIN chans, Unsubscribe(c)
      PROVE  FeedSized'
  <2>1. PICK ch \in Channel : ch = chans[c]
    BY <1>1
  <2>2. /\ chans' = [chans EXCEPT ![c] = [ch EXCEPT !.open = FALSE, !.unread = 0]]
        /\ nextID' = nextID
    BY <1>5, <2>1 DEF Unsubscribe
  <2>3. PICK r : r = [ch EXCEPT !.open = FALSE, !.unread = 0]
    OBVIOUS
  <2>4. r.unread = 0 /\ Len(r.got) \in Nat
    BY <1>2, <2>3
  <2>5. chans' = [chans EXCEPT ![c] = r]
    BY <2>2, <2>3, Zenon
  <2>6. r.unread <= Buffer /\ r.unread <= Len(r.got)
    BY <1>1, <2>4
  <2> QED
    BY <1>3, <2>2, <2>5, <2>6
<1>6. ASSUME NEW c \in DOMAIN chans, Read(c)
      PROVE  FeedSized'
  <2>1. PICK ch \in Channel : ch = chans[c]
    BY <1>1
  <2>2. /\ chans' = [chans EXCEPT ![c] = [ch EXCEPT !.unread = ch.unread - 1]] /\ ch.unread > 0
        /\ nextID' = nextID
    BY <1>6, <2>1 DEF Read
  <2>3. ch.unread \in Nat /\ Len(ch.got) \in Nat /\ ch.unread <= Buffer /\ ch.unread <= Len(ch.got)
    BY <1>2, <2>1 DEF FeedSized
  <2>4. PICK r : r = [ch EXCEPT !.unread = ch.unread - 1]
    OBVIOUS
  <2>5. r.unread = ch.unread - 1 /\ r.got = ch.got
    BY <1>2, <2>4
  <2>6. r.unread <= Buffer /\ r.unread <= Len(r.got)
    BY <1>1, <2>3, <2>5
  <2>7. chans' = [chans EXCEPT ![c] = r]
    BY <2>2, <2>4, Zenon
  <2> QED
    BY <1>3, <2>2, <2>6, <2>7
<1>7. ASSUME NEW p \in Publishers, Send(p)
      PROVE  FeedSized'
  <2> DEFINE ev == pubs[p].ev
  <2>1. PICK i \in pubs[p].left :
          /\ nextID' = nextID
          /\ chans' = IF chans[subs[i]].unread < Buffer
                      THEN [chans EXCEPT ![subs[i]].got = Append(@, ev), ![subs[i]].unread = @ + 1]
                      ELSE [chans EXCEPT ![subs[i]].dropped = TRUE]
    BY <1>7 DEF Send
  <2>2. pubs[p].step = "fan" /\ subs[i] \in DOMAIN chans
    BY <1>1, <1>7, <2>1 DEF Send, OnItsWay
  <2>3. PICK c \in DOMAIN chans : c = subs[i]
    BY <2>2
  <2>4. PICK ch \in Channel : ch = chans[c]
    BY <1>1
  <2>5. ch.unread \in Nat /\ ch.got \in Seq(Event) /\ ch.unread <= Buffer /\ ch.unread <= Len(ch.got)
    BY <1>2, <2>4 DEF FeedSized
  <2>6. CASE ch.unread < Buffer
    <3> DEFINE n == ch.unread + 1
               got == Append(ch.got, ev)
    <3>1. chans' = [chans EXCEPT ![c] = [ch EXCEPT !.got = got, !.unread = n]]
      BY <2>1, <2>3, <2>4, <2>6
    <3>2. n <= Buffer /\ n <= Len(got)
      BY <1>1, <2>5, <2>6
    <3> HIDE DEF n, got
    <3>3. PICK r : r = [ch EXCEPT !.got = got, !.unread = n]
      OBVIOUS
    <3>4. r.unread = n /\ r.got = got
      BY <3>3 DEF Channel
    <3>5. chans' = [chans EXCEPT ![c] = r]
      BY <3>1, <3>3, Zenon
    <3> QED
      BY <1>3, <2>1, <3>2, <3>4, <3>5
  <2>7. CASE ~(ch.unread < Buffer)
    <3>1. chans' = [chans EXCEPT ![c] = [ch EXCEPT !.dropped = TRUE]]
      BY <2>1, <2>3, <2>4, <2>7
    <3>2. PICK r : r = [ch EXCEPT !.dropped = TRUE]
      OBVIOUS
    <3>3. r.unread = ch.unread /\ r.got = ch.got
      BY <1>2, <3>2
    <3>4. chans' = [chans EXCEPT ![c] = r]
      BY <3>1, <3>2, Zenon
    <3> QED
      BY <1>3, <2>1, <2>5, <3>3, <3>4
  <2> QED
    BY <2>6, <2>7
<1>8. CASE UNCHANGED <<chans, nextID>>
  BY <1>8 DEF FeedSized
<1>9. ASSUME NEW p \in Publishers, Publish(p) \/ Persist(p) \/ FanOut(p) \/ FanOutEnds(p)
      PROVE  UNCHANGED <<chans, nextID>>
  BY <1>9 DEF Publish, Persist, FanOut, FanOutEnds
<1>10. UNCHANGED feedVars => UNCHANGED <<chans, nextID>>
  BY DEF feedVars
<1> QED
  BY <1>4, <1>5, <1>6, <1>7, <1>8, <1>9, <1>10 DEF FeedNext

LEMMA FeedTypes == FeedSpec => []FeedTypeOK
<1>1. FeedInit => BusInv /\ FeedSized
  BY FeedStarts, FeedAssumption DEF FeedInit, FeedSized
<1>2. BusInv /\ FeedSized /\ [FeedNext]_feedVars => BusInv' /\ FeedSized'
  BY BusKept, SizedKept
<1>3. ASSUME BusInv, FeedSized
      PROVE  FeedTypeOK
  <2>1. /\ FeedTyped /\ SubsAreOpen /\ Len(chans) \in Nat /\ MaxSubscriptions \in Nat
        /\ \A p \in Publishers : pubs[p] \in Emission
    BY <1>3, FeedParts, FeedAssumption DEF BusInv
  <2>2. nextID \in 0..MaxSubscriptions
    BY <1>3, <2>1 DEF FeedSized
  <2>3. ASSUME NEW i \in DOMAIN subs
        PROVE  i \in 0..MaxSubscriptions /\ subs[i] \in DOMAIN chans
    <3>1. i \in Nat /\ subs[i] \in DOMAIN chans
      BY <2>1 DEF FeedTyped
    <3>2. i < nextID
      BY <2>1, <3>1 DEF SubsAreOpen
    <3> QED
      BY <2>1, <2>2, <3>1, <3>2
  <2>4. \A p \in Publishers : pubs[p].step \in {"idle", "persist", "ready", "fan"}
    BY <2>1 DEF Emission, Idle
  <2> QED
    BY <1>3, <2>2, <2>3, <2>4 DEF FeedTypeOK, FeedSized
<1> QED
  BY <1>1, <1>2, <1>3, PTL DEF FeedSpec

-----------------------------------------------------------------------------
(***************************************************************************)
(* THE SESSIONS OF THE TERMINAL.                                           *)
(***************************************************************************)

(* A finite set of numbers has a largest. *)
LEMMA MaxExists ==
  ASSUME NEW S \in SUBSET Nat, IsFiniteSet(S), S # {}
  PROVE  \E m \in S : \A x \in S : m >= x
<1> DEFINE R == OpToRel(<, Nat)
           Without(A) == ~\E m \in A : \A x \in A : m >= x
           T == {n \in Nat : \E A \in SUBSET S : A # {} /\ Cardinality(A) = n /\ Without(A)}
<1> SUFFICES ASSUME Without(S) PROVE FALSE
  OBVIOUS
<1>1. IsWellFoundedOn(R, Nat) /\ \A x, y \in Nat : y < x => <<y, x>> \in R
  BY NatLessThanWellFounded, Zenon DEF OpToRel
<1> HIDE DEF R
<1>2. Cardinality(S) \in T
  BY FS_CardinalityType
<1>3. T \subseteq Nat
  OBVIOUS
<1>4. PICK n \in T : \A k \in T : ~(<<k, n>> \in R)
  <2> HIDE DEF T
  <2> QED
    BY <1>1, <1>2, <1>3, WFMin, Zenon
<1>5. PICK A \in SUBSET S : A # {} /\ Cardinality(A) = n /\ Without(A)
  BY <1>4
<1>6. PICK a \in A : TRUE
  BY <1>5
<1> DEFINE B == A \ {a}
<1>7. IsFiniteSet(A) /\ IsFiniteSet(B) /\ Cardinality(B) = n - 1 /\ Cardinality(B) \in Nat
  BY <1>5, <1>6, FS_Subset, FS_RemoveElement, FS_CardinalityType
<1>8. n - 1 \notin T
  <2> HIDE DEF T
  <2>1. n \in Nat /\ n - 1 \in Nat /\ n - 1 < n
    BY <1>3, <1>7
  <2> QED
    BY <1>1, <1>4, <2>1, Zenon
<1>9. B = {} \/ ~Without(B)
  BY <1>7, <1>8
<1>10. CASE B = {}
  BY <1>5, <1>6, <1>10
<1>11. CASE ~Without(B)
  <2>1. PICK m \in B : \A x \in B : m >= x
    BY <1>11
  <2>2. a \in Nat /\ m \in Nat /\ A = B \cup {a} /\ B \subseteq Nat
    BY <1>6, <2>1
  <2>3. CASE m >= a
    BY <1>5, <2>1, <2>2, <2>3
  <2>4. CASE a >= m
    <3>1. \A x \in A : a >= x
      BY <2>1, <2>2, <2>4
    <3> QED
      BY <1>5, <1>6, <3>1
  <2> QED
    BY <2>2, <2>3, <2>4
<1> QED
  BY <1>9, <1>10, <1>11

(***************************************************************************)
(* Numbers of messages: the largest one, and the one a compaction cuts at. *)
(***************************************************************************)
LEMMA MinExists ==
  ASSUME NEW S \in SUBSET Nat, S # {}
  PROVE  \E m \in S : \A x \in S : x >= m
<1> DEFINE R == OpToRel(<, Nat)
<1>1. IsWellFoundedOn(R, Nat) /\ \A x, y \in Nat : y < x => <<y, x>> \in R
  BY NatLessThanWellFounded, Zenon DEF OpToRel
<1> HIDE DEF R
<1>2. S \subseteq Nat
  OBVIOUS
<1>3. PICK m \in S : \A x \in S : ~(<<x, m>> \in R)
  BY <1>1, <1>2, WFMin, Zenon
<1>4. \A x \in S : ~(x < m)
  BY <1>1, <1>2, <1>3, Zenon
<1> QED
  BY <1>2, <1>4

LEMMA CutExists ==
  ASSUME NEW S \in SUBSET Nat, IsFiniteSet(S), NEW K \in Nat \ {0}, Cardinality(S) > K
  PROVE  \E n \in S : Cardinality({i \in S : i >= n}) = K
<1> DEFINE From(n) == {i \in S : i >= n}
           T == {n \in S : Cardinality(From(n)) >= K}
<1>1. Cardinality(S) \in Nat /\ S # {}
  BY FS_CardinalityType, FS_EmptySet
<1>2. \A n : From(n) \subseteq S
  OBVIOUS
<1>3. \A n : IsFiniteSet(From(n)) /\ Cardinality(From(n)) \in Nat
  <2> HIDE DEF From
  <2> QED
    BY <1>2, FS_Subset, FS_CardinalityType
<1>4. T # {}
  <2>1. PICK m \in S : \A x \in S : x >= m
    BY <1>1, MinExists
  <2>2. From(m) = S
    BY <2>1
  <2> QED
    BY <1>1, <2>1, <2>2
<1>5. PICK m \in T : \A x \in T : m >= x
  <2>1. T \subseteq S
    OBVIOUS
  <2> HIDE DEF T
  <2>2. IsFiniteSet(T) /\ T \in SUBSET Nat
    BY <2>1, FS_Subset
  <2> QED
    BY <1>4, <2>2, MaxExists
<1>6. SUFFICES ASSUME Cardinality(From(m)) # K PROVE FALSE
  OBVIOUS
<1> DEFINE U == From(m) \ {m}
<1>7. Cardinality(U) \in Nat /\ Cardinality(U) >= K
  <2>1. m \in From(m) /\ Cardinality(From(m)) > K
    BY <1>3, <1>5, <1>6
  <2>2. Cardinality(U) = Cardinality(From(m)) - 1
    <3> DEFINE F == From(m)
    <3>1. m \in F /\ IsFiniteSet(F) /\ U = F \ {m}
      BY <1>3, <2>1
    <3> HIDE DEF F, U
    <3>2. Cardinality(U) = Cardinality(F) - 1
      BY <3>1, FS_RemoveElement
    <3> QED
      BY <3>2 DEF F
  <2> QED
    BY <1>3, <2>1, <2>2
<1>8. U # {}
  BY <1>7, FS_EmptySet
<1>9. PICK u \in U : \A x \in U : x >= u
  <2>1. U \in SUBSET Nat
    OBVIOUS
  <2> HIDE DEF U
  <2> QED
    BY <1>8, <2>1, MinExists
<1>10. From(u) = U
  <2>1. m \in Nat /\ u \in Nat /\ u > m
    BY <1>5, <1>9
  <2>2. \A i \in S : i >= u => i >= m /\ i # m
    BY <2>1
  <2>3. \A i \in U : i \in S /\ i >= u
    BY <1>9
  <2> QED
    BY <2>2, <2>3
<1>11. u \in T /\ u > m
  BY <1>7, <1>9, <1>10
<1> QED
  BY <1>5, <1>11

LEMMA SeqsFinite ==
  ASSUME SessTyped, NEW s
  PROVE  SeqsOf(s) \in SUBSET Nat /\ IsFiniteSet(SeqsOf(s))
<1>1. PICK n \in Nat : \A k \in DOMAIN rows : k[2] <= n
  BY DEF SessTyped
<1>2. \A i \in SeqsOf(s) : i \in Nat /\ i <= n
  BY <1>1 DEF SeqsOf, SessTyped
<1> QED
  BY <1>2, FS_BoundedSetOfNaturals

LEMMA MaxSeq ==
  ASSUME SessTyped, NEW s
  PROVE  /\ GetMaxSeqBySession(s) \in Nat
         /\ \A k \in DOMAIN rows : k[1] = s => k[2] <= GetMaxSeqBySession(s)
<1> DEFINE S == SeqsOf(s) \cup {0}
<1>1. S \in SUBSET Nat /\ IsFiniteSet(S) /\ S # {}
  BY SeqsFinite, FS_AddElement
<1>2. GetMaxSeqBySession(s) \in S /\ \A x \in S : GetMaxSeqBySession(s) >= x
  BY <1>1, MaxExists DEF GetMaxSeqBySession, Max
<1>3. \A k \in DOMAIN rows : k[1] = s => k[2] \in S
  BY DEF SeqsOf
<1> QED
  BY <1>1, <1>2, <1>3

-----------------------------------------------------------------------------
(***************************************************************************)
(* Steps of a process.                                                     *)
(***************************************************************************)
StepOf(p) ==
  \/ ResumeOrCreateSession(p) \/ CreateSession(p) \/ ResumeSession(p)
  \/ TakeSeq(p) \/ AddMessage(p) \/ Quit(p)
  \/ CompactSession(p) \/ AddSessionSummary(p) \/ DeleteMessagesBySessionBefore(p)

LEMMA StepParts ==
  ASSUME NEW r \in Steps
  PROVE  /\ r.session \in Nat
         /\ r.step \in {"off", "create", "resume", "open", "add", "summary", "delete"}
         /\ r.step = "add" => r.key \in Nat \X Nat /\ r.msg \in Message
         /\ r.step = "summary" => r.cut \in Nat /\ r.told \in SUBSET Message
         /\ r.step = "delete" => r.cut \in Nat
BY DEF Steps, Off

LEMMA StepMade ==
  ASSUME NEW s \in Nat
  PROVE  /\ \A n \in {"create", "resume", "open"} : [step |-> n, session |-> s] \in Steps
         /\ \A c \in Nat : [step |-> "delete", session |-> s, cut |-> c] \in Steps
         /\ \A c \in Nat, o \in SUBSET Message :
              [step |-> "summary", session |-> s, cut |-> c, told |-> o] \in Steps
         /\ \A k \in Nat \X Nat, m \in Message :
              [step |-> "add", session |-> s, key |-> k, msg |-> m] \in Steps
         /\ Off \in Steps
BY DEF Steps

LEMMA TermMoved ==
  ASSUME SessTyped, NEW p \in Terminals, NEW r \in Steps, Does(p, r)
  PROVE  /\ term' \in [Terminals -> Steps] /\ term'[p] = r
         /\ \A o \in Terminals \ {p} : term'[o] = term[o]
BY DEF SessTyped, Does

(* What a process does. *)
LEMMA Seen ==
  ASSUME SessTyped, NEW p \in Terminals
  PROVE  /\ term[p] \in Steps /\ Carries(p)
         /\ term[p].session \in 0..created /\ created \in Nat /\ latest \in 0..created
         /\ seqCache[p] \in Nat /\ written[p] \in Nat
BY StepParts, SessionsAssumption DEF SessTyped, Carries

LEMMA CompactCuts ==
  ASSUME SessTyped, NEW p \in Terminals, CompactSession(p)
  PROVE  /\ term'[p].step = "summary" /\ term'[p].session = term[p].session
         /\ term'[p] \in Steps
         /\ \A k \in DOMAIN rows : k[1] = term[p].session /\ k[2] < term'[p].cut
                                  => rows[k] \in term'[p].told
         /\ \A o \in Terminals \ {p} : term'[o] = term[o]
         /\ term' \in [Terminals -> Steps]
<1> DEFINE s == term[p].session
           seqs == SeqsOf(s)
           cut == CHOOSE n \in seqs : Cardinality({i \in seqs : i >= n}) = Keep
           told == {rows[<<s, i>>] : i \in {j \in seqs : j < cut}}
           r == [step |-> "summary", session |-> s, cut |-> cut, told |-> told]
<1>1. Does(p, r)
  BY DEF CompactSession
<1>2. cut \in seqs /\ cut \in Nat /\ s \in Nat
  <2>1. \E n \in seqs : Cardinality({i \in seqs : i >= n}) = Keep
    <3>1. seqs \in SUBSET Nat /\ IsFiniteSet(seqs) /\ Cardinality(seqs) > Keep
      BY SeqsFinite DEF CompactSession
    <3> HIDE DEF seqs
    <3> QED
      BY <3>1, CutExists, SessionsAssumption
  <2>2. cut \in seqs
    BY <2>1
  <2> QED
    BY <2>2, SeqsFinite, Seen
<1> HIDE DEF cut
<1>3. \A i \in seqs : <<s, i>> \in DOMAIN rows
  BY DEF SeqsOf, SessTyped
<1>4. told \in SUBSET Message
  BY <1>3 DEF SessTyped
<1>5. r \in Steps
  <2> HIDE DEF told, s
  <2> QED
    BY <1>2, <1>4, StepMade
<1>6. \A k \in DOMAIN rows : k[1] = s /\ k[2] < cut => rows[k] \in told
  <2> SUFFICES ASSUME NEW k \in DOMAIN rows, k[1] = s, k[2] < cut
               PROVE  rows[k] \in told
    OBVIOUS
  <2>1. k = <<s, k[2]>> /\ k[2] \in seqs
    BY DEF SeqsOf, SessTyped
  <2> QED
    BY <2>1
<1>7. term'[p] = r
  <2> HIDE DEF r
  <2> QED
    BY <1>1, <1>5, TermMoved
<1>8. term' \in [Terminals -> Steps] /\ \A o \in Terminals \ {p} : term'[o] = term[o]
  <2> HIDE DEF r
  <2> QED
    BY <1>1, <1>5, TermMoved
<1> QED
  BY <1>5, <1>6, <1>7, <1>8

(* The other actions, in the same way. *)
LEMMA Moves ==
  ASSUME SessTyped, NEW p \in Terminals, StepOf(p)
  PROVE  /\ term' \in [Terminals -> Steps]
         /\ \A o \in Terminals \ {p} : /\ term'[o] = term[o] /\ seqCache'[o] = seqCache[o]
                                       /\ written'[o] = written[o]
         /\ seqCache' \in [Terminals -> Nat] /\ written' \in [Terminals -> Nat]
<1> USE Seen
<1>0. SessTyped
  OBVIOUS
<1>1. CASE ResumeOrCreateSession(p)
  <2>1. \E r \in Steps : Does(p, r)
    <3>1. latest \in Nat /\ 0 \in Nat
      OBVIOUS
    <3> QED
      BY <1>1, <3>1, StepMade DEF ResumeOrCreateSession
  <2> QED
    BY <1>1, <2>1, TermMoved DEF ResumeOrCreateSession, transcript, SessTyped
<1>2. CASE CreateSession(p)
  <2>1. latest' \in Nat
    BY <1>2 DEF CreateSession
  <2>2. \E r \in Steps : Does(p, r)
    BY <1>2, <2>1, StepMade DEF CreateSession
  <2> QED
    BY <1>2, <2>2, TermMoved DEF CreateSession, transcript, SessTyped
<1>3. CASE ResumeSession(p)
  <2>1. term[p].session \in Nat
    OBVIOUS
  <2>2. \E r \in Steps : Does(p, r)
    BY <1>3, <2>1, StepMade DEF ResumeSession
  <2> QED
    BY <1>3, <2>2, TermMoved DEF ResumeSession, transcript, SessTyped
<1>4. CASE TakeSeq(p)
  <2> DEFINE s == term[p].session
             seq == (IF seqCache[p] = NoSeq THEN GetMaxSeqBySession(s) ELSE seqCache[p]) + 1
  <2>1. s \in Nat /\ seq \in Nat
    BY MaxSeq
  <2>2. /\ seqCache' = [seqCache EXCEPT ![p] = seq]
        /\ written' = [written EXCEPT ![p] = written[p] + 1]
        /\ Does(p, [step |-> "add", session |-> s, key |-> <<s, seq>>, msg |-> <<p, written'[p]>>])
    BY <1>4 DEF TakeSeq
  <2> HIDE DEF s, seq
  <2>3. seqCache' \in [Terminals -> Nat] /\ written' \in [Terminals -> Nat]
    BY <2>1, <2>2 DEF SessTyped
  <2>4. <<s, seq>> \in Nat \X Nat /\ <<p, written'[p]>> \in Message
    BY <2>1, <2>3 DEF Message
  <2>5. \E r \in Steps : Does(p, r)
    BY <2>1, <2>2, <2>4, StepMade
  <2> QED
    BY <2>2, <2>3, <2>5, TermMoved DEF SessTyped
<1>5. CASE AddMessage(p)
  <2>1. term[p].session \in Nat
    OBVIOUS
  <2>2. \E r \in Steps : Does(p, r)
    BY <1>5, <2>1, StepMade DEF AddMessage
  <2> QED
    BY <1>5, <2>2, TermMoved DEF AddMessage, SessTyped
<1>6. CASE Quit(p)
  <2>1. \E r \in Steps : Does(p, r)
    BY <1>6, StepMade DEF Quit
  <2> QED
    BY <1>6, <2>1, TermMoved DEF Quit, SessTyped, NoSeq
<1>7. CASE CompactSession(p)
  BY <1>7, CompactCuts DEF CompactSession, transcript, SessTyped
<1>8. CASE AddSessionSummary(p)
  <2>1. term[p].session \in Nat /\ term[p].cut \in Nat
    BY <1>8, StepParts DEF AddSessionSummary
  <2>2. \E r \in Steps : Does(p, r)
    BY <1>8, <2>1, StepMade DEF AddSessionSummary
  <2> QED
    BY <1>8, <2>2, TermMoved DEF AddSessionSummary, SessTyped
<1>9. CASE DeleteMessagesBySessionBefore(p)
  <2>1. term[p].session \in Nat
    OBVIOUS
  <2>2. \E r \in Steps : Does(p, r)
    BY <1>9, <2>1, StepMade DEF DeleteMessagesBySessionBefore
  <2> QED
    BY <1>9, <2>2, TermMoved DEF DeleteMessagesBySessionBefore, SessTyped
<1> QED
  BY <1>1, <1>2, <1>3, <1>4, <1>5, <1>6, <1>7, <1>8, <1>9 DEF StepOf

(* What it holds afterwards. *)
LEMMA Holds ==
  ASSUME SessTyped, NEW p \in Terminals
  PROVE  /\ ResumeOrCreateSession(p) =>
              \/ latest = 0 /\ term'[p].step = "create" /\ term'[p].session = 0
              \/ latest # 0 /\ term'[p].step = "resume" /\ term'[p].session = latest
         /\ CreateSession(p) => term'[p].step = "open" /\ term'[p].session = created + 1
         /\ ResumeSession(p) => term'[p].step = "open" /\ term'[p].session = term[p].session
         /\ AddMessage(p) => term'[p].step = "open" /\ term'[p].session = term[p].session
         /\ Quit(p) => term'[p].step = "off" /\ term'[p].session = 0
         /\ AddSessionSummary(p) => /\ term'[p].step = "delete"
                                    /\ term'[p].session = term[p].session
                                    /\ term'[p].cut = term[p].cut
         /\ DeleteMessagesBySessionBefore(p) => /\ term'[p].step = "open"
                                                /\ term'[p].session = term[p].session
BY DEF SessTyped, Does, Off, ResumeOrCreateSession, CreateSession, ResumeSession, AddMessage,
  Quit, AddSessionSummary, DeleteMessagesBySessionBefore

LEMMA NumberTaken ==
  ASSUME SessTyped, NEW p \in Terminals, TakeSeq(p)
  PROVE  /\ term'[p].step = "add" /\ term'[p].session = term[p].session
         /\ term'[p].key = <<term[p].session, seqCache'[p]>>
         /\ term'[p].msg = <<p, written'[p]>> /\ written'[p] = written[p] + 1
         /\ seqCache'[p] \in Nat \ {NoSeq}
         /\ IF seqCache[p] = NoSeq
            THEN \A k \in DOMAIN rows : k[1] = term[p].session => k[2] < seqCache'[p]
            ELSE seqCache'[p] > seqCache[p]
<1> DEFINE s == term[p].session
           seq == (IF seqCache[p] = NoSeq THEN GetMaxSeqBySession(s) ELSE seqCache[p]) + 1
           r == [step |-> "add", session |-> s, key |-> <<s, seq>>, msg |-> <<p, written'[p]>>]
<1>1. /\ seqCache' = [seqCache EXCEPT ![p] = seq]
      /\ written' = [written EXCEPT ![p] = written[p] + 1]
      /\ term' = [term EXCEPT ![p] = r]
  BY DEF TakeSeq, Does
<1>2. term'[p] = r /\ seqCache'[p] = seq /\ written'[p] = written[p] + 1
  BY <1>1 DEF SessTyped
<1>3. GetMaxSeqBySession(s) \in Nat /\ seqCache[p] \in Nat
  BY MaxSeq, Seen
<1>4. seq \in Nat \ {NoSeq}
  BY <1>3 DEF NoSeq
<1>5. ASSUME seqCache[p] = NoSeq
      PROVE  \A k \in DOMAIN rows : k[1] = s => k[2] < seq
  BY <1>3, <1>5, MaxSeq DEF SessTyped
<1>6. seqCache[p] # NoSeq => seq > seqCache[p]
  BY <1>3
<1> QED
  BY <1>2, <1>4, <1>5, <1>6

(* The rows of a session, unless a message is added. *)
LEMMA RowsLeft ==
  ASSUME NEW p \in Terminals, StepOf(p), ~AddMessage(p)
  PROVE  /\ DOMAIN rows' \subseteq DOMAIN rows /\ \A k \in DOMAIN rows' : rows'[k] = rows[k]
         /\ UNCHANGED <<accepted, refused, overtaken>>
BY DEF StepOf, ResumeOrCreateSession, CreateSession, ResumeSession, TakeSeq, Quit,
  CompactSession, AddSessionSummary, DeleteMessagesBySessionBefore, transcript

LEMMA HistoryGrows ==
  ASSUME NEW p \in Terminals, StepOf(p)
  PROVE  /\ summaries \subseteq summaries' /\ overtaken \subseteq overtaken'
         /\ shared \subseteq shared' /\ accepted \subseteq accepted'
BY DEF StepOf, ResumeOrCreateSession, CreateSession, ResumeSession, TakeSeq, AddMessage, Quit,
  CompactSession, AddSessionSummary, DeleteMessagesBySessionBefore, transcript

(* A message that is added. *)
LEMMA Added ==
  ASSUME SessTyped, NEW p \in Terminals, AddMessage(p)
  PROVE  LET k == <<term[p].session, seqCache[p]>>
             m == <<p, written[p]>>
         IN  /\ k \in (1..created) \X (Nat \ {NoSeq}) /\ m \in Message
             /\ k[1] = term[p].session /\ k[2] = seqCache[p]
             /\ UNCHANGED <<created, summaries, seqCache, written, shared>>
             /\ IF k \in DOMAIN rows
                THEN /\ refused' = refused \cup {m}
                     /\ UNCHANGED <<rows, accepted, overtaken, latest>>
                ELSE /\ DOMAIN rows' = DOMAIN rows \cup {k} /\ rows'[k] = m
                     /\ \A j \in DOMAIN rows : rows'[j] = rows[j]
                     /\ accepted' = accepted \cup {m} /\ latest' = term[p].session
                     /\ UNCHANGED refused
                     /\ \A o \in Users(k[1]) :
                          term[o].step \in {"summary", "delete"} /\ term[o].cut > k[2]
                          => m \in overtaken'
<1>1. /\ term[p].step = "add" /\ term[p].key = <<term[p].session, seqCache[p]>>
      /\ term[p].msg = <<p, written[p]>> /\ seqCache[p] # NoSeq
      /\ term[p].session \in 1..created /\ seqCache[p] \in Nat /\ written[p] \in Nat
  BY Seen DEF AddMessage, Carries
<1> DEFINE k == <<term[p].session, seqCache[p]>>
           m == <<p, written[p]>>
<1>2. k \in (1..created) \X (Nat \ {NoSeq}) /\ m \in Message
  BY <1>1 DEF Message
<1>3. k[1] = term[p].session /\ k[2] = seqCache[p]
  OBVIOUS
<1>4. UNCHANGED <<created, summaries, seqCache, written, shared>>
  BY DEF AddMessage
<1>5. CASE k \in DOMAIN rows
  BY <1>1, <1>2, <1>3, <1>4, <1>5 DEF AddMessage
<1>6. CASE k \notin DOMAIN rows
  <2>1. /\ rows' = [j \in DOMAIN rows \cup {k} |-> IF j = k THEN m ELSE rows[j]]
        /\ accepted' = accepted \cup {m} /\ latest' = k[1]
        /\ overtaken' = IF \E o \in Users(k[1]) : /\ term[o].step \in {"summary", "delete"}
                                                   /\ term[o].cut > k[2]
                        THEN overtaken \cup {m} ELSE overtaken
        /\ UNCHANGED refused
    BY <1>1, <1>6 DEF AddMessage
  <2> HIDE DEF k, m
  <2>2. /\ DOMAIN rows' = DOMAIN rows \cup {k} /\ rows'[k] = m
        /\ \A j \in DOMAIN rows : rows'[j] = rows[j]
    BY <1>6, <2>1
  <2>3. \A o \in Users(k[1]) : term[o].step \in {"summary", "delete"} /\ term[o].cut > k[2]
                               => m \in overtaken'
    BY <2>1
  <2> QED
    BY <1>2, <1>3, <1>4, <1>6, <2>1, <2>2, <2>3 DEF k, m
<1> QED
  BY <1>5, <1>6

-----------------------------------------------------------------------------
(***************************************************************************)
(* The parts of the invariant, one after the other.                        *)
(***************************************************************************)
LEMMA CreatedGrows ==
  ASSUME SessTyped, NEW p \in Terminals, StepOf(p)
  PROVE  created \in 0..MaxSessions /\ created' \in 0..MaxSessions /\ created <= created'
<1>1. created \in Nat /\ MaxSessions \in Nat /\ created <= MaxSessions
  BY SessionsAssumption DEF SessTyped
<1>2. CASE CreateSession(p)
  BY <1>1, <1>2 DEF CreateSession
<1>3. CASE ~CreateSession(p)
  <2>1. created' = created
    BY <1>3 DEF StepOf, ResumeOrCreateSession, ResumeSession, TakeSeq, AddMessage,
      Quit, CompactSession, AddSessionSummary, DeleteMessagesBySessionBefore
  <2> QED
    BY <1>1, <2>1
<1> QED
  BY <1>2, <1>3

LEMMA InHandKept ==
  ASSUME SessTyped, NEW p \in Terminals, StepOf(p), NEW o \in Terminals
  PROVE  Carries(o)'
<1>1. /\ Carries(o) /\ Carries(p) /\ created \in Nat /\ created' \in Nat /\ created <= created'
      /\ term[p].session \in 0..created /\ latest \in 0..created
  BY Seen, CreatedGrows
<1>2. CASE o # p
  BY <1>1, <1>2, Moves DEF Carries, Opened
<1>3. CASE o = p
  <2>1. CASE ResumeOrCreateSession(p)
    BY <1>1, <1>3, <2>1, Holds DEF Carries, Opened, ResumeOrCreateSession, transcript
  <2>2. CASE CreateSession(p)
    BY <1>1, <1>3, <2>2, Holds DEF Carries, Opened, CreateSession, transcript
  <2>3. CASE ResumeSession(p)
    BY <1>1, <1>3, <2>3, Holds DEF Carries, Opened, ResumeSession, transcript
  <2>4. CASE TakeSeq(p)
    <3>1. term[p].step = "open"
      BY <2>4 DEF TakeSeq
    <3> QED
      BY <1>1, <1>3, <2>4, <3>1, NumberTaken DEF Carries, Opened
  <2>5. CASE AddMessage(p)
    <3>1. term[p].step = "add"
      BY <2>5 DEF AddMessage
    <3> QED
      BY <1>1, <1>3, <2>5, <3>1, Holds DEF Carries, Opened
  <2>6. CASE Quit(p)
    <3>1. seqCache'[p] = NoSeq
      BY <2>6 DEF Quit, SessTyped
    <3> QED
      BY <1>1, <1>3, <2>6, <3>1, Holds DEF Carries, Opened
  <2>7. CASE CompactSession(p)
    <3>1. term[p].step = "open"
      BY <2>7 DEF CompactSession
    <3> QED
      BY <1>1, <1>3, <2>7, <3>1, CompactCuts DEF Carries, Opened
  <2>8. CASE AddSessionSummary(p)
    <3>1. term[p].step = "summary"
      BY <2>8 DEF AddSessionSummary
    <3> QED
      BY <1>1, <1>3, <2>8, <3>1, Holds DEF Carries, Opened
  <2>9. CASE DeleteMessagesBySessionBefore(p)
    <3>1. term[p].step = "delete"
      BY <2>9 DEF DeleteMessagesBySessionBefore
    <3> QED
      BY <1>1, <1>3, <2>9, <3>1, Holds DEF Carries, Opened
  <2> QED
    BY <2>1, <2>2, <2>3, <2>4, <2>5, <2>6, <2>7, <2>8, <2>9 DEF StepOf
<1> QED
  BY <1>2, <1>3

LEMMA SessTypedKept ==
  ASSUME SessTyped, NEW p \in Terminals, StepOf(p)
  PROVE  SessTyped'
<1>1. /\ term' \in [Terminals -> Steps]
      /\ seqCache' \in [Terminals -> Nat] /\ written' \in [Terminals -> Nat]
  BY Moves
<1>2. created' \in 0..MaxSessions /\ created \in Nat /\ created' \in Nat /\ created <= created'
  BY CreatedGrows
<1>3. \A o \in Terminals : Carries(o)'
  BY InHandKept
<1>4. CASE AddMessage(p)
  <2> DEFINE k == <<term[p].session, seqCache[p]>>
             m == <<p, written[p]>>
  <2>1. /\ k \in (1..created) \X (Nat \ {NoSeq}) /\ m \in Message
        /\ k[1] = term[p].session /\ k[2] \in Nat /\ created' = created
        /\ IF k \in DOMAIN rows
           THEN /\ refused' = refused \cup {m} /\ UNCHANGED <<rows, accepted, latest>>
           ELSE /\ DOMAIN rows' = DOMAIN rows \cup {k} /\ rows'[k] = m
                /\ \A j \in DOMAIN rows : rows'[j] = rows[j]
                /\ accepted' = accepted \cup {m} /\ latest' = k[1] /\ UNCHANGED refused
    BY <1>4, Added
  <2> HIDE DEF k, m
  <2>2. (accepted \cup refused)' \subseteq Message /\ latest' \in 0..created'
    BY <2>1 DEF SessTyped
  <2>3. \A j \in DOMAIN rows' : j \in (1..created') \X (Nat \ {NoSeq}) /\ rows'[j] \in accepted'
    BY <2>1 DEF SessTyped
  <2>4. \E n \in Nat : \A j \in DOMAIN rows' : j[2] <= n
    <3>1. PICK n \in Nat : \A j \in DOMAIN rows : j[2] <= n
      BY DEF SessTyped
    <3>2. \A j \in DOMAIN rows : j[2] \in Nat /\ j[2] <= n
      BY <3>1 DEF SessTyped
    <3>3. \A j \in DOMAIN rows' : j[2] <= n + k[2]
      BY <2>1, <3>2
    <3> QED
      BY <2>1, <3>3
  <2> QED
    BY <1>1, <1>2, <1>3, <2>2, <2>3, <2>4 DEF SessTyped
<1>5. CASE ~AddMessage(p)
  <2>1. /\ DOMAIN rows' \subseteq DOMAIN rows /\ \A k \in DOMAIN rows' : rows'[k] = rows[k]
        /\ UNCHANGED <<accepted, refused>>
    BY <1>5, RowsLeft
  <2>2. latest' \in 0..created'
    <3>1. latest \in 0..created /\ term[p].session \in 0..created
      BY Seen
    <3>2. latest' \in {latest, created', term[p].session}
      BY <1>5 DEF StepOf, ResumeOrCreateSession, CreateSession, ResumeSession, TakeSeq,
        Quit, CompactSession, AddSessionSummary, DeleteMessagesBySessionBefore
    <3> QED
      BY <1>2, <3>1, <3>2
  <2>3. \A j \in DOMAIN rows' : j \in (1..created') \X (Nat \ {NoSeq}) /\ rows'[j] \in accepted'
    <3>1. \A j \in 1..created : j \in 1..created'
      BY <1>2
    <3> QED
      BY <2>1, <3>1 DEF SessTyped
  <2>4. (\E n \in Nat : \A j \in DOMAIN rows : j[2] <= n)'
    BY <2>1 DEF SessTyped
  <2>5. (accepted \cup refused)' \subseteq Message
    BY <2>1 DEF SessTyped
  <2> QED
    BY <1>1, <1>2, <1>3, <2>2, <2>3, <2>4, <2>5 DEF SessTyped
<1> QED
  BY <1>4, <1>5

(* A message in hand is the latest of its process. *)
LEMMA InHandIsNew ==
  ASSUME SessTyped, MessagesPast, NEW p \in Terminals, AddMessage(p)
  PROVE  <<p, written[p]>> \notin accepted \cup refused
<1>1. term[p].step = "add" /\ written[p] \in Nat
  BY Seen DEF AddMessage
<1> QED
  BY <1>1 DEF MessagesPast

LEMMA MessagesPastKept ==
  ASSUME SessTyped, MessagesPast, NEW p \in Terminals, StepOf(p)
  PROVE  MessagesPast'
<1> SUFFICES ASSUME NEW m \in (accepted \cup refused)'
             PROVE  /\ m[2] <= written'[m[1]]
                    /\ term'[m[1]].step = "add" => m[2] < written'[m[1]]
  BY DEF MessagesPast
<1>1. written[p] \in Nat
  BY Seen
<1>2. CASE m \in accepted \cup refused
  <2>1. /\ m[2] <= written[m[1]]
        /\ term[m[1]].step = "add" => m[2] < written[m[1]]
        /\ m[1] \in Terminals /\ m[2] \in Nat
    BY <1>2 DEF MessagesPast, SessTyped, Message
  <2>2. CASE m[1] # p
    <3>1. term'[m[1]] = term[m[1]] /\ written'[m[1]] = written[m[1]]
      BY <2>1, <2>2, Moves
    <3> QED
      BY <2>1, <3>1
  <2>3. CASE m[1] = p
    <3>0. m[2] <= written[p] /\ m[2] \in Nat
      BY <2>1, <2>3
    <3>1. CASE TakeSeq(p)
      <4>1. written'[p] = written[p] + 1
        BY <3>1, NumberTaken
      <4>2. m[2] < written'[p] /\ m[2] <= written'[p]
        BY <1>1, <3>0, <4>1
      <4> QED
        BY <2>3, <4>2
    <3>2. CASE ~TakeSeq(p)
      <4>1. term'[p].step # "add"
        BY <3>2, Holds, CompactCuts DEF StepOf
      <4>2. written' = written
        BY <3>2 DEF StepOf, ResumeOrCreateSession, CreateSession, ResumeSession, AddMessage,
          Quit, CompactSession, AddSessionSummary, DeleteMessagesBySessionBefore, transcript
      <4>3. m[2] <= written'[m[1]] /\ term'[m[1]].step # "add"
        BY <2>3, <3>0, <4>1, <4>2
      <4> QED
        BY <4>3
    <3> QED
      BY <3>1, <3>2
  <2> QED
    BY <2>2, <2>3
<1>3. CASE m \notin accepted \cup refused
  <2>1. AddMessage(p) /\ m = <<p, written[p]>> /\ written' = written
    <3>1. AddMessage(p)
      BY <1>3, RowsLeft
    <3>2. /\ (accepted \cup refused)' \subseteq accepted \cup refused \cup {<<p, written[p]>>}
          /\ written' = written
      <4> DEFINE w == <<p, written[p]>>
      <4>1. /\ accepted' \in {accepted, accepted \cup {w}}
            /\ refused' \in {refused, refused \cup {w}} /\ written' = written
        BY <3>1, Added
      <4> HIDE DEF w
      <4>2. (accepted \cup refused)' \subseteq accepted \cup refused \cup {w}
        BY <4>1
      <4> QED
        BY <4>1, <4>2 DEF w
    <3> QED
      BY <1>3, <3>1, <3>2
  <2>2. term'[p].step = "open"
    BY <2>1, Holds
  <2> QED
    BY <1>1, <2>1, <2>2
<1> QED
  BY <1>2, <1>3

LEMMA AloneKept ==
  ASSUME SessTyped, Alone, NEW p \in Terminals, StepOf(p)
  PROVE  Alone'
<1> SUFFICES ASSUME shared' = {}, NEW a \in Terminals, NEW b \in Terminals,
                    Opened(a)', Opened(b)', term'[a].session = term'[b].session, b # p
             PROVE  a = b
  BY DEF Alone
<1>1. shared = {}
  BY HistoryGrows
<1>2. term'[b] = term[b] /\ Opened(b) /\ term[b].session \in 0..created /\ created \in Nat
  BY Moves, Seen DEF Opened
<1>3. CASE a # p
  <2>1. term'[a] = term[a] /\ Opened(a)
    BY <1>3, Moves DEF Opened
  <2> QED
    BY <1>1, <1>2, <2>1 DEF Alone
<1>4. CASE a = p
  <2>1. CASE CreateSession(p)
    BY <1>2, <1>4, <2>1, Holds
  <2>2. CASE ResumeSession(p)
    <3>1. Users(term[p].session) = {p}
      BY <1>1, <2>2 DEF ResumeSession
    <3> QED
      BY <1>2, <1>4, <2>2, <3>1, Holds DEF Users
  <2>3. CASE ~CreateSession(p) /\ ~ResumeSession(p)
    <3>1. ~ResumeOrCreateSession(p) /\ ~Quit(p)
      BY <1>4, Holds DEF Opened
    <3>2. term[p].session = term'[p].session
      BY <2>3, <3>1, Holds, NumberTaken, CompactCuts DEF StepOf
    <3>3. Opened(p) \/ term[p].step = "open"
      BY <2>3, <3>1 DEF StepOf, Opened, TakeSeq, AddMessage, CompactSession, AddSessionSummary,
        DeleteMessagesBySessionBefore
    <3>4. Opened(p)
      BY <3>3 DEF Opened
    <3> QED
      BY <1>1, <1>2, <1>4, <3>2, <3>4 DEF Alone
  <2> QED
    BY <2>1, <2>2, <2>3
<1> QED
  BY <1>3, <1>4

LEMMA CacheAboveKept ==
  ASSUME SessTyped, Alone, CacheAbove, NEW p \in Terminals, StepOf(p)
  PROVE  CacheAbove'
<1> SUFFICES ASSUME NEW o \in Terminals, NEW k \in DOMAIN rows',
                    seqCache'[o] # NoSeq, k[1] = term'[o].session,
                    rows'[k][1] = o \/ shared' = {}
             PROVE  k[2] <= seqCache'[o] /\ (term'[o].step = "add" => k[2] < seqCache'[o])
  BY DEF CacheAbove
<1>1. shared' = {} => shared = {}
  BY HistoryGrows
<1>2. seqCache[p] \in Nat /\ seqCache[o] \in Nat
  BY Seen
<1>3. CASE k \notin DOMAIN rows
  <2>1. AddMessage(p)
    BY <1>3, RowsLeft
  <2>2. /\ k = <<term[p].session, seqCache[p]>> /\ rows'[k] = <<p, written[p]>>
        /\ seqCache' = seqCache
    <3> DEFINE n == <<term[p].session, seqCache[p]>>
               w == <<p, written[p]>>
    <3>1. /\ seqCache' = seqCache
          /\ IF n \in DOMAIN rows THEN rows' = rows
             ELSE DOMAIN rows' = DOMAIN rows \cup {n} /\ rows'[n] = w
      BY <2>1, Added
    <3> HIDE DEF n, w
    <3>2. k = n /\ rows'[k] = w
      BY <1>3, <3>1
    <3> QED
      BY <3>1, <3>2 DEF n, w
  <2>3. o = p
    <3> SUFFICES ASSUME o # p PROVE FALSE
      OBVIOUS
    <3>1. shared = {} /\ term'[o] = term[o]
      BY <1>1, <2>2, Moves
    <3>2. Opened(o)
      BY <2>2, Seen DEF Carries
    <3>3. Opened(p) /\ term[o].session = term[p].session
      BY <2>1, <2>2, <3>1 DEF AddMessage, Opened
    <3> QED
      BY <3>1, <3>2, <3>3 DEF Alone
  <2> QED
    BY <1>2, <2>1, <2>2, <2>3, Holds
<1>4. CASE k \in DOMAIN rows
  <2>1. rows'[k] = rows[k] /\ k[2] \in Nat
    <3>1. CASE AddMessage(p)
      BY <1>4, <3>1, Added DEF SessTyped
    <3>2. CASE ~AddMessage(p)
      BY <1>4, <3>2, RowsLeft DEF SessTyped
    <3> QED
      BY <3>1, <3>2
  <2>2. rows[k][1] = o \/ shared = {}
    BY <1>1, <2>1
  <2>3. CASE o # p
    BY <1>4, <2>2, <2>3, Moves DEF CacheAbove
  <2>4. CASE o = p
    <3>1. CASE TakeSeq(p)
      <4>1. CASE seqCache[p] = NoSeq
        BY <1>4, <2>1, <2>4, <3>1, <4>1, NumberTaken
      <4>2. CASE seqCache[p] # NoSeq
        <5>1. k[2] <= seqCache[p] /\ seqCache'[p] > seqCache[p] /\ seqCache'[p] \in Nat
          BY <1>4, <2>2, <2>4, <3>1, <4>2, NumberTaken DEF CacheAbove
        <5> QED
          BY <1>2, <2>1, <2>4, <5>1
      <4> QED
        BY <4>1, <4>2
    <3>2. CASE ~TakeSeq(p)
      <4>1. term'[p].step # "add"
        BY <3>2, Holds, CompactCuts DEF StepOf
      <4>2. seqCache' = seqCache
        <5>1. ~Quit(p)
          BY <2>4 DEF Quit, SessTyped
        <5> QED
          BY <3>2, <5>1 DEF StepOf, ResumeOrCreateSession, CreateSession, ResumeSession,
            AddMessage, CompactSession, AddSessionSummary, DeleteMessagesBySessionBefore,
            transcript
      <4>3. Opened(p)
        BY <2>4, <4>2, Seen DEF Carries
      <4>4. term'[p].session = term[p].session
        <5>1. ~ResumeOrCreateSession(p) /\ ~CreateSession(p) /\ ~Quit(p)
          <6>1. term[p].step \notin {"off", "create"} /\ seqCache'[p] = seqCache[p]
                /\ seqCache[p] # NoSeq
            BY <2>4, <4>2, <4>3 DEF Opened
          <6> QED
            BY <6>1 DEF ResumeOrCreateSession, CreateSession, Quit, SessTyped
        <5> QED
          BY <3>2, <5>1, Holds, CompactCuts DEF StepOf
      <4> QED
        BY <1>4, <2>2, <2>4, <4>1, <4>2, <4>4 DEF CacheAbove
    <3> QED
      BY <3>1, <3>2
  <2> QED
    BY <2>3, <2>4
<1> QED
  BY <1>3, <1>4

LEMMA CutsToldKept ==
  ASSUME SessTyped, CutsTold, NEW p \in Terminals, StepOf(p)
  PROVE  CutsTold'
<1> SUFFICES ASSUME NEW o \in Terminals, NEW k \in DOMAIN rows',
                    term'[o].step \in {"summary", "delete"},
                    k[1] = term'[o].session, k[2] < term'[o].cut
             PROVE  \/ rows'[k] \in overtaken'
                    \/ IF term'[o].step = "summary" THEN rows'[k] \in term'[o].told
                       ELSE \E t \in summaries' : rows'[k] \in t[2]
  BY DEF CutsTold, Told
<1>1. summaries \subseteq summaries' /\ overtaken \subseteq overtaken'
  BY HistoryGrows
<1>2. CASE o # p
  <2>1. term'[o] = term[o]
    BY <1>2, Moves
  <2>2. CASE k \in DOMAIN rows
    <3>1. rows'[k] = rows[k]
      <4>1. CASE AddMessage(p)
        BY <2>2, <4>1, Added
      <4>2. CASE ~AddMessage(p)
        BY <4>2, RowsLeft
      <4> QED
        BY <4>1, <4>2
    <3> QED
      BY <1>1, <2>1, <2>2, <3>1 DEF CutsTold, Told
  <2>3. CASE k \notin DOMAIN rows
    <3> DEFINE n == <<term[p].session, seqCache[p]>>
               w == <<p, written[p]>>
    <3>1. AddMessage(p)
      BY <2>3, RowsLeft
    <3>2. IF n \in DOMAIN rows THEN rows' = rows
          ELSE /\ DOMAIN rows' = DOMAIN rows \cup {n} /\ rows'[n] = w
               /\ \A a \in Users(n[1]) : term[a].step \in {"summary", "delete"} /\ term[a].cut > n[2]
                                         => w \in overtaken'
      BY <3>1, Added
    <3>3. n[1] = term[p].session /\ n[2] = seqCache[p] /\ seqCache[p] \in Nat
      BY Seen
    <3> HIDE DEF n, w
    <3>4. k = n /\ rows'[k] = w
      BY <2>3, <3>2
    <3>5. o \in Users(n[1]) /\ term[o].cut \in Nat /\ term[o].cut > n[2]
      BY <2>1, <3>3, <3>4, Seen, StepParts DEF Users
    <3> QED
      BY <2>1, <2>3, <3>2, <3>4, <3>5
  <2> QED
    BY <2>2, <2>3
<1>3. CASE o = p
  <2>1. CASE CompactSession(p)
    <3>1. term'[p].step = "summary" /\ rows' = rows /\ term'[p].session = term[p].session
      BY <2>1, CompactCuts DEF CompactSession, transcript
    <3> QED
      BY <1>3, <2>1, <3>1, CompactCuts
  <2>2. CASE AddSessionSummary(p)
    <3>1. /\ rows' = rows /\ overtaken' = overtaken /\ term[p].step = "summary"
          /\ summaries' = summaries \cup {<<term[p].session, term[p].told>>}
      BY <2>2 DEF AddSessionSummary
    <3>2. /\ term'[p].step = "delete" /\ term'[p].session = term[p].session
          /\ term'[p].cut = term[p].cut
      BY <2>2, Holds
    <3>3. rows[k] \in overtaken \/ rows[k] \in term[p].told
      BY <1>3, <3>1, <3>2 DEF CutsTold
    <3> DEFINE sum == <<term[p].session, term[p].told>>
    <3>4. sum \in summaries' /\ sum[2] = term[p].told
      BY <3>1
    <3> HIDE DEF sum
    <3> QED
      BY <1>3, <3>1, <3>2, <3>3, <3>4
  <2>3. CASE ~CompactSession(p) /\ ~AddSessionSummary(p)
    BY <1>3, <2>3, Holds, NumberTaken DEF StepOf
  <2> QED
    BY <2>1, <2>2, <2>3
<1> QED
  BY <1>2, <1>3

LEMMA AddedIsKeptKept ==
  ASSUME SessTyped, CutsTold, AddedIsKept, NEW p \in Terminals, StepOf(p)
  PROVE  AddedIsKept'
<1> SUFFICES ASSUME NEW m \in accepted', m \notin overtaken'
             PROVE  Stored(m)' \/ Told(m)'
  BY DEF AddedIsKept
<1>1. summaries \subseteq summaries' /\ m \notin overtaken
  BY HistoryGrows
<1>2. \A a : Told(a) => Told(a)'
  BY <1>1 DEF Told
<1>3. CASE AddMessage(p)
  <2> DEFINE n == <<term[p].session, seqCache[p]>>
             w == <<p, written[p]>>
  <2>1. IF n \in DOMAIN rows THEN rows' = rows /\ accepted' = accepted
        ELSE /\ DOMAIN rows' = DOMAIN rows \cup {n} /\ rows'[n] = w
             /\ \A j \in DOMAIN rows : rows'[j] = rows[j]
             /\ accepted' = accepted \cup {w}
    BY <1>3, Added
  <2> HIDE DEF n, w
  <2>2. CASE m \in accepted
    BY <1>1, <1>2, <2>1, <2>2 DEF AddedIsKept, Stored
  <2>3. CASE m \notin accepted
    BY <2>1, <2>3 DEF Stored
  <2> QED
    BY <2>2, <2>3
<1>4. CASE DeleteMessagesBySessionBefore(p)
  <2>1. m \in accepted /\ (Stored(m) \/ Told(m))
    BY <1>1, <1>4 DEF AddedIsKept, DeleteMessagesBySessionBefore
  <2>2. CASE Stored(m)
    <3>1. PICK k \in DOMAIN rows : rows[k] = m
      BY <2>2 DEF Stored
    <3>2. CASE k[1] # term[p].session \/ k[2] >= term[p].cut
      BY <1>4, <3>1, <3>2 DEF Stored, DeleteMessagesBySessionBefore
    <3>3. CASE ~(k[1] # term[p].session \/ k[2] >= term[p].cut)
      <4>1. term[p].step = "delete" /\ term[p].cut \in Nat /\ k[2] \in Nat
        BY <1>4, Seen, StepParts DEF DeleteMessagesBySessionBefore, SessTyped
      <4>2. k[2] < term[p].cut
        BY <3>3, <4>1
      <4> QED
        BY <1>1, <1>2, <3>1, <3>3, <4>1, <4>2 DEF CutsTold
    <3> QED
      BY <3>2, <3>3
  <2> QED
    BY <1>2, <2>1, <2>2
<1>5. CASE ~AddMessage(p) /\ ~DeleteMessagesBySessionBefore(p)
  <2>1. rows' = rows /\ accepted' = accepted
    BY <1>5 DEF StepOf, ResumeOrCreateSession, CreateSession, ResumeSession, TakeSeq, Quit,
      CompactSession, AddSessionSummary, transcript
  <2> QED
    BY <1>1, <1>2, <2>1 DEF AddedIsKept, Stored
<1> QED
  BY <1>3, <1>4, <1>5

LEMMA InWrittenOrderKept ==
  ASSUME SessTyped, MessagesPast, CacheAbove, InWrittenOrder, NEW p \in Terminals, StepOf(p)
  PROVE  InWrittenOrder'
<1>1. CASE AddMessage(p)
  <2> DEFINE n == <<term[p].session, seqCache[p]>>
             w == <<p, written[p]>>
  <2>1. IF n \in DOMAIN rows THEN rows' = rows
        ELSE /\ DOMAIN rows' = DOMAIN rows \cup {n} /\ rows'[n] = w
             /\ \A j \in DOMAIN rows : rows'[j] = rows[j]
    BY <1>1, Added
  <2>2. /\ n[1] = term[p].session /\ n[2] = seqCache[p] /\ w[1] = p /\ w[2] = written[p]
        /\ seqCache[p] \in Nat /\ written[p] \in Nat
    BY Seen
  <2> HIDE DEF n, w
  <2>3. ASSUME NEW k \in DOMAIN rows, k[1] = n[1], rows[k][1] = p
        PROVE  k[2] \in Nat /\ k[2] < n[2] /\ rows[k][2] < w[2]
    <3>1. term[p].step = "add" /\ seqCache[p] # NoSeq
      BY <1>1, Seen DEF AddMessage, Carries
    <3>2. k[2] < seqCache[p] /\ k[2] \in Nat
      BY <2>2, <2>3, <3>1 DEF CacheAbove, SessTyped
    <3>3. rows[k] \in accepted
      BY DEF SessTyped
    <3>4. rows[k][2] < written[p]
      BY <2>3, <3>1, <3>3 DEF MessagesPast
    <3> QED
      BY <2>2, <3>2, <3>4
  <2>4. CASE n \in DOMAIN rows
    BY <2>1, <2>4 DEF InWrittenOrder
  <2>5. CASE n \notin DOMAIN rows
    <3> SUFFICES ASSUME NEW j \in DOMAIN rows', NEW k \in DOMAIN rows',
                        j[1] = k[1], rows'[j][1] = rows'[k][1], j[2] < k[2]
                 PROVE  rows'[j][2] < rows'[k][2]
      BY DEF InWrittenOrder
    <3>1. CASE j \in DOMAIN rows /\ k \in DOMAIN rows
      BY <2>1, <2>5, <3>1 DEF InWrittenOrder
    <3>2. CASE j \in DOMAIN rows /\ k = n
      BY <2>1, <2>2, <2>3, <2>5, <3>2
    <3>3. CASE j = n /\ k \in DOMAIN rows
      <4>1. k[2] \in Nat /\ k[2] < n[2] /\ n[2] \in Nat
        BY <2>1, <2>2, <2>3, <2>5, <3>3
      <4> QED
        BY <3>3, <4>1
    <3>4. CASE j = n /\ k = n
      BY <2>2, <3>4
    <3> QED
      BY <2>1, <2>5, <3>1, <3>2, <3>3, <3>4
  <2> QED
    BY <2>4, <2>5
<1>2. CASE ~AddMessage(p)
  BY <1>2, RowsLeft DEF InWrittenOrder
<1> QED
  BY <1>1, <1>2

LEMMA RefusedOnlySharedKept ==
  ASSUME SessTyped, CacheAbove, RefusedOnlyShared, NEW p \in Terminals, StepOf(p)
  PROVE  RefusedOnlyShared'
<1>1. shared \subseteq shared'
  BY HistoryGrows
<1>2. CASE refused' = refused
  BY <1>1, <1>2 DEF RefusedOnlyShared
<1>3. CASE refused' # refused
  <2> DEFINE n == <<term[p].session, seqCache[p]>>
  <2>1. AddMessage(p)
    BY <1>3, RowsLeft
  <2>2. n \in DOMAIN rows
    BY <1>3, <2>1, Added
  <2>3. /\ n[1] = term[p].session /\ n[2] = seqCache[p] /\ seqCache[p] \in Nat
        /\ term[p].step = "add" /\ seqCache[p] # NoSeq
    BY <2>1, Seen DEF AddMessage, Carries
  <2> HIDE DEF n
  <2>4. shared # {}
    BY <2>2, <2>3 DEF CacheAbove
  <2> QED
    BY <1>1, <2>4 DEF RefusedOnlyShared
<1> QED
  BY <1>2, <1>3

LEMMA ApartKept ==
  ASSUME SessTyped, MessagesPast, refused \cap accepted = {}, NEW p \in Terminals, StepOf(p)
  PROVE  (refused \cap accepted = {})'
<1>1. CASE AddMessage(p)
  <2> DEFINE w == <<p, written[p]>>
  <2>1. w \notin accepted \cup refused
    BY <1>1, InHandIsNew
  <2>2. \/ refused' = refused \cup {w} /\ accepted' = accepted
        \/ refused' = refused /\ accepted' = accepted \cup {w}
    BY <1>1, Added
  <2> HIDE DEF w
  <2> QED
    BY <2>1, <2>2
<1>2. CASE ~AddMessage(p)
  BY <1>2, RowsLeft
<1> QED
  BY <1>1, <1>2

-----------------------------------------------------------------------------
LEMMA SessStarts ==
  ASSUME SessInit
  PROVE  SessInv
<1>1. DOMAIN rows = {}
  BY DEF SessInit
<1>2. \A p \in Terminals : term[p] = Off /\ seqCache[p] = NoSeq
  BY DEF SessInit
<1>3. SessTyped
  <2>1. term \in [Terminals -> Steps]
    BY StepMade DEF SessInit
  <2>2. seqCache \in [Terminals -> Nat] /\ written \in [Terminals -> Nat]
    BY DEF SessInit, NoSeq
  <2>3. created \in 0..MaxSessions /\ latest \in 0..created /\ created = 0
    BY SessionsAssumption DEF SessInit
  <2>4. accepted \cup refused = {} /\ 0 \in Nat
    BY DEF SessInit
  <2>5. \A p \in Terminals : Carries(p)
    BY <1>2, <2>3 DEF Carries, Off, Opened
  <2> QED
    BY <1>1, <2>1, <2>2, <2>3, <2>4, <2>5 DEF SessTyped
<1>4. Alone /\ CacheAbove /\ CutsTold
  BY <1>1, <1>2 DEF Alone, CacheAbove, CutsTold, Opened, Off
<1>5. MessagesPast /\ refused \cap accepted = {} /\ TranscriptKept
  BY <1>1 DEF SessInit, MessagesPast, TranscriptKept, AddedIsKept, InWrittenOrder,
    RefusedOnlyShared
<1> QED
  BY <1>3, <1>4, <1>5 DEF SessInv

LEMMA SessKept ==
  ASSUME SessInv, [SessNext]_sessVars
  PROVE  SessInv'
<1>1. ASSUME NEW p \in Terminals, StepOf(p)
      PROVE  SessInv'
  <2> USE DEF SessInv, TranscriptKept
  <2>1. SessTyped' /\ MessagesPast' /\ (refused \cap accepted = {})'
    BY <1>1, SessTypedKept, MessagesPastKept, ApartKept
  <2>2. Alone' /\ CacheAbove' /\ CutsTold'
    BY <1>1, AloneKept, CacheAboveKept, CutsToldKept
  <2>3. AddedIsKept' /\ InWrittenOrder' /\ RefusedOnlyShared'
    BY <1>1, AddedIsKeptKept, InWrittenOrderKept, RefusedOnlySharedKept
  <2> QED
    BY <2>1, <2>2, <2>3
<1>2. CASE SessNext
  BY <1>1, <1>2 DEF SessNext, StepOf
<1>3. CASE UNCHANGED sessVars
  BY <1>3 DEF sessVars, SessInv, SessTyped, Carries, Opened, MessagesPast, Alone, CacheAbove,
    CutsTold, TranscriptKept, AddedIsKept, Stored, Told, InWrittenOrder, RefusedOnlyShared
<1> QED
  BY <1>2, <1>3

(***************************************************************************)
(* The transcript: a message reported as added is kept, or told in a       *)
(* summary, unless it overtook a compaction; the messages of a process     *)
(* stay in the order it wrote them, and none is refused unless a session   *)
(* is shared, for any processes, sessions and compactions                  *)
(* (session/manager.go, state/sessions.go).                                *)
(***************************************************************************)
THEOREM TranscriptCorrect == SessSpec => []TranscriptKept
<1>1. SessInit => SessInv
  BY SessStarts
<1>2. SessInv /\ [SessNext]_sessVars => SessInv'
  BY SessKept
<1>3. SessInv => TranscriptKept
  BY DEF SessInv
<1> QED
  BY <1>1, <1>2, <1>3, PTL DEF SessSpec

LEMMA SessTypes == SessSpec => []SessTypeOK
<1>1. SessInit => SessInv
  BY SessStarts
<1>2. SessInv /\ [SessNext]_sessVars => SessInv'
  BY SessKept
<1>3. SessInv => SessTypeOK
  BY DEF SessInv, SessTyped, SessTypeOK, Carries
<1> QED
  BY <1>1, <1>2, <1>3, PTL DEF SessSpec

-----------------------------------------------------------------------------
(***************************************************************************)
(* THE TERMINAL.                                                           *)
(***************************************************************************)

(***************************************************************************)
(* The mode of the project.                                                *)
(***************************************************************************)
LEMMA ActiveFound ==
  ASSUME runTable \in Seq(Statuses), Active # {}
  PROVE  GetActiveRun \in Active
<1>1. Active \subseteq 1..Len(runTable) /\ Len(runTable) \in Nat
  BY DEF Active
<1>2. IsFiniteSet(1..Len(runTable))
  BY <1>1, FS_Interval
<1>3. IsFiniteSet(Active)
  BY <1>1, <1>2, FS_Subset, Zenon
<1>4. Active \in SUBSET Nat
  BY <1>1
<1>5. PICK m \in Active : \A j \in Active : m >= j
  BY <1>3, <1>4, MaxExists
<1>6. \A j \in Active : j <= m
  BY <1>4, <1>5
<1> QED
  BY <1>6, Zenon DEF GetActiveRun

LEMMA ModeTyped ==
  ASSUME runTable \in Seq(Statuses)
  PROVE  DetermineMode \in Modes
BY DEF DetermineMode, modeFromRunStatus, Modes

LEMMA ModeSame ==
  ASSUME runTable' = runTable
  PROVE  DetermineMode' = DetermineMode /\ Active' = Active /\ GetActiveRun' = GetActiveRun
<1>1. Active' = Active
  BY DEF Active
<1>2. GetActiveRun' = GetActiveRun
  BY DEF GetActiveRun, Active
<1> QED
  BY <1>1, <1>2 DEF DetermineMode, modeFromRunStatus

(* A StartRun call cancels the run in flight. *)
LEMMA NothingToCancel ==
  ASSUME TermTyped, Active = {}
  PROVE  runTable = [i \in DOMAIN runTable |->
                       IF i = GetActiveRun THEN "cancelled" ELSE runTable[i]]
<1>1. GetActiveRun = NoRun /\ DOMAIN runTable \subseteq Nat
  BY DEF GetActiveRun, TermTyped, TermTypeOK
<1>2. \A i \in DOMAIN runTable : i # GetActiveRun
  BY <1>1, TerminalAssumption
<1> QED
  BY <1>2 DEF TermTyped, TermTypeOK

-----------------------------------------------------------------------------
(***************************************************************************)
(* The goroutine.                                                          *)
(***************************************************************************)
LEMMA HandlerParts ==
  ASSUME TermTyped
  PROVE  \/ handler = AtRest /\ handler.cmd = "idle" /\ "after" \notin DOMAIN handler
         \/ handler.cmd = "drain" /\ "after" \notin DOMAIN handler
         \/ handler.cmd = "drain" /\ "after" \in DOMAIN handler /\ handler.after \in Commands
         \/ /\ handler.cmd \in Commands /\ handler.run \in DOMAIN runTable
            /\ "after" \notin DOMAIN handler
BY DEF TermTyped, Handlers, AtRest, Commands, Requires

LEMMA ModeLeft ==
  ASSUME runTable \in Seq(Statuses), NEW c \in Commands
  PROVE  ModeAfter(c) \in Modes
BY ModeTyped DEF ModeAfter, Modes, Commands, Requires

LEMMA HandlersGrow ==
  ASSUME handler' = handler, TermTyped, DOMAIN runTable \subseteq (DOMAIN runTable)'
  PROVE  handler' \in Handlers' /\ (screen' = screen => (screen = "unset" => handler = AtRest)')
BY DEF TermTyped, Handlers

(* What the actions other than those of the goroutine leave alone. *)
LEMMA TermTypedKept ==
  ASSUME TermInv, TermNext
  PROVE  TermTyped'
<1> USE DEF TermInv
<1>1. /\ runTable \in Seq(Statuses) /\ Len(runTable) \in Nat /\ Len(runTable) <= MaxRuns
      /\ DOMAIN runTable = 1..Len(runTable) /\ TermTyped
  BY DEF TermTyped, TermTypeOK
<1> DEFINE Tables == runTable' \in Seq(Statuses) /\ Len(runTable') <= MaxRuns
                     /\ DOMAIN runTable \subseteq DOMAIN runTable'
<1>2. ASSUME runTable' = runTable
      PROVE  Tables
  BY <1>1, <1>2
<1>3. ASSUME Len(runTable) < MaxRuns, runTable' = Append(runTable, "draft")
      PROVE  Tables
  BY <1>1, <1>3, TerminalAssumption DEF Statuses, Ongoing
<1>4. ASSUME NEW i \in DOMAIN runTable, NEW st \in Statuses, runTable' = [runTable EXCEPT ![i] = st]
      PROVE  Tables
  BY <1>1, <1>4
<1>5. CASE Outside
  <2>1. Tables
    <3>1. CASE Len(runTable) < MaxRuns /\ runTable' = Append(runTable, "draft")
      BY <1>3, <3>1
    <3>2. ASSUME NEW i \in Active, NEW to \in Statuses, runTable' = [runTable EXCEPT ![i] = to]
          PROVE  Tables
      BY <1>4, <3>2 DEF Active
    <3> QED
      BY <1>5, <3>1, <3>2 DEF Outside
  <2> QED
    BY <1>1, <1>5, <2>1, HandlersGrow DEF Outside, typed, counted, TermTyped, TermTypeOK
<1>6. CASE handleStartupSummary \/ handleEvent \/ handleStarted
  <2>1. screen' \in Modes /\ screen' # "unset" /\ runTable' = runTable /\ handler' = handler
    BY <1>1, <1>6, ModeTyped DEF handleStartupSummary, handleEvent, handleStarted,
      refreshAfterStateChange, Modes
  <2>2. {channel', results'} \subseteq Nat
    BY <1>6 DEF handleStartupSummary, handleEvent, handleStarted, TermTyped
  <2> QED
    BY <1>1, <1>2, <1>6, <2>1, <2>2, HandlersGrow DEF handleStartupSummary, handleEvent,
      handleStarted, refreshAfterStateChange, Modes, typed, counted, TermTyped, TermTypeOK
<1>7. CASE submitInput
  <2>1. \/ UNCHANGED <<launched, forced, asked>> /\ (UNCHANGED shellLike \/ shellLike' = TRUE)
        \/ shellLike' = FALSE /\ asked' = asked + 1 /\ Launch(FALSE)
    BY <1>7 DEF submitInput
  <2>2. {launched', forced', asked'} \subseteq Nat
    BY <2>1 DEF Launch, TermTyped
  <2>3. shellLike' \in BOOLEAN
    BY <2>1 DEF TermTyped, TermTypeOK
  <2> QED
    BY <1>1, <1>2, <1>7, <2>2, <2>3, HandlersGrow DEF submitInput, TermTyped, TermTypeOK
<1>8. CASE cmdNewRun
  <2>1. handler' \in Handlers'
    BY <1>8, HandlersGrow DEF cmdNewRun, Handlers, TermTyped
  <2>2. screen # "unset"
    BY <1>8 DEF cmdNewRun, Enter, AtPrompt
  <2>3. {asked', armings'} \subseteq Nat
    BY <1>8 DEF cmdNewRun, TermTyped
  <2>4. pendingNewRunConfirm' \in BOOLEAN
    BY <1>8 DEF cmdNewRun
  <2>5. pendingCmd' \in {"none", "plain", "force"}
    BY <1>8 DEF cmdNewRun, TermTyped, TermTypeOK
  <2> QED
    BY <1>1, <1>2, <1>8, <2>1, <2>2, <2>3, <2>4, <2>5 DEF cmdNewRun, TermTyped, TermTypeOK
<1>9. ASSUME NEW cmd \in Commands, Look(cmd)
      PROVE  TermTyped'
  <2> DEFINE run == IF cmd = "resume" THEN Len(runTable) ELSE GetActiveRun
  <2>1. run \in DOMAIN runTable
    <3>1. CASE cmd = "resume"
      BY <1>1, <1>9, <3>1 DEF Look
    <3>2. CASE cmd # "resume"
      <4>1. Active # {}
        BY <1>9, <3>2 DEF Look, GetActiveRun
      <4> QED
        BY <1>1, <3>2, <4>1, ActiveFound DEF Active
    <3> QED
      BY <3>1, <3>2
  <2>2. handler' = [cmd |-> cmd, run |-> run] /\ runTable' = runTable
    BY <1>9 DEF Look
  <2>3. handler' \in Handlers' /\ screen # "unset"
    <3> HIDE DEF run
    <3> QED
      BY <1>9, <2>1, <2>2 DEF Look, Handlers, Enter, AtPrompt
  <2> QED
    BY <1>1, <1>2, <1>9, <2>3 DEF Look, counted, TermTyped, TermTypeOK
<1>10. CASE CallEngine
  <2>1. handler.cmd \in Commands /\ handler.run \in DOMAIN runTable /\ handler # AtRest
    BY <1>10, HandlerParts DEF CallEngine, AtRest, Commands, Requires
  <2>2. Leaves[handler.cmd] \in Statuses
    BY <2>1 DEF Leaves, Statuses, Ongoing, Commands, Requires
  <2>3. Tables
    BY <1>2, <1>4, <1>10, <2>1, <2>2 DEF CallEngine
  <2>4. handler' \in Handlers' /\ screen # "unset" /\ channel' \in Nat
    BY <1>10, <2>1 DEF CallEngine, Handlers, TermTyped
  <2> QED
    BY <1>1, <1>10, <2>3, <2>4 DEF CallEngine, typed, counted, TermTyped, TermTypeOK
<1>11. CASE FinishCommand
  <2>1. handler' \in Handlers' /\ handler # AtRest
    BY <1>11 DEF FinishCommand, Handlers, AtRest
  <2>2. screen' \in Modes
    <3>1. screen # "unset"
      BY <2>1 DEF TermTyped
    <3>2. screen \in Modes
      BY <3>1 DEF TermTyped, TermTypeOK, Modes
    <3>3. CASE "after" \in DOMAIN handler
      <4>1. handler.after \in Commands
        BY <3>3, HandlerParts
      <4> QED
        BY <1>1, <1>11, <3>3, <4>1, ModeLeft DEF FinishCommand
    <3>4. CASE "after" \notin DOMAIN handler
      BY <1>11, <3>2, <3>4 DEF FinishCommand
    <3> QED
      BY <3>3, <3>4
  <2>3. behind' \in BOOLEAN
    BY <1>11 DEF FinishCommand, TermTyped, TermTypeOK
  <2>4. {launched', forced'} \subseteq Nat /\ pendingCmd' \in {"none", "plain", "force"}
    BY <1>11 DEF FinishCommand, Drain, Launch, TermTyped, TermTypeOK
  <2> QED
    BY <1>1, <1>2, <1>11, <2>1, <2>2, <2>3, <2>4 DEF FinishCommand, Modes, TermTyped, TermTypeOK
<1>12. ASSUME NEW s \in starts, StartRunChecks(s)
       PROVE  TermTyped'
  <2> DEFINE Without == [i \in DOMAIN runTable |->
                           IF i = GetActiveRun THEN "cancelled" ELSE runTable[i]]
  <2>1. runTable' = runTable \/ runTable' = Without
    BY <1>12 DEF StartRunChecks
  <2>2. Without \in Seq(Statuses) /\ Len(Without) = Len(runTable) /\ DOMAIN Without = DOMAIN runTable
    <3>1. \A i \in 1..Len(runTable) : Without[i] \in Statuses
      BY <1>1 DEF Statuses
    <3> QED
      BY <1>1, <3>1
  <2>3. Tables
    BY <1>1, <2>1, <2>2
  <2>4. behind' \in BOOLEAN
    BY <1>12 DEF StartRunChecks, TermTyped, TermTypeOK
  <2> QED
    BY <1>1, <1>12, <2>3, <2>4, HandlersGrow DEF StartRunChecks, typed, counted, TermTyped, TermTypeOK
<1>13. ASSUME NEW s \in starts, StartRunFails(s)
       PROVE  TermTyped'
  BY <1>1, <1>2, <1>13, HandlersGrow DEF StartRunFails, typed, counted, TermTyped, TermTypeOK
<1>14. ASSUME NEW s \in starts, CreateRun(s)
       PROVE  TermTyped'
  <2>1. Tables
    BY <1>3, <1>14 DEF CreateRun
  <2>2. channel' \in Nat /\ twoRuns' \in BOOLEAN
    BY <1>14 DEF CreateRun, TermTyped, TermTypeOK
  <2> QED
    BY <1>1, <1>14, <2>1, <2>2, HandlersGrow DEF CreateRun, counted, TermTyped, TermTypeOK
<1>15. ASSUME NEW s \in starts, StartRunEnds(s)
       PROVE  TermTyped'
  <2>1. {channel', results'} \subseteq Nat
    BY <1>15 DEF StartRunEnds, TermTyped
  <2> QED
    BY <1>1, <1>2, <1>15, <2>1, HandlersGrow DEF StartRunEnds, typed, counted, TermTyped, TermTypeOK
<1> QED
  BY <1>5, <1>6, <1>7, <1>8, <1>9, <1>10, <1>11, <1>12, <1>13, <1>14, <1>15 DEF TermNext, Commands

-----------------------------------------------------------------------------
(***************************************************************************)
(* The runs in flight.                                                     *)
(***************************************************************************)
(* No step but a creation adds a run to those in flight. *)
LEMMA ActiveKept ==
  ASSUME OneActive, twoRuns' = twoRuns, Active' \subseteq Active
  PROVE  OneActive'
BY DEF OneActive

LEMMA ActiveAppended ==
  ASSUME runTable \in Seq(Statuses), runTable' = Append(runTable, "draft"), Active = {}
  PROVE  \A i \in Active' : i = Len(runTable) + 1
<1>1. /\ Len(runTable) \in Nat /\ DOMAIN runTable = 1..Len(runTable)
      /\ DOMAIN runTable' = 1..(Len(runTable) + 1)
      /\ \A i \in DOMAIN runTable : runTable'[i] = runTable[i]
  OBVIOUS
<1> QED
  BY <1>1 DEF Active

LEMMA ActiveChanged ==
  ASSUME runTable \in Seq(Statuses), NEW i \in Active, NEW st, runTable' = [runTable EXCEPT ![i] = st]
  PROVE  Active' \subseteq Active /\ Active \ {i} \subseteq Active'
BY DEF Active

LEMMA OneActiveKept ==
  ASSUME TermInv, TermNext
  PROVE  OneActive'
<1> USE DEF TermInv
<1>1. runTable \in Seq(Statuses) /\ TermTyped /\ OneActive
  BY DEF TermTyped, TermTypeOK
<1>2. ASSUME runTable' = runTable, twoRuns' = twoRuns
      PROVE  OneActive'
  BY <1>1, <1>2, ModeSame, ActiveKept
<1>3. CASE Outside
  <2>1. twoRuns' = twoRuns
    BY <1>3 DEF Outside, typed
  <2>2. CASE Active = {} /\ runTable' = Append(runTable, "draft")
    BY <1>1, <2>2, ActiveAppended DEF OneActive
  <2>3. ASSUME NEW i \in Active, NEW to \in Statuses, runTable' = [runTable EXCEPT ![i] = to]
        PROVE  OneActive'
    BY <1>1, <2>1, <2>3, ActiveChanged, ActiveKept
  <2> QED
    BY <1>3, <2>2, <2>3 DEF Outside
<1>4. CASE handleStartupSummary \/ handleEvent \/ handleStarted
  BY <1>2, <1>4 DEF handleStartupSummary, handleEvent, handleStarted, typed
<1>5. CASE submitInput \/ cmdNewRun \/ \E cmd \in Commands : Look(cmd)
  BY <1>2, <1>5 DEF submitInput, cmdNewRun, Look
<1>6. CASE CallEngine
  <2>1. twoRuns' = twoRuns
    BY <1>6 DEF CallEngine, typed
  <2>2. CASE runTable' = runTable
    BY <1>2, <2>1, <2>2
  <2>3. CASE runTable' # runTable
    <3>1. handler.cmd \in Commands /\ handler.run \in DOMAIN runTable
      BY <1>6, HandlerParts DEF CallEngine, AtRest, Commands, Requires
    <3>2. /\ runTable[handler.run] \in Requires[handler.cmd]
          /\ runTable' = [runTable EXCEPT ![handler.run] = Leaves[handler.cmd]]
      BY <1>6, <2>3 DEF CallEngine
    <3>3. handler.run \in Active
      BY <3>1, <3>2 DEF Active, Requires, Ongoing, Commands
    <3> QED
      BY <1>1, <2>1, <3>2, <3>3, ActiveChanged, ActiveKept
  <2> QED
    BY <2>2, <2>3
<1>7. CASE FinishCommand
  BY <1>2, <1>7 DEF FinishCommand
<1>8. ASSUME NEW s \in starts, StartRunChecks(s)
      PROVE  OneActive'
  <2>1. twoRuns' = twoRuns
    BY <1>8 DEF StartRunChecks, typed
  <2>2. Active' \subseteq Active
    BY <1>8 DEF StartRunChecks, Active, Ongoing
  <2> QED
    BY <1>1, <2>1, <2>2, ActiveKept
<1>9. ASSUME NEW s \in starts, StartRunFails(s) \/ StartRunEnds(s)
      PROVE  OneActive'
  BY <1>2, <1>9 DEF StartRunFails, StartRunEnds, typed
<1>10. ASSUME NEW s \in starts, CreateRun(s)
       PROVE  OneActive'
  BY <1>1, <1>10, ActiveAppended DEF CreateRun, OneActive
<1> QED
  BY <1>3, <1>4, <1>5, <1>6, <1>7, <1>8, <1>9, <1>10 DEF TermNext, Commands

-----------------------------------------------------------------------------
(***************************************************************************)
(* The mode that is shown.                                                 *)
(***************************************************************************)

(* The mode of the project when one run is in flight, and when none is. *)
LEMMA ModeOfOnly ==
  ASSUME runTable' \in Seq(Statuses), NEW i \in Nat, Active' = {i}
  PROVE  DetermineMode' = modeFromRunStatus(runTable'[i])
<1>1. GetActiveRun' = i
  BY DEF GetActiveRun
<1>2. i \in DOMAIN runTable'
  BY DEF Active
<1>3. runTable' # <<>>
  BY <1>2
<1> QED
  BY <1>1, <1>3 DEF DetermineMode, modeFromRunStatus

LEMMA ModeOfNone ==
  ASSUME runTable' \in Seq(Statuses), runTable' # <<>>, Active' = {}
  PROVE  DetermineMode' = "postrun"
<1>1. Len(runTable') \in DOMAIN runTable'
  OBVIOUS
<1>2. runTable'[Len(runTable')] \in Statuses \ Ongoing
  BY <1>1 DEF Active
<1> QED
  BY <1>2 DEF DetermineMode, modeFromRunStatus, Statuses, Ongoing

LEMMA ShownSame ==
  ASSUME UNCHANGED <<runTable, screen, handler>>
  PROVE  Shown' = Shown /\ DetermineMode' = DetermineMode
BY ModeSame, Zenon DEF Shown, ModeAfter

LEMMA ShownAtRest ==
  ASSUME "after" \notin DOMAIN handler
  PROVE  Shown = screen
BY DEF Shown

(* A refresh shows the mode, a step with an event or out of sight need not. *)
LEMMA Refreshed ==
  ASSUME TermTyped, refreshAfterStateChange, UNCHANGED <<runTable, handler>>, handler = AtRest
  PROVE  UpToDate'
<1>1. DetermineMode' = DetermineMode /\ screen' = DetermineMode
  BY ModeSame DEF refreshAfterStateChange
<1>2. Shown' = screen'
  BY DEF Shown, AtRest
<1> QED
  BY <1>1, <1>2 DEF UpToDate

LEMMA StillUpToDate ==
  ASSUME UpToDate, UNCHANGED <<screen, behind, twoRuns>>, channel' = 0 => channel = 0,
         Shown' = Shown, DetermineMode' = DetermineMode
  PROVE  UpToDate'
BY DEF UpToDate

(* The mode after a call that the engine has accepted. *)
LEMMA CallShown ==
  ASSUME TermInv, CallEngine, ~twoRuns, channel' = 0
  PROVE  Shown' = DetermineMode' \/ (Shown' = Shown /\ runTable' = runTable)
<1> USE DEF TermInv
<1>1. /\ handler.cmd \in Commands /\ handler.run \in DOMAIN runTable
      /\ "after" \notin DOMAIN handler
  BY HandlerParts DEF CallEngine, AtRest, Commands, Requires
<1>2. /\ runTable \in Seq(Statuses) /\ DOMAIN runTable = 1..Len(runTable) /\ screen' = screen
      /\ TermTyped'
  BY TermTypedKept DEF TermTyped, TermTypeOK, CallEngine, TermNext
<1>3. CASE runTable[handler.run] \notin Requires[handler.cmd]
  BY <1>1, <1>2, <1>3 DEF CallEngine, Shown
<1>4. CASE runTable[handler.run] \in Requires[handler.cmd]
  <2>0. PICK c \in Commands, r \in DOMAIN runTable : c = handler.cmd /\ r = handler.run
    BY <1>1
  <2>1. /\ runTable[r] \in Requires[c] /\ r \in Nat
        /\ runTable' = [runTable EXCEPT ![r] = Leaves[c]]
        /\ handler' = [cmd |-> "drain", after |-> c]
    BY <1>2, <1>4, <2>0 DEF CallEngine
  <2>2. Active = {r}
    <3>1. r \in Active
      BY <2>1 DEF Active, Requires, Ongoing, Commands
    <3> QED
      BY <3>1 DEF OneActive
  <2>3. /\ c = "pause" => Shown' = "execution"
        /\ c = "cancel" => Shown' = "postrun"
        /\ c \notin {"pause", "cancel"} => Shown' = DetermineMode'
    BY <2>1 DEF Shown, ModeAfter
  <2>4. CASE c = "pause"
    <3>1. runTable'[r] = "paused"
      BY <1>2, <2>1, <2>4 DEF Leaves
    <3>2. Active' = {r}
      BY <1>2, <2>1, <2>2, <3>1 DEF Active, Ongoing
    <3>3. DetermineMode' = modeFromRunStatus(runTable'[r])
      BY <1>2, <2>1, <3>2, ModeOfOnly DEF TermTyped, TermTypeOK
    <3> QED
      BY <2>3, <2>4, <3>1, <3>3 DEF modeFromRunStatus
  <2>5. CASE c = "cancel"
    <3>1. runTable'[r] = "cancelled"
      BY <1>2, <2>1, <2>5 DEF Leaves
    <3>2. Active' = {} /\ runTable' # <<>>
      BY <1>2, <2>1, <2>2, <3>1 DEF Active, Ongoing
    <3>3. DetermineMode' = "postrun"
      BY <1>2, <3>2, ModeOfNone DEF TermTyped, TermTypeOK
    <3> QED
      BY <2>3, <2>5, <3>3
  <2>6. CASE c \notin {"pause", "cancel"}
    BY <2>3, <2>6
  <2> QED
    BY <2>4, <2>5, <2>6
<1> QED
  BY <1>3, <1>4

LEMMA UpToDateKept ==
  ASSUME TermInv, TermNext
  PROVE  UpToDate'
<1> USE DEF TermInv
<1>1. TermTyped /\ UpToDate /\ channel \in Nat
  BY DEF TermTyped
<1>2. CASE Outside
  BY <1>2 DEF Outside, UpToDate
<1>3. CASE handleStartupSummary \/ handleEvent \/ handleStarted
  <2>1. refreshAfterStateChange /\ UNCHANGED <<runTable, handler>>
    BY <1>3 DEF handleStartupSummary, handleEvent, handleStarted
  <2>2. handler = AtRest
    BY <1>3 DEF handleStartupSummary, handleEvent, handleStarted, AtPrompt, TermTyped
  <2> QED
    BY <1>1, <2>1, <2>2, Refreshed
<1>4. CASE submitInput
  BY <1>1, <1>4, ShownSame, StillUpToDate DEF submitInput
<1>5. CASE cmdNewRun \/ \E cmd \in Commands : Look(cmd)
  <2>1. UNCHANGED <<runTable, screen, channel, behind, twoRuns>> /\ handler = AtRest
    BY <1>5 DEF cmdNewRun, Look, Enter, AtPrompt
  <2>2. "after" \notin DOMAIN handler /\ "after" \notin DOMAIN handler'
    BY <1>5, <2>1 DEF cmdNewRun, Look, AtRest
  <2>3. Shown' = Shown
    BY <2>1, <2>2 DEF Shown
  <2> QED
    BY <1>1, <2>1, <2>3, ModeSame, StillUpToDate
<1>6. CASE CallEngine
  <2>1. UNCHANGED <<screen, behind, twoRuns>> /\ (channel' = 0 => channel = 0)
    BY <1>1, <1>6 DEF CallEngine, typed
  <2>2. CASE twoRuns \/ channel' # 0
    BY <2>1, <2>2 DEF UpToDate
  <2>3. CASE ~twoRuns /\ channel' = 0
    <3>1. CASE Shown' = DetermineMode'
      BY <3>1 DEF UpToDate
    <3>2. CASE Shown' = Shown /\ runTable' = runTable
      BY <1>1, <2>1, <3>2, ModeSame, StillUpToDate
    <3> QED
      BY <1>6, <2>3, <3>1, <3>2, CallShown
  <2> QED
    BY <2>2, <2>3
<1>7. CASE FinishCommand
  <2>1. UNCHANGED <<runTable, channel, twoRuns>> /\ handler' = AtRest /\ screen' = Shown
    BY <1>7 DEF FinishCommand, Shown
  <2>2. Shown' = screen' /\ DetermineMode' = DetermineMode
    BY <2>1, ModeSame DEF Shown, AtRest
  <2>3. screen # "unset"
    BY <1>1, <1>7 DEF FinishCommand, TermTyped, AtRest
  <2>4. CASE "after" \in DOMAIN handler /\ handler.after \in {"resume", "approve", "reject"}
    <3>1. Shown = DetermineMode
      BY <2>4 DEF Shown, ModeAfter
    <3> QED
      BY <2>1, <2>2, <3>1 DEF UpToDate
  <2>5. CASE ~("after" \in DOMAIN handler /\ handler.after \in {"resume", "approve", "reject"})
    <3>1. behind' = behind
      BY <1>7, <2>5 DEF FinishCommand
    <3> QED
      BY <1>1, <2>1, <2>2, <2>3, <3>1 DEF UpToDate
  <2> QED
    BY <2>4, <2>5
<1>8. ASSUME NEW s \in starts, StartRunChecks(s)
      PROVE  UpToDate'
  <2>1. UNCHANGED <<screen, handler, channel, twoRuns>>
    BY <1>8 DEF StartRunChecks, typed
  <2>2. CASE runTable' = runTable /\ behind' = behind
    BY <1>1, <2>1, <2>2, ShownSame, StillUpToDate
  <2>3. CASE ~(runTable' = runTable /\ behind' = behind)
    <3>1. /\ behind' = (behind \/ Active # {})
          /\ runTable' = [i \in DOMAIN runTable |->
                            IF i = GetActiveRun THEN "cancelled" ELSE runTable[i]]
      BY <1>8, <2>3 DEF StartRunChecks
    <3>2. CASE Active # {}
      BY <3>1, <3>2 DEF UpToDate
    <3>3. CASE Active = {}
      <4>1. runTable' = runTable
        BY <1>1, <3>1, <3>3, NothingToCancel
      <4>2. behind' = behind
        BY <3>1, <3>3 DEF TermTyped, TermTypeOK
      <4> QED
        BY <2>3, <4>1, <4>2
    <3> QED
      BY <3>2, <3>3
  <2> QED
    BY <2>2, <2>3
<1>9. ASSUME NEW s \in starts, StartRunFails(s)
      PROVE  UpToDate'
  BY <1>1, <1>9, ShownSame, StillUpToDate DEF StartRunFails, typed
<1>10. ASSUME NEW s \in starts, CreateRun(s) \/ StartRunEnds(s)
       PROVE  UpToDate'
  <2>1. channel' = channel + 1
    BY <1>10 DEF CreateRun, StartRunEnds
  <2> QED
    BY <1>1, <2>1 DEF UpToDate
<1> QED
  BY <1>2, <1>3, <1>4, <1>5, <1>6, <1>7, <1>8, <1>9, <1>10 DEF TermNext, Commands

-----------------------------------------------------------------------------
(***************************************************************************)
(* The calls.                                                              *)
(***************************************************************************)
LEMMA CallsCountedKept ==
  ASSUME TermInv, TermNext
  PROVE  CallsCounted'
<1> USE DEF TermInv
<1>1. {asked, armings, launched, forced} \subseteq Nat /\ CallsCounted
  BY DEF TermTyped
<1>2. ASSUME UNCHANGED <<pendingCmd, pendingNewRunConfirm, asked, armings, launched, forced>>
      PROVE  CallsCounted'
  BY <1>1, <1>2 DEF CallsCounted
<1>3. CASE submitInput
  <2>1. UNCHANGED <<pendingCmd, pendingNewRunConfirm, armings>>
    BY <1>3 DEF submitInput
  <2>2. \/ UNCHANGED <<launched, forced, asked>>
        \/ asked' = asked + 1 /\ launched' = launched + 1 /\ forced' = forced
    BY <1>3 DEF submitInput, Launch
  <2> QED
    BY <1>1, <2>1, <2>2 DEF CallsCounted
<1>4. CASE cmdNewRun
  <2>1. UNCHANGED <<launched, forced>>
    BY <1>4 DEF cmdNewRun
  <2>2. CASE /\ ~pendingNewRunConfirm /\ pendingNewRunConfirm' = TRUE
             /\ armings' = armings + 1 /\ UNCHANGED <<pendingCmd, asked>>
    BY <1>1, <2>1, <2>2 DEF CallsCounted
  <2>3. CASE /\ screen = "bootstrap" \/ pendingNewRunConfirm
             /\ pendingNewRunConfirm' = FALSE /\ asked' = asked + 1 /\ UNCHANGED armings
             /\ pendingCmd' = IF screen # "bootstrap" THEN "force" ELSE "plain"
    BY <1>1, <2>1, <2>3 DEF CallsCounted
  <2> QED
    BY <1>4, <2>2, <2>3 DEF cmdNewRun
<1>5. CASE FinishCommand
  <2>1. UNCHANGED <<pendingNewRunConfirm, asked, armings>> /\ Drain
    BY <1>5 DEF FinishCommand
  <2>2. CASE pendingCmd = "none"
    BY <1>1, <2>1, <2>2 DEF Drain, CallsCounted
  <2>3. CASE pendingCmd # "none"
    BY <1>1, <2>1, <2>3 DEF Drain, Launch, CallsCounted
  <2> QED
    BY <2>2, <2>3
<1>6. CASE \/ Outside \/ handleStartupSummary \/ handleEvent \/ handleStarted
           \/ (\E cmd \in Commands : Look(cmd)) \/ CallEngine
           \/ \E s \in starts :
                StartRunChecks(s) \/ StartRunFails(s) \/ CreateRun(s) \/ StartRunEnds(s)
  BY <1>2, <1>6 DEF Outside, handleStartupSummary, handleEvent, handleStarted, Look, CallEngine,
    StartRunChecks, StartRunFails, CreateRun, StartRunEnds, typed, counted
<1> QED
  BY <1>3, <1>4, <1>5, <1>6 DEF TermNext, Commands

LEMMA TerminalShows ==
  ASSUME TermTyped, UpToDate, CallsCounted
  PROVE  TerminalFaithful
<1>1. ModeFollows
  <2>1. handler = AtRest => Shown = screen
    BY ShownAtRest DEF AtRest
  <2> QED
    BY <2>1 DEF ModeFollows, AtPrompt, UpToDate
<1>2. StartsAsked
  BY DEF TermTyped, CallsCounted, StartsAsked
<1> QED
  BY <1>1, <1>2 DEF TerminalFaithful

LEMMA TermStarts == TermInit => TermInv
<1> SUFFICES ASSUME TermInit
             PROVE  TermInv
  OBVIOUS
<1>1. TermTyped
  <2>1. handler \in Handlers /\ runTable = <<>>
    BY DEF TermInit, Handlers
  <2>2. runTable \in Seq(Statuses) /\ Len(runTable) <= MaxRuns
    BY <2>1, TerminalAssumption
  <2>3. {shellLike, pendingNewRunConfirm, behind, twoRuns} \subseteq BOOLEAN
    BY DEF TermInit
  <2> QED
    BY <2>1, <2>2, <2>3 DEF TermInit, TermTyped, TermTypeOK
<1>2. OneActive /\ UpToDate /\ CallsCounted
  BY DEF TermInit, OneActive, Active, UpToDate, CallsCounted
<1> QED
  BY <1>1, <1>2 DEF TermInv

LEMMA TermKept ==
  ASSUME TermInv, [TermNext]_termVars
  PROVE  TermInv'
<1>1. CASE TermNext
  <2>1. TermTyped' /\ OneActive' /\ UpToDate' /\ CallsCounted'
    BY <1>1, TermTypedKept, OneActiveKept, UpToDateKept, CallsCountedKept
  <2> QED
    BY <2>1 DEF TermInv
<1>2. CASE UNCHANGED termVars
  <2> USE DEF termVars, TermInv
  <2>1. Active' = Active /\ Shown' = Shown /\ DetermineMode' = DetermineMode
    BY <1>2, ModeSame, ShownSame
  <2>2. TermTyped'
    BY <1>2 DEF TermTyped, TermTypeOK, Handlers
  <2>3. OneActive' /\ UpToDate' /\ CallsCounted'
    BY <1>2, <2>1 DEF OneActive, UpToDate, CallsCounted
  <2> QED
    BY <2>2, <2>3
<1> QED
  BY <1>1, <1>2

(***************************************************************************)
(* The terminal: it shows the mode of the project whenever no event is on  *)
(* its way, whatever StartRun calls are in the background, unless the run  *)
(* moved elsewhere, and it starts at most one run per prompt, none over a  *)
(* run in flight without a gate that was armed for it, for any number of   *)
(* runs, lines and events (tui/model.go).                                  *)
(***************************************************************************)
THEOREM TerminalCorrect == TermSpec => []TerminalFaithful
<1>1. TermInit => TermInv
  BY TermStarts
<1>2. TermInv /\ [TermNext]_termVars => TermInv'
  BY TermKept
<1>3. TermInv => TerminalFaithful
  BY TerminalShows DEF TermInv
<1> QED
  BY <1>1, <1>2, <1>3, PTL DEF TermSpec

LEMMA TermTypes == TermSpec => []TermTypeOK
<1>1. TermInit => TermInv
  BY TermStarts
<1>2. TermInv /\ [TermNext]_termVars => TermInv'
  BY TermKept
<1>3. TermInv => TermTypeOK
  BY DEF TermInv, TermTyped
<1> QED
  BY <1>1, <1>2, <1>3, PTL DEF TermSpec

-----------------------------------------------------------------------------
(***************************************************************************)
(* THE PROJECT INDEX.                                                      *)
(***************************************************************************)

(***************************************************************************)
(* The writers and what they have in hand.                                 *)
(***************************************************************************)
LEMMA TwoWriters == Other("merge") = "refresh" /\ Other("refresh") = "merge"
BY DEF Other, Writers

Hand(step, more, f, alone) == [step |-> step, todo |-> more, file |-> f, alone |-> alone]
Stages == {"walk", "next", "create", "store"}

LEMMA HandMade ==
  ASSUME NEW step \in Stages, NEW more \in SUBSET Files, NEW f \in Files \cup {None},
         NEW alone \in BOOLEAN
  PROVE  /\ Hand(step, more, f, alone) \in Works /\ Hand(step, more, f, alone) # None
         /\ Hand(step, more, f, alone).step = step /\ Hand(step, more, f, alone).todo = more
         /\ Hand(step, more, f, alone).file = f /\ Hand(step, more, f, alone).alone = alone
<1>1. Hand(step, more, f, alone) \in Works
  BY DEF Hand, Works, Stages
<1> QED
  BY <1>1, IndexAssumption DEF Hand

LEMMA HandParts ==
  ASSUME IndexTyped, NEW w \in Writers, AtWork(w)
  PROVE  /\ op[w] = Hand(op[w].step, op[w].todo, op[w].file, op[w].alone)
         /\ op[w].step \in Stages /\ op[w].todo \subseteq Files
         /\ op[w].file \in Files \cup {None} /\ op[w].alone \in BOOLEAN
         /\ op[w].step \in {"create", "store"} => op[w].file \in Files \ op[w].todo
<1>1. op[w] \in Works
  BY DEF IndexTyped, IndexTypeOK, AtWork
<1>2. op[w].step \in {"create", "store"} => op[w].file \in Files \ op[w].todo
  BY DEF IndexTyped, Treating
<1> QED
  BY <1>1, <1>2 DEF Works, Hand, Stages

(* One writer moves on, the other has in hand what it had. *)
Treats(w, step, more, f) ==
  /\ op' \in [Writers -> Works \cup {None}]
  /\ op'[w] = Hand(step, more, f, op[w].alone) /\ op'[w] # None
  /\ op'[w].step = step /\ op'[w].todo = more
  /\ op'[w].file = f /\ op'[w].alone = op[w].alone
  /\ \A o \in Writers : o # w => op'[o] = op[o]

LEMMA Takes ==
  ASSUME IndexTyped, NEW w \in Writers, AtWork(w), NEW f \in Files, NEW step \in Stages,
         Take(w, f, step)
  PROVE  Treats(w, step, op[w].todo \ {f}, f)
<1>1. op \in [Writers -> Works \cup {None}]
  BY DEF IndexTyped, IndexTypeOK
<1>2. op'[w] = Hand(step, op[w].todo \ {f}, f, op[w].alone)
  <2>1. op'[w] = [op[w] EXCEPT !.step = step, !.file = f, !.todo = op[w].todo \ {f}]
    BY <1>1 DEF Take
  <2>2. op[w] = Hand(op[w].step, op[w].todo, op[w].file, op[w].alone)
    BY HandParts
  <2> QED
    BY <2>1, <2>2 DEF Hand
<1>3. \A o \in Writers : o # w => op'[o] = op[o]
  BY <1>1 DEF Take
<1>4. /\ Hand(step, op[w].todo \ {f}, f, op[w].alone) \in Works
      /\ Hand(step, op[w].todo \ {f}, f, op[w].alone) # None
  BY HandMade, HandParts
<1>5. op' \in [Writers -> Works \cup {None}]
  <2>1. op' = [o \in Writers |-> op'[o]]
    BY <1>1 DEF Take
  <2> QED
    BY <1>1, <1>2, <1>3, <1>4, <2>1
<1> QED
  BY <1>2, <1>3, <1>4, <1>5 DEF Treats, Hand

LEMMA StepsOn ==
  ASSUME IndexTyped, NEW w \in Writers, AtWork(w), NEW step \in Stages,
         op' = [op EXCEPT ![w].step = step]
  PROVE  Treats(w, step, op[w].todo, op[w].file)
<1>1. op \in [Writers -> Works \cup {None}]
  BY DEF IndexTyped, IndexTypeOK
<1>2. op'[w] = Hand(step, op[w].todo, op[w].file, op[w].alone)
  BY <1>1, HandParts DEF Hand
<1>3. \A o \in Writers : o # w => op'[o] = op[o]
  BY <1>1
<1>4. /\ Hand(step, op[w].todo, op[w].file, op[w].alone) \in Works
      /\ Hand(step, op[w].todo, op[w].file, op[w].alone) # None
  BY HandMade, HandParts
<1>5. op' \in [Writers -> Works \cup {None}]
  <2>1. op' = [o \in Writers |-> op'[o]]
    BY <1>1
  <2> QED
    BY <1>1, <1>2, <1>3, <1>4, <2>1
<1> QED
  BY <1>2, <1>3, <1>4, <1>5 DEF Treats, Hand

(* While a writer that is alone is at work nobody else touches the index. *)
LEMMA AllSuspect ==
  ASSUME suspect' = Files
  PROVE  RowsRight'
BY DEF RowsRight

LEMMA OutputIsKnown ==
  ASSUME NEW changed \in SUBSET Files, NEW a \in [changed -> Versions]
  PROVE  a \in Outputs /\ a # None
<1>1. a \in Outputs
  BY DEF Outputs
<1> QED
  BY <1>1, IndexAssumption

-----------------------------------------------------------------------------
(***************************************************************************)
(* The merge queue changes the tree.                                       *)
(***************************************************************************)
LEMMA ApplyKept ==
  ASSUME IndexInv, Apply
  PROVE  IndexInv'
<1> USE DEF IndexInv
<1>1. PICK changed \in SUBSET Files : \E new \in [changed -> Versions] :
        /\ applied' = [f \in changed |-> tree[f]]
        /\ tree' = [f \in Files |-> IF f \in changed THEN new[f] ELSE tree[f]]
  BY DEF Apply
<1>2. tree \in [Files -> Versions] /\ op \in [Writers -> Works \cup {None}]
  BY DEF IndexTyped, IndexTypeOK
<1>3. tree' \in [Files -> Versions]
  BY <1>1, <1>2
<1>4. applied' \in [changed -> Versions] /\ applied' \in Outputs /\ applied' # None
  <2>1. applied' \in [changed -> Versions]
    BY <1>1, <1>2
  <2> QED
    BY <2>1, OutputIsKnown
<1>5. op["merge"] = None /\ applied = None /\ table' = table
  BY DEF Apply
<1>6. CASE op["refresh"] = None
  <2>1. op' = op /\ suspect' = suspect
    BY <1>6 DEF Apply
  <2>2. \A w \in Writers : op[w] = None /\ op'[w] = None
    BY <1>5, <1>6, <2>1 DEF Writers
  <2>3. IndexTyped'
    BY <1>3, <1>4, <1>5, <2>1, <2>2 DEF IndexTyped, IndexTypeOK, AtWork, Treating, Writers
  <2>4. AloneOrSuspect' /\ RefreshSuspects' /\ StoresItsRow'
    BY <2>2 DEF AloneOrSuspect, RefreshSuspects, StoresItsRow, AtWork, At, Pending, Writers
  <2>5. RowsRight'
    <3>1. \A f \in Files \ suspect : Shows(f, tree[f])
      BY <1>5, <2>2 DEF RowsRight, Pending, AtWork, Settled
    <3>2. \A f \in Files : Settled(f)' = tree[f]
      BY <1>1, <1>2, <1>4 DEF Settled
    <3>3. \A f \in Files \ suspect' : Shows(f, Settled(f))'
      BY <1>5, <2>1, <3>1, <3>2 DEF Shows
    <3> QED
      BY <2>2, <3>3 DEF RowsRight, AtWork, At, Writers
  <2> QED
    BY <2>3, <2>4, <2>5
<1>7. CASE op["refresh"] # None
  <2>1. suspect' = Files /\ op' = [op EXCEPT !["refresh"].alone = FALSE]
    BY <1>7 DEF Apply
  <2> DEFINE o == op["refresh"]
  <2>2. op'["merge"] = None /\ op'["refresh"] = Hand(o.step, o.todo, o.file, FALSE)
    BY <1>2, <1>5, <1>7, <2>1, HandParts DEF Writers, Hand, AtWork
  <2>3. /\ op'["refresh"] \in Works /\ op'["refresh"].alone = FALSE
        /\ op'["refresh"].step = o.step /\ op'["refresh"].todo = o.todo
        /\ op'["refresh"].file = o.file /\ op'["refresh"] # None
    <3>1. o.step \in Stages /\ o.todo \in SUBSET Files /\ o.file \in Files \cup {None}
      BY <1>7, HandParts DEF Writers, AtWork
    <3> HIDE DEF o
    <3>2. PICK no \in BOOLEAN : no = FALSE
      OBVIOUS
    <3>3. op'["refresh"] = Hand(o.step, o.todo, o.file, no)
      BY <2>2, <3>2
    <3>4. op'["refresh"] \in Works /\ op'["refresh"] # None
      BY <3>1, <3>3, HandMade
    <3> QED
      BY <3>2, <3>3, <3>4 DEF Hand
  <2>4. op' \in [Writers -> Works \cup {None}]
    BY <1>2, <2>1, <2>2, <2>3 DEF Writers
  <2>5. IndexTyped'
    BY <1>3, <1>4, <1>5, <1>7, <2>1, <2>2, <2>3, <2>4
      DEF IndexTyped, IndexTypeOK, AtWork, Treating, Writers
  <2>6. AloneOrSuspect'
    BY <2>1, <2>2, <2>3 DEF AloneOrSuspect, AtWork, Writers
  <2>7. RefreshSuspects'
    BY <2>1, <2>3 DEF RefreshSuspects, At
  <2>8. StoresItsRow'
    BY <2>2, <2>3 DEF StoresItsRow, At, Writers
  <2> QED
    BY <2>1, <2>5, <2>6, <2>7, <2>8, AllSuspect
<1> QED
  BY <1>6, <1>7

LEMMA RevertKept ==
  ASSUME IndexInv, Revert
  PROVE  IndexInv'
<1> USE DEF IndexInv
<1>1. UNCHANGED <<table, op, suspect>> /\ applied # None /\ applied' = None
  BY DEF Revert
<1>2. tree' = [f \in Files |-> IF f \in DOMAIN applied THEN applied[f] ELSE tree[f]]
  BY DEF Revert
<1>3. tree \in [Files -> Versions] /\ applied \in Outputs
  BY <1>1 DEF IndexTyped, IndexTypeOK
<1>4. tree' \in [Files -> Versions]
  <2>1. PICK changed \in SUBSET Files : applied \in [changed -> Versions]
    BY <1>3 DEF Outputs
  <2> QED
    BY <1>2, <1>3, <2>1
<1>5. IndexTyped'
  BY <1>1, <1>4 DEF IndexTyped, IndexTypeOK, AtWork, Treating
<1>6. AloneOrSuspect' /\ RefreshSuspects'
  BY <1>1 DEF AloneOrSuspect, RefreshSuspects, AtWork, At, Pending, Treating
<1>7. \A w \in Writers : AtWork(w) => ~op[w].alone
  BY <1>1 DEF IndexTyped, AloneOrSuspect, Writers
<1>8. StoresItsRow'
  BY <1>1, <1>7 DEF StoresItsRow, At, AtWork
<1>9. RowsRight'
  <2>1. \A f \in Files : Settled(f)' = Settled(f)
    BY <1>1, <1>2 DEF Settled
  <2> QED
    BY <1>1, <2>1 DEF RowsRight, Pending, AtWork, Treating, At, Shows
<1> QED
  BY <1>5, <1>6, <1>8, <1>9

LEMMA CommitKept ==
  ASSUME IndexInv, CommitApplied
  PROVE  IndexInv'
<1> USE DEF IndexInv
<1>1. UNCHANGED <<tree, table>> /\ applied # None /\ applied' = None
  BY DEF CommitApplied
<1>2. op \in [Writers -> Works \cup {None}] /\ applied \in Outputs /\ op["merge"] = None
  BY <1>1 DEF IndexTyped, IndexTypeOK, AtWork
<1>3. DOMAIN applied \subseteq Files
  BY <1>2 DEF Outputs
<1> DEFINE alone == op["refresh"] = None
<1>4. op' = [op EXCEPT !["merge"] = Hand("next", DOMAIN applied, None, alone)]
  BY DEF CommitApplied, Work, Hand
<1>5. /\ op'["merge"] = Hand("next", DOMAIN applied, None, alone)
      /\ op'["refresh"] = op["refresh"]
  BY <1>2, <1>4 DEF Writers
<1>6. /\ op'["merge"] \in Works /\ op'["merge"] # None
      /\ op'["merge"].step = "next" /\ op'["merge"].todo = DOMAIN applied
      /\ op'["merge"].alone = alone
  <2> HIDE DEF alone
  <2>1. alone \in BOOLEAN
    BY DEF alone
  <2> QED
    BY <1>3, <1>5, <2>1, HandMade DEF Stages
<1>7. op' \in [Writers -> Works \cup {None}]
  BY <1>2, <1>4, <1>5, <1>6
<1>8. suspect' = IF alone THEN suspect ELSE Files
  BY DEF CommitApplied
<1>9. IndexTyped'
  BY <1>1, <1>5, <1>6, <1>7, <1>8 DEF IndexTyped, IndexTypeOK, AtWork, Treating, Writers
<1>10. AloneOrSuspect'
  BY <1>1, <1>5, <1>6, <1>8, TwoWriters DEF AloneOrSuspect, AtWork, Writers
<1>11. RefreshSuspects'
  BY <1>1, <1>5, <1>8 DEF RefreshSuspects, At, AtWork, Pending, Treating
<1>12. StoresItsRow'
  BY <1>1, <1>5, <1>6 DEF StoresItsRow, At, Writers
<1>13. RowsRight'
  <2>1. CASE ~alone
    BY <1>8, <2>1, AllSuspect
  <2>2. CASE alone
    <3>1. \A f \in Files \ suspect : Shows(f, Settled(f))
      BY <1>2, <2>2 DEF RowsRight, Pending, AtWork, Writers
    <3>2. \A f \in Files \ suspect' : f \in DOMAIN applied \/ Shows(f, Settled(f))'
      BY <1>1, <1>8, <2>2, <3>1 DEF Shows, Settled
    <3>3. \A f \in DOMAIN applied : Pending("merge", f)'
      BY <1>6 DEF Pending, AtWork
    <3>4. \A f \in Files \ suspect' : table'[f] # None => table'[f].whole
      BY <1>1, <1>8, <2>2, <3>1 DEF Shows
    <3>5. ~At("merge", "create")'
      BY <1>6 DEF At
    <3> QED
      BY <3>2, <3>3, <3>4, <3>5 DEF RowsRight, Writers
  <2> QED
    BY <2>1, <2>2
<1> QED
  BY <1>9, <1>10, <1>11, <1>12, <1>13

-----------------------------------------------------------------------------
(***************************************************************************)
(* The writers.                                                            *)
(***************************************************************************)
(* What one writer's turn keeps of the types. *)
LEMMA TurnTyped ==
  ASSUME IndexTyped, NEW w \in Writers, NEW step \in Stages, NEW more \in SUBSET Files,
         NEW f \in Files \cup {None}, Treats(w, step, more, f), AtWork(w),
         step \in {"create", "store"} => f \in Files \ more,
         w = "merge" => step # "walk",
         UNCHANGED <<tree, applied>>, table' \in [Files -> Rows \cup {None}],
         suspect' \subseteq Files
  PROVE  IndexTyped'
<1>1. IndexTypeOK'
  BY DEF Treats, IndexTyped, IndexTypeOK
<1>2. applied' # None => ~AtWork("merge")'
  BY DEF Treats, IndexTyped, AtWork, Writers
<1>3. ASSUME NEW o \in Writers, Treating(o)'
      PROVE  op'[o].file \in Files \ op'[o].todo
  <2>1. CASE o = w
    BY <1>3, <2>1 DEF Treats, Treating
  <2>2. CASE o # w
    BY <1>3, <2>2 DEF Treats, Treating, AtWork, IndexTyped
  <2> QED
    BY <2>1, <2>2
<1>4. AtWork("merge")' => op'["merge"].step # "walk"
  BY DEF Treats, AtWork, IndexTyped, Writers
<1> QED
  BY <1>1, <1>2, <1>3, <1>4 DEF IndexTyped

(* A writer that is not alone leaves everything suspect. *)
LEMMA TurnAlone ==
  ASSUME IndexTyped, AloneOrSuspect, NEW w \in Writers, NEW step, NEW more, NEW f,
         Treats(w, step, more, f), AtWork(w), applied' = applied,
         suspect' = suspect \/ (~op[w].alone => suspect' = Files)
  PROVE  AloneOrSuspect' /\ (~op[w].alone => suspect' = Files)
<1>1. ~op[w].alone => suspect = Files /\ suspect' = Files
  BY DEF AloneOrSuspect
<1>2. ASSUME NEW o \in Writers, AtWork(o)'
      PROVE  IF op'[o].alone THEN ~AtWork(Other(o))' /\ (o = "refresh" => applied' = None)
             ELSE suspect' = Files
  <2>1. AtWork(o)
    BY <1>2 DEF Treats, AtWork
  <2>2. op'[o].alone = op[o].alone
    BY <1>2 DEF Treats
  <2>3. Other(o) \in Writers /\ Other(o) # o
    BY TwoWriters DEF Writers
  <2>4. AtWork(Other(o))' => AtWork(Other(o))
    BY <2>3 DEF Treats, AtWork
  <2>5. CASE op[o].alone
    BY <1>2, <2>1, <2>2, <2>4, <2>5 DEF AloneOrSuspect
  <2>6. CASE ~op[o].alone
    <3>1. suspect = Files
      BY <2>1, <2>6 DEF AloneOrSuspect
    <3>2. o = w \/ (Other(o) = w /\ AtWork(w))
      BY <2>3, TwoWriters DEF Writers
    <3>3. ~op[w].alone
      <4>1. CASE o = w
        BY <2>6, <4>1
      <4>2. CASE Other(o) = w
        <5>1. Other(w) = o
          BY <4>2, TwoWriters DEF Writers
        <5> QED
          BY <2>1, <5>1 DEF AloneOrSuspect
      <4> QED
        BY <3>2, <4>1, <4>2
    <3> QED
      BY <1>1, <2>2, <2>6, <3>3
  <2> QED
    BY <2>5, <2>6
<1> QED
  BY <1>1, <1>2 DEF AloneOrSuspect

LEMMA ClearIndexKept ==
  ASSUME IndexInv, ClearIndex
  PROVE  IndexInv'
<1> USE DEF IndexInv
<1>1. UNCHANGED <<tree, applied>> /\ op["refresh"] = None /\ suspect' = Files
      /\ table' = [f \in Files |-> None]
  BY DEF ClearIndex
<1>2. op \in [Writers -> Works \cup {None}]
  BY DEF IndexTyped, IndexTypeOK
<1> DEFINE o == op["merge"]
<1>3. PICK quiet \in BOOLEAN : quiet = Quiet("refresh")
  BY Zenon DEF Quiet
<1>4. op' = [op EXCEPT !["refresh"] = Hand("walk", {}, None, quiet),
                       !["merge"] = IF @ = None THEN @ ELSE [@ EXCEPT !.alone = FALSE]]
  BY <1>3 DEF ClearIndex, Work, Hand
<1>5. /\ op'["refresh"] = Hand("walk", {}, None, quiet)
      /\ op'["merge"] = IF o = None THEN None ELSE [o EXCEPT !.alone = FALSE]
  BY <1>2, <1>4 DEF Writers
<1>6. /\ op'["refresh"] \in Works /\ op'["refresh"] # None /\ op'["refresh"].alone = quiet
      /\ op'["refresh"].step = "walk" /\ op'["refresh"].todo = {}
  <2>1. op'["refresh"] \in Works /\ op'["refresh"] # None
    BY <1>5, HandMade DEF Stages
  <2> QED
    BY <1>5, <2>1 DEF Hand
<1>7. ASSUME o # None
      PROVE  /\ op'["merge"] \in Works /\ op'["merge"] # None /\ op'["merge"].alone = FALSE
             /\ op'["merge"].step = o.step /\ op'["merge"].todo = o.todo
             /\ op'["merge"].file = o.file
  <2>1. o \in Works
    BY <1>2, <1>7 DEF Writers
  <2>2. op'["merge"] = [o EXCEPT !.alone = FALSE]
    BY <1>5, <1>7
  <2>3. op'["merge"] \in Works
    BY <2>1, <2>2 DEF Works
  <2> QED
    BY <2>1, <2>2, <2>3, IndexAssumption DEF Works
<1>8. op' \in [Writers -> Works \cup {None}]
  BY <1>2, <1>4, <1>5, <1>6, <1>7 DEF Writers
<1>9. IndexTyped'
  <2>1. IndexTypeOK'
    BY <1>1, <1>8 DEF IndexTyped, IndexTypeOK
  <2>2. AtWork("merge")' => AtWork("merge")
    BY <1>5 DEF AtWork
  <2> QED
    BY <1>1, <1>6, <1>7, <2>1, <2>2 DEF IndexTyped, AtWork, Treating, Writers
<1>10. AloneOrSuspect'
  <2>1. quiet = (o = None /\ applied = None)
    BY <1>3, TwoWriters DEF Quiet
  <2> QED
    BY <1>1, <1>5, <1>6, <1>7, <2>1, TwoWriters DEF AloneOrSuspect, AtWork, Writers
<1>11. RefreshSuspects'
  BY <1>1, <1>6 DEF RefreshSuspects, At, Pending, Treating
<1>12. StoresItsRow'
  BY <1>1, <1>5, <1>6, <1>7 DEF StoresItsRow, At, Writers
<1> QED
  BY <1>1, <1>9, <1>10, <1>11, <1>12, AllSuspect

LEMMA WalkKept ==
  ASSUME IndexInv, Walk
  PROVE  IndexInv'
<1> USE DEF IndexInv
<1> DEFINE o == op["refresh"]
<1>1. /\ UNCHANGED <<tree, table, applied>> /\ AtWork("refresh") /\ o.step = "walk"
      /\ op' = [op EXCEPT !["refresh"].step = "next", !["refresh"].todo = Present]
      /\ suspect' = IF o.alone THEN suspect \cap Present ELSE suspect
  BY DEF Walk, AtWork
<1>2. op \in [Writers -> Works \cup {None}] /\ o = Hand(o.step, o.todo, o.file, o.alone)
  BY <1>1, HandParts DEF IndexTyped, IndexTypeOK, Writers
<1>3. Present \subseteq Files
  BY DEF Present
<1>4. Treats("refresh", "next", Present, o.file)
  <2>1. op'["refresh"] = Hand("next", Present, o.file, o.alone)
    <3>1. op'["refresh"] = [o EXCEPT !.step = "next", !.todo = Present]
      BY <1>1, <1>2 DEF Writers
    <3> QED
      BY <1>2, <3>1 DEF Hand
  <2>2. o.file \in Files \cup {None} /\ o.alone \in BOOLEAN
    BY <1>1, HandParts DEF Writers
  <2>3. op'["refresh"] \in Works /\ op'["refresh"] # None
    BY <1>3, <2>1, <2>2, HandMade DEF Stages
  <2>4. op'["merge"] = op["merge"]
    BY <1>1, <1>2 DEF Writers
  <2>5. op' \in [Writers -> Works \cup {None}]
    BY <1>1, <1>2, <2>3, <2>4 DEF Writers
  <2> QED
    BY <2>1, <2>3, <2>4, <2>5 DEF Treats, Hand, Writers
<1>5. IndexTyped'
  <2>1. o.file \in Files \cup {None} /\ suspect' \subseteq Files /\ table' \in [Files -> Rows \cup {None}]
    BY <1>1, HandParts DEF Writers, IndexTyped, IndexTypeOK
  <2> QED
    BY <1>1, <1>3, <1>4, <2>1, TurnTyped DEF Stages, Writers
<1>6. AloneOrSuspect' /\ (~o.alone => suspect' = Files)
  BY <1>1, <1>4, TurnAlone DEF AloneOrSuspect, Writers
<1>7. suspect = Files /\ (o.alone => \A f \in Files : table[f] = None)
  BY <1>1 DEF RefreshSuspects, At, AtWork
<1>8. RefreshSuspects'
  <2>1. ~At("refresh", "walk")'
    BY <1>4 DEF Treats, At
  <2>2. Present \subseteq suspect'
    BY <1>1, <1>3, <1>7
  <2> QED
    BY <1>4, <2>1, <2>2 DEF Treats, RefreshSuspects, Pending, Treating
<1>9. StoresItsRow'
  <2>1. \A w \in Writers : At(w, "store")' => w # "refresh" /\ op'[w] = op[w]
    BY <1>4 DEF Treats, At, Writers
  <2> QED
    BY <1>1, <2>1 DEF StoresItsRow, At
<1>10. RowsRight'
  <2>1. CASE ~o.alone
    BY <1>6, <2>1, AllSuspect
  <2>2. CASE o.alone
    <3>1. ~AtWork("merge") /\ applied = None
      BY <1>1, <2>2, TwoWriters DEF AloneOrSuspect, Writers
    <3>2. \A f \in Files \ suspect' : tree[f] = NoFile
      BY <1>1, <1>7, <2>2 DEF Present
    <3>3. \A f \in Files \ suspect' : Shows(f, Settled(f))'
      BY <1>1, <1>7, <2>2, <3>1, <3>2 DEF Shows, Settled
    <3>4. ~AtWork("merge")'
      BY <1>4, <3>1 DEF Treats, AtWork, Writers
    <3> QED
      BY <3>3, <3>4 DEF RowsRight, At, AtWork
  <2> QED
    BY <2>1, <2>2
<1> QED
  BY <1>5, <1>6, <1>8, <1>9, <1>10

LEMMA AloneWriter ==
  ASSUME IndexInv, NEW w \in Writers, AtWork(w), op[w].alone
  PROVE  applied = None /\ \A o \in Writers : o # w => ~AtWork(o)
<1>1. ~AtWork(Other(w)) /\ (w = "refresh" => applied = None)
  BY DEF IndexInv, AloneOrSuspect
<1>2. w = "merge" => applied = None
  BY DEF IndexInv, IndexTyped
<1> QED
  BY <1>1, <1>2, TwoWriters DEF Writers

LEMMA RefreshFileKept ==
  ASSUME IndexInv, NEW f \in Files, RefreshFile(f)
  PROVE  IndexInv'
<1> USE DEF IndexInv
<1> DEFINE o == op["refresh"]
<1>1. /\ UNCHANGED <<tree, table, applied, suspect>> /\ AtWork("refresh")
      /\ o.step = "next" /\ f \in o.todo
  BY DEF RefreshFile, At, AtWork
<1>2. o.todo \subseteq Files /\ Treats("refresh", "create", o.todo \ {f}, f)
  BY <1>1, HandParts, Takes DEF RefreshFile, Writers, Stages
<1>3. IndexTyped'
  <2>1. table' \in [Files -> Rows \cup {None}] /\ suspect' \subseteq Files
    BY <1>1 DEF IndexTyped, IndexTypeOK
  <2> QED
    BY <1>1, <1>2, <2>1, TurnTyped DEF Stages, Writers
<1>4. AloneOrSuspect'
  BY <1>1, <1>2, TurnAlone DEF Writers
<1>5. RefreshSuspects'
  <2>1. \A g \in Files : Pending("refresh", g)' => Pending("refresh", g)
    BY <1>1, <1>2 DEF Treats, Pending, Treating, AtWork
  <2>2. ~At("refresh", "walk")'
    BY <1>2 DEF Treats, At
  <2> QED
    BY <1>1, <2>1, <2>2 DEF RefreshSuspects
<1>6. StoresItsRow'
  <2>1. \A w \in Writers : At(w, "store")' => w # "refresh" /\ op'[w] = op[w]
    BY <1>2 DEF Treats, At, Writers
  <2> QED
    BY <1>1, <2>1 DEF StoresItsRow, At
<1>7. RowsRight'
  <2>1. op'["merge"] = op["merge"]
    BY <1>2 DEF Treats, Writers
  <2>2. \A g \in Files \ suspect : ~Pending("refresh", g)
    BY DEF RefreshSuspects
  <2>3. \A g \in Files : Settled(g)' = Settled(g)
    BY <1>1 DEF Settled
  <2> QED
    BY <1>1, <2>1, <2>2, <2>3 DEF RowsRight, Pending, AtWork, Treating, At, Shows, Writers
<1> QED
  BY <1>3, <1>4, <1>5, <1>6, <1>7

LEMMA IndexFilesKept ==
  ASSUME IndexInv, NEW f \in Files, IndexFiles(f)
  PROVE  IndexInv'
<1> USE DEF IndexInv
<1> DEFINE o == op["merge"]
           Gone == /\ tree[f] = NoFile /\ table' = [table EXCEPT ![f] = None] /\ Take("merge", f, "next")
                   /\ suspect' = IF o.alone THEN suspect \ {f} ELSE suspect
           Equal == /\ tree[f] # NoFile /\ table[f] # None /\ table[f].hash = tree[f]
                    /\ Take("merge", f, "next") /\ UNCHANGED <<table, suspect>>
           Changed == /\ tree[f] # NoFile /\ table' = [table EXCEPT ![f] = None]
                      /\ Take("merge", f, "create") /\ UNCHANGED suspect
<1>1. /\ UNCHANGED <<tree, applied>> /\ AtWork("merge") /\ o.step = "next" /\ f \in o.todo
      /\ Gone \/ Equal \/ Changed
  BY DEF IndexFiles, At, AtWork, DropOld
<1>2. /\ o.todo \subseteq Files /\ applied = None
      /\ table \in [Files -> Rows \cup {None}] /\ suspect \subseteq Files
  BY <1>1, HandParts DEF Writers, IndexTyped, IndexTypeOK
<1>3. PICK step \in {"next", "create"} :
        /\ Take("merge", f, step) /\ (step = "create" => Changed) /\ (step = "next" => Gone \/ Equal)
  BY <1>1
<1>4. Treats("merge", step, o.todo \ {f}, f)
  BY <1>1, <1>3, Takes DEF Stages, Writers
<1>5. /\ suspect' \subseteq suspect /\ (~o.alone => suspect' = suspect)
      /\ table' = table \/ table' = [table EXCEPT ![f] = None]
  BY <1>1
<1>6. IndexTyped'
  <2>1. table' \in [Files -> Rows \cup {None}] /\ suspect' \subseteq Files
    BY <1>2, <1>5
  <2> QED
    BY <1>1, <1>2, <1>3, <1>4, <2>1, TurnTyped DEF Stages, Writers
<1>7. AloneOrSuspect' /\ (~o.alone => suspect' = Files)
  <2>1. ~o.alone => suspect' = Files
    BY <1>1, <1>5 DEF AloneOrSuspect, Writers
  <2> QED
    BY <1>1, <1>4, <2>1, TurnAlone DEF Writers
<1>8. op'["refresh"] = op["refresh"]
  BY <1>4 DEF Treats, Writers
<1>9. CASE ~o.alone
  <2>1. suspect' = Files /\ suspect = Files
    BY <1>5, <1>7, <1>9
  <2>2. ~(AtWork("refresh") /\ op["refresh"].alone)
    BY <1>1, AloneWriter DEF Writers
  <2>3. RefreshSuspects'
    BY <1>8, <2>1, <2>2 DEF RefreshSuspects, At, AtWork, Pending
  <2>4. StoresItsRow'
    BY <1>4, <1>8, <1>9, <2>2 DEF Treats, StoresItsRow, At, AtWork, Writers
  <2> QED
    BY <1>6, <1>7, <2>1, <2>3, <2>4, AllSuspect
<1>10. CASE o.alone
  <2>1. ~AtWork("refresh") /\ ~AtWork("refresh")'
    BY <1>1, <1>8, <1>10, AloneWriter DEF Writers, AtWork
  <2>2. RefreshSuspects'
    BY <2>1 DEF RefreshSuspects, At, AtWork, Pending
  <2>3. StoresItsRow'
    BY <1>3, <1>4, <2>1 DEF Treats, StoresItsRow, At, AtWork, Writers
  <2>4. ASSUME NEW g \in Files \ suspect', g # f
        PROVE  /\ (\A w \in Writers : ~Pending(w, g)') => Shows(g, Settled(g))'
               /\ g \in op'["merge"].todo /\ table'[g] # None => table'[g].whole
    <3>1. g \in Files \ suspect /\ table'[g] = table[g]
      BY <1>1, <1>2, <1>5, <2>4
    <3>2. Pending("merge", g)' <=> Pending("merge", g)
      BY <1>1, <1>3, <1>4, <2>4 DEF Treats, Pending, AtWork, Treating
    <3>3. op'["merge"].todo = o.todo \ {f} /\ Settled(g)' = Settled(g)
      BY <1>1, <1>4 DEF Treats, Settled
    <3> QED
      BY <1>1, <2>1, <2>4, <3>1, <3>2, <3>3 DEF RowsRight, Shows, Pending, Writers
  <2>5. ASSUME f \notin suspect'
        PROVE  /\ step = "next" => Shows(f, tree[f])'
               /\ step = "create" => table'[f] = None
    <3>1. CASE Gone
      BY <1>1, <1>2, <3>1 DEF Shows
    <3>2. CASE Equal
      <4>1. table[f] # None => table[f].whole
        BY <1>1, <2>5, <3>2 DEF RowsRight
      <4>2. step = "create" => table'[f] = None
        BY <1>2, <1>3
      <4>3. Shows(f, tree[f])'
        BY <1>1, <3>2, <4>1 DEF Shows
      <4> QED
        BY <4>2, <4>3
    <3>3. CASE Changed
      BY <1>2, <1>3, <1>4, <3>3 DEF Treats
    <3> QED
      BY <1>1, <3>1, <3>2, <3>3
  <2>6. Settled(f)' = tree'[f] /\ f \notin op'["merge"].todo
    BY <1>1, <1>2, <1>4 DEF Treats, Settled
  <2>7. step = "create" => Pending("merge", f)'
    BY <1>4 DEF Treats, Pending, AtWork, Treating
  <2>8. At("merge", "create")' => step = "create" /\ op'["merge"].file = f
    BY <1>4 DEF Treats, At
  <2>9. RowsRight'
    BY <1>1, <1>3, <2>4, <2>5, <2>6, <2>7, <2>8 DEF RowsRight, Shows, Writers
  <2> QED
    BY <1>6, <1>7, <2>2, <2>3, <2>9
<1> QED
  BY <1>9, <1>10

LEMMA CreateIndexFileKept ==
  ASSUME IndexInv, NEW w \in Writers, CreateIndexFile(w)
  PROVE  IndexInv'
<1> USE DEF IndexInv
<1> DEFINE f == op[w].file
           Made == tree[f] # NoFile /\ table[f] = None
<1>1. UNCHANGED <<tree, applied, suspect>> /\ AtWork(w) /\ op[w].step = "create"
  BY DEF CreateIndexFile, At, AtWork
<1>2. /\ f \in Files /\ f \notin op[w].todo /\ op[w].todo \subseteq Files
      /\ table \in [Files -> Rows \cup {None}] /\ tree \in [Files -> Versions]
      /\ suspect \subseteq Files
  BY <1>1, HandParts DEF IndexTyped, IndexTypeOK
<1>3. PICK step \in {"store", "next"} :
        /\ op' = [op EXCEPT ![w].step = step]
        /\ step = "store" => Made /\ table' = [table EXCEPT ![f] = Row(tree[f], w)]
        /\ step = "next" => ~Made /\ table' = table
  BY DEF CreateIndexFile
<1>4. Treats(w, step, op[w].todo, f)
  BY <1>1, <1>3, StepsOn DEF Stages
<1>5. Made => Row(tree[f], w) \in Rows /\ Row(tree[f], w) # None
  <2>1. Made => Row(tree[f], w) \in Rows
    BY <1>2 DEF Row, Rows
  <2> QED
    BY <2>1, IndexAssumption
<1>6. \A g \in Files : g # f => table'[g] = table[g]
  BY <1>2, <1>3
<1>7. IndexTyped'
  <2>1. table' \in [Files -> Rows \cup {None}] /\ suspect' \subseteq Files
    BY <1>1, <1>2, <1>3, <1>5
  <2> QED
    BY <1>1, <1>2, <1>3, <1>4, <2>1, TurnTyped DEF Stages
<1>8. AloneOrSuspect' /\ (~op[w].alone => suspect' = Files)
  BY <1>1, <1>4, TurnAlone
<1>9. \A o \in Writers : o # w /\ AtWork(o) => ~op[o].alone
  BY <1>1, AloneWriter
<1>10. \A g \in Files : Pending("refresh", g)' => Pending("refresh", g)
  BY <1>1, <1>4 DEF Treats, Pending, AtWork, Treating, Writers
<1>11. RefreshSuspects'
  <2>1. ASSUME At("refresh", "walk")'
        PROVE  w # "refresh" /\ At("refresh", "walk") /\ ~op'["refresh"].alone
    BY <1>4, <1>9, <2>1 DEF Treats, At, AtWork, Writers
  <2> QED
    BY <1>1, <1>10, <2>1 DEF RefreshSuspects
<1>12. StoresItsRow'
  <2>1. ASSUME NEW o \in Writers, At(o, "store")', op'[o].alone
        PROVE  o = w /\ step = "store"
    BY <1>4, <1>9, <2>1 DEF Treats, At, AtWork
  <2>2. step = "store" => /\ table'[f] # None /\ table'[f].hash = tree'[f] /\ table'[f].by = w
                          /\ op'[w].file = f
    BY <1>1, <1>2, <1>3, <1>4, <1>5 DEF Treats, Row
  <2> QED
    BY <2>1, <2>2 DEF StoresItsRow
<1>13. RowsRight'
  <2>1. CASE ~op[w].alone
    BY <1>8, <2>1, AllSuspect
  <2>2. CASE op[w].alone
    <3>1. applied = None /\ \A o \in Writers : o # w => ~AtWork(o) /\ ~AtWork(o)'
      BY <1>1, <1>4, <2>2, AloneWriter DEF Treats, AtWork
    <3>2. \A g \in Files : Settled(g)' = tree[g] /\ Settled(g) = tree[g]
      BY <1>1, <3>1 DEF Settled
    <3>3. ASSUME NEW g \in Files \ suspect, g # f
          PROVE  /\ (\A o \in Writers : ~Pending(o, g)') => Shows(g, Settled(g))'
                 /\ AtWork("merge")' /\ g \in op'["merge"].todo /\ table'[g] # None => table'[g].whole
      <4>1. \A o \in Writers : Pending(o, g)' <=> Pending(o, g)
        BY <1>1, <1>4, <3>1, <3>3 DEF Treats, Pending, AtWork, Treating
      <4>2. AtWork("merge")' => AtWork("merge") /\ op'["merge"].todo = op["merge"].todo
        BY <1>1, <1>4, <3>1 DEF Treats, AtWork, Writers
      <4> QED
        BY <1>1, <1>6, <3>2, <3>3, <4>1, <4>2 DEF RowsRight, Shows
    <3>4. ASSUME f \notin suspect
          PROVE  /\ w = "merge" /\ table[f] = None
                 /\ step = "store" => Pending(w, f)'
                 /\ step = "next" => Shows(f, Settled(f))'
      <4>1. w = "merge"
        BY <1>1, <1>2, <3>4 DEF RefreshSuspects, Pending, Treating, Writers
      <4>2. table[f] = None
        BY <1>1, <1>2, <3>4, <4>1 DEF RowsRight, At, AtWork
      <4>3. step = "store" => Pending(w, f)'
        BY <1>4 DEF Treats, Pending, AtWork, Treating
      <4>4. step = "next" => Shows(f, Settled(f))'
        BY <1>1, <1>2, <1>3, <3>2, <4>2 DEF Shows
      <4> QED
        BY <4>1, <4>2, <4>3, <4>4
    <3>5. ~At("merge", "create")'
      BY <1>4, <3>1 DEF Treats, At, AtWork, Writers
    <3>6. f \notin suspect => f \notin op'["merge"].todo
      BY <1>2, <1>4, <3>4 DEF Treats
    <3> QED
      BY <1>1, <1>3, <3>3, <3>4, <3>5, <3>6 DEF RowsRight
  <2> QED
    BY <2>1, <2>2
<1> QED
  BY <1>7, <1>8, <1>11, <1>12, <1>13

LEMMA StoreSymbolsKept ==
  ASSUME IndexInv, NEW w \in Writers, NEW parsed \in BOOLEAN, StoreSymbols(w, parsed)
  PROVE  IndexInv'
<1> USE DEF IndexInv
<1> DEFINE f == op[w].file
           StoresAll == /\ table[f] # None /\ table' = [table EXCEPT ![f].whole = TRUE]
                        /\ suspect' = IF op[w].alone THEN suspect \ {f} ELSE suspect
           StoresNone == suspect' = suspect \cup {f} /\ UNCHANGED table
<1>1. /\ UNCHANGED <<tree, applied>> /\ AtWork(w) /\ op[w].step = "store"
      /\ op' = [op EXCEPT ![w].step = "next"]
      /\ StoresAll \/ StoresNone
  BY DEF StoreSymbols, At, AtWork
<1>2. /\ f \in Files /\ f \notin op[w].todo /\ op[w].todo \subseteq Files
      /\ table \in [Files -> Rows \cup {None}] /\ tree \in [Files -> Versions]
      /\ suspect \subseteq Files
  BY <1>1, HandParts DEF IndexTyped, IndexTypeOK
<1>3. Treats(w, "next", op[w].todo, f)
  BY <1>1, StepsOn DEF Stages
<1>4. StoresAll => /\ table'[f] \in Rows /\ table'[f] # None /\ table'[f].whole
                   /\ table'[f].hash = table[f].hash /\ table[f].hash # NoFile
  <2> SUFFICES ASSUME StoresAll
               PROVE  /\ table'[f] \in Rows /\ table'[f] # None /\ table'[f].whole
                      /\ table'[f].hash = table[f].hash /\ table[f].hash # NoFile
    OBVIOUS
  <2>1. PICK g \in Files : g = f
    BY <1>2
  <2>2. table[g] # None /\ table' = [table EXCEPT ![g].whole = TRUE]
    BY <2>1
  <2>3. table[g] \in Rows
    BY <1>2, <2>2
  <2>4. table'[g] = [table[g] EXCEPT !.whole = TRUE]
    BY <1>2, <2>2
  <2>5. table'[g] \in Rows
    BY <2>3, <2>4 DEF Rows
  <2> QED
    BY <2>1, <2>3, <2>4, <2>5, IndexAssumption DEF Rows
<1>5. \A g \in Files : g # f => table'[g] = table[g] /\ (g \in suspect' <=> g \in suspect)
  BY <1>1, <1>2
<1>6. IndexTyped'
  <2>1. table' \in [Files -> Rows \cup {None}] /\ suspect' \subseteq Files
    BY <1>1, <1>2, <1>4
  <2> QED
    BY <1>1, <1>2, <1>3, <2>1, TurnTyped DEF Stages
<1>7. AloneOrSuspect' /\ (~op[w].alone => suspect' = Files)
  <2>1. ~op[w].alone => suspect' = Files
    BY <1>1, <1>2 DEF AloneOrSuspect
  <2> QED
    BY <1>1, <1>3, <2>1, TurnAlone
<1>8. \A o \in Writers : o # w /\ AtWork(o) => ~op[o].alone
  BY <1>1, AloneWriter
<1>9. RefreshSuspects'
  <2>1. ASSUME At("refresh", "walk")'
        PROVE  suspect' = Files /\ ~op'["refresh"].alone
    <3>1. w # "refresh" /\ op'["refresh"] = op["refresh"] /\ AtWork("refresh") /\ AtWork("refresh")'
      BY <1>3, <2>1 DEF Treats, At, AtWork, Writers
    <3> QED
      BY <1>7, <1>8, <3>1 DEF AloneOrSuspect, Writers
  <2>2. ASSUME NEW g \in Files, Pending("refresh", g)'
        PROVE  g \in suspect'
    <3>1. CASE w = "refresh"
      BY <1>1, <1>2, <1>3, <1>5, <2>2, <3>1 DEF Treats, Pending, Treating, RefreshSuspects
    <3>2. CASE w # "refresh"
      <4>1. AtWork("refresh")' /\ op'["refresh"] = op["refresh"]
        BY <1>3, <2>2, <3>2 DEF Treats, Pending, Writers
      <4> QED
        BY <1>7, <1>8, <3>2, <4>1 DEF AloneOrSuspect, AtWork, Writers
    <3> QED
      BY <3>1, <3>2
  <2> QED
    BY <2>1, <2>2 DEF RefreshSuspects
<1>10. StoresItsRow'
  <2>1. ASSUME NEW o \in Writers, At(o, "store")'
        PROVE  ~op'[o].alone
    BY <1>3, <1>8, <2>1 DEF Treats, At, AtWork
  <2> QED
    BY <2>1 DEF StoresItsRow
<1>11. RowsRight'
  <2>1. CASE ~op[w].alone
    BY <1>7, <2>1, AllSuspect
  <2>2. CASE op[w].alone
    <3>1. applied = None /\ \A o \in Writers : o # w => ~AtWork(o) /\ ~AtWork(o)'
      BY <1>1, <1>3, <2>2, AloneWriter DEF Treats, AtWork
    <3>2. \A g \in Files : Settled(g)' = tree[g] /\ Settled(g) = tree[g]
      BY <1>1, <3>1 DEF Settled
    <3>3. ASSUME NEW g \in Files \ suspect', g # f
          PROVE  /\ (\A o \in Writers : ~Pending(o, g)') => Shows(g, Settled(g))'
                 /\ AtWork("merge")' /\ g \in op'["merge"].todo /\ table'[g] # None => table'[g].whole
      <4>1. \A o \in Writers : Pending(o, g)' <=> Pending(o, g)
        BY <1>1, <1>3, <3>1, <3>3 DEF Treats, Pending, AtWork, Treating
      <4>2. AtWork("merge")' => AtWork("merge") /\ op'["merge"].todo = op["merge"].todo
        BY <1>1, <1>3, <3>1 DEF Treats, AtWork, Writers
      <4> QED
        BY <1>1, <1>5, <3>2, <3>3, <4>1, <4>2 DEF RowsRight, Shows
    <3>4. ASSUME NEW g \in Files \ suspect', g = f
          PROVE  Shows(g, Settled(g))' /\ table'[g].whole
      <4>1. StoresAll
        BY <1>1, <3>4
      <4>2. table[f].hash = tree[f]
        BY <1>1, <2>2 DEF StoresItsRow, At, AtWork
      <4> QED
        BY <1>4, <3>2, <3>4, <4>1, <4>2 DEF Shows
    <3>5. ~At("merge", "create")'
      BY <1>3, <3>1 DEF Treats, At, AtWork, Writers
    <3> QED
      <4>1. ASSUME NEW g \in Files \ suspect'
            PROVE  /\ (\A o \in Writers : ~Pending(o, g)') => Shows(g, Settled(g))'
                   /\ AtWork("merge")' /\ g \in op'["merge"].todo /\ table'[g] # None => table'[g].whole
        <5>1. CASE g = f
          BY <3>4, <4>1, <5>1
        <5>2. CASE g # f
          BY <3>3, <4>1, <5>2
        <5> QED
          BY <5>1, <5>2
      <4> QED
        BY <3>5, <4>1 DEF RowsRight
  <2> QED
    BY <2>1, <2>2
<1> QED
  BY <1>6, <1>7, <1>9, <1>10, <1>11

(* A writer that is done, and one that dies, have nothing in hand. *)
LEMMA WriterLeaves ==
  ASSUME IndexInv, NEW w \in Writers, AtWork(w), op' = [op EXCEPT ![w] = None],
         UNCHANGED <<tree, table, applied>>, suspect \subseteq suspect', suspect' \subseteq Files,
         \A f \in Files : Pending(w, f) => f \in suspect',
         At(w, "walk") => suspect' = Files
  PROVE  IndexInv'
<1> USE DEF IndexInv
<1>1. op \in [Writers -> Works \cup {None}]
  BY DEF IndexTyped, IndexTypeOK
<1>2. op'[w] = None /\ \A o \in Writers : o # w => op'[o] = op[o]
  BY <1>1
<1>3. op' \in [Writers -> Works \cup {None}]
  BY <1>1
<1>4. \A o \in Writers : AtWork(o)' => AtWork(o) /\ op'[o] = op[o] /\ o # w
  BY <1>2 DEF AtWork
<1>5. IndexTyped'
  <2>1. IndexTypeOK'
    BY <1>3 DEF IndexTyped, IndexTypeOK
  <2> QED
    BY <1>4, <2>1 DEF IndexTyped, Treating, Writers
<1>6. \A o \in Writers : AtWork(o)' => ~op[o].alone
  BY <1>4, AloneWriter
<1>7. AloneOrSuspect'
  <2>1. \A o \in Writers : AtWork(o)' => suspect' = Files /\ ~op'[o].alone
    BY <1>4, <1>6 DEF AloneOrSuspect
  <2> QED
    BY <2>1 DEF AloneOrSuspect
<1>8. RefreshSuspects'
  BY <1>4, <1>7, <1>6 DEF RefreshSuspects, AloneOrSuspect, At, AtWork, Pending, Writers
<1>9. StoresItsRow'
  BY <1>4, <1>6 DEF StoresItsRow, At, AtWork
<1>10. RowsRight'
  <2>1. CASE \E o \in Writers : AtWork(o)'
    BY <1>4, <1>6, <1>7, <2>1, AllSuspect DEF AloneOrSuspect
  <2>2. CASE \A o \in Writers : ~AtWork(o)'
    <3>1. \A o \in Writers : o # w => ~AtWork(o)
      BY <1>2, <2>2 DEF AtWork
    <3>2. \A f \in Files \ suspect' : Shows(f, Settled(f))
      BY <3>1 DEF RowsRight, Pending
    <3>3. \A f \in Files \ suspect' : Shows(f, Settled(f))'
      BY <3>2 DEF Shows, Settled
    <3> QED
      BY <2>2, <3>3 DEF RowsRight, At, AtWork, Writers
  <2> QED
    BY <2>1, <2>2
<1> QED
  BY <1>5, <1>7, <1>8, <1>9, <1>10

LEMMA FinishIndexingKept ==
  ASSUME IndexInv, NEW w \in Writers, FinishIndexing(w)
  PROVE  IndexInv'
<1>1. /\ AtWork(w) /\ op[w].step = "next" /\ op[w].todo = {} /\ op' = [op EXCEPT ![w] = None]
      /\ UNCHANGED <<tree, table, applied, suspect>>
  BY DEF FinishIndexing, At, AtWork
<1>2. suspect \subseteq Files /\ (\A f \in Files : ~Pending(w, f)) /\ ~At(w, "walk")
  BY <1>1 DEF IndexInv, IndexTyped, IndexTypeOK, Pending, Treating, At
<1> QED
  BY <1>1, <1>2, WriterLeaves

LEMMA DieIndexingKept ==
  ASSUME IndexInv, NEW w \in Writers, DieIndexing(w)
  PROVE  IndexInv'
<1>1. /\ AtWork(w) /\ op' = [op EXCEPT ![w] = None] /\ UNCHANGED <<tree, table, applied>>
      /\ suspect' = IF At(w, "walk") THEN Files
                    ELSE suspect \cup op[w].todo \cup (IF At(w, "next") THEN {} ELSE {op[w].file})
  BY DEF DieIndexing, AtWork
<1>2. /\ suspect \subseteq Files /\ op[w].step \in Stages /\ op[w].todo \subseteq Files
      /\ op[w].step \in {"create", "store"} => op[w].file \in Files
  BY <1>1, HandParts DEF IndexInv, IndexTyped, IndexTypeOK
<1>3. suspect \subseteq suspect' /\ suspect' \subseteq Files
  BY <1>1, <1>2 DEF At, AtWork, Stages
<1>4. \A f \in Files : Pending(w, f) => f \in suspect'
  BY <1>1, <1>2 DEF Pending, Treating, At
<1> QED
  BY <1>1, <1>3, <1>4, WriterLeaves

-----------------------------------------------------------------------------
LEMMA IndexStarts == IndexInit => IndexInv
<1> SUFFICES ASSUME IndexInit
             PROVE  IndexInv
  OBVIOUS
<1>1. \A w \in Writers : op[w] = None
  BY DEF IndexInit
<1>2. IndexTyped
  <2>1. tree \in [Files -> Versions]
    BY IndexAssumption DEF IndexInit
  <2> QED
    BY <1>1, <2>1 DEF IndexInit, IndexTyped, IndexTypeOK, AtWork, Treating, Writers
<1>3. AloneOrSuspect /\ RefreshSuspects /\ StoresItsRow
  BY <1>1 DEF AloneOrSuspect, RefreshSuspects, StoresItsRow, AtWork, At, Pending, Writers
<1>4. RowsRight
  BY DEF IndexInit, RowsRight
<1> QED
  BY <1>2, <1>3, <1>4 DEF IndexInv

LEMMA IndexKept ==
  ASSUME IndexInv, [IndexNext]_indexVars
  PROVE  IndexInv'
<1>1. CASE IndexNext
  BY <1>1, ApplyKept, RevertKept, CommitKept, ClearIndexKept, WalkKept, RefreshFileKept,
    IndexFilesKept, CreateIndexFileKept, FinishIndexingKept, DieIndexingKept, StoreSymbolsKept
    DEF IndexNext
<1>2. CASE UNCHANGED indexVars
  <2> USE <1>2 DEF indexVars, IndexInv
  <2>1. IndexTyped'
    BY DEF IndexTyped, IndexTypeOK, AtWork, Treating
  <2>2. AloneOrSuspect' /\ RefreshSuspects' /\ StoresItsRow'
    BY DEF AloneOrSuspect, RefreshSuspects, StoresItsRow, AtWork, At, Pending, Treating
  <2>3. RowsRight'
    BY DEF RowsRight, Pending, AtWork, Treating, At, Shows, Settled
  <2> QED
    BY <2>1, <2>2, <2>3
<1> QED
  BY <1>1, <1>2

LEMMA IndexShows ==
  ASSUME IndexInv
  PROVE  IndexCurrent
BY DEF IndexInv, RowsRight, Pending, AtWork, Shows, Settled, IndexCurrent

(***************************************************************************)
(* The index: when nobody is at work and no output waits for its commit,   *)
(* every row that is not excused shows the file as it is, for any files,   *)
(* contents, merges, rebuilds and crashes (index/indexer.go).              *)
(***************************************************************************)
THEOREM IndexCorrect == IndexSpec => []IndexCurrent
<1>1. IndexInit => IndexInv
  BY IndexStarts
<1>2. IndexInv /\ [IndexNext]_indexVars => IndexInv'
  BY IndexKept
<1>3. IndexInv => IndexCurrent
  BY IndexShows
<1> QED
  BY <1>1, <1>2, <1>3, PTL DEF IndexSpec

LEMMA IndexTypes == IndexSpec => []IndexTypeOK
<1>1. IndexInit => IndexInv
  BY IndexStarts
<1>2. IndexInv /\ [IndexNext]_indexVars => IndexInv'
  BY IndexKept
<1>3. IndexInv => IndexTypeOK
  BY DEF IndexInv, IndexTyped
<1> QED
  BY <1>1, <1>2, <1>3, PTL DEF IndexSpec
=============================================================================
