------------------------------ MODULE ServicesInv ------------------------------
(* The inductive invariants of EcoLog, EventFeed, Sessions, Terminal and     *)
(* ProjectIndex, which share no variable.                                    *)
EXTENDS EcoLog, EventFeed, Sessions, Terminal, ProjectIndex

-----------------------------------------------------------------------------
(* The ECO log: EcoLog.                                                    *)

CallTags == {Free} \cup [step : {"list"}, run : EcoRuns]
                   \cup [step : {"create"}, run : EcoRuns, code : Nat]
                   \cup [step : {"write"}, order : Nat]

(* Orders are numbered within the bound: a code is at most one more than the *)
(* orders there are.                                                         *)
EcoTyped ==
  /\ EcoTypeOK /\ calls \in [EcoClients -> CallTags] /\ Len(log) <= MaxOrders
  /\ \A c \in EcoClients : calls[c].step = "create" => calls[c].code \in 1..(Len(log) + 1)

Proposing(c, r) == calls[c].step \in {"list", "create"} /\ calls[c].run = r

(* Of a run whose proposals never overlapped, the orders have the codes they *)
(* were counted for, and the one proposal under way has the next.            *)
OneProposal(r) ==
  \A c, d \in EcoClients : Proposing(c, r) /\ Proposing(d, r) => c = d
CodesCounted(r) ==
  /\ \A i \in DOMAIN log : log[i].run = r => log[i].code <= Count(r)
  /\ \A c \in EcoClients : calls[c].step = "create" /\ calls[c].run = r =>
       calls[c].code = Count(r) + 1
CodesDiffer(r) ==
  \A i, j \in DOMAIN log :
    log[i].run = r /\ log[j].run = r /\ log[i].code = log[j].code => i = j

RunInv(r) == OneProposal(r) /\ CodesCounted(r) /\ CodesDiffer(r)

(* What is being written was approved; what a file shows is an order. *)
WritesApproved ==
  \A c \in EcoClients : calls[c].step = "write" =>
    calls[c].order \in DOMAIN log /\ log[calls[c].order].status = "approved"
FilesShow == \A o \in Orders : files[o] # NoOrder => files[o] \in DOMAIN log

EcoInv ==
  /\ EcoTyped /\ \A r \in EcoRuns \ clashed : RunInv(r)
  /\ WritesApproved /\ FilesShow /\ OrdersOnFile

-----------------------------------------------------------------------------
(* The event bus: EventFeed.                                               *)

Event == [by : Publishers, n : Nat, kept : BOOLEAN]
Channel == [id : Nat, open : BOOLEAN, from : Nat, got : Seq(Event), unread : Nat,
            dropped : BOOLEAN]
Emission == {Idle} \cup [step : {"persist", "ready"}, ev : Event]
                   \cup [step : {"fan"}, ev : Event, left : SUBSET Nat]

FeedTyped ==
  /\ events \in Seq(Event) /\ nextID \in Nat /\ chans \in Seq(Channel)
  /\ DOMAIN subs \subseteq Nat /\ subs \in [DOMAIN subs -> DOMAIN chans]
  /\ pubs \in [Publishers -> Emission] /\ emitted \in [Publishers -> Nat]

(* The map of the bus has the open channels, each under an ID of its own. *)
SubsAreOpen ==
  /\ \A i \in DOMAIN subs : chans[subs[i]].id = i /\ chans[subs[i]].open
  /\ \A c \in DOMAIN chans : chans[c].id < nextID
  /\ \A c \in DOMAIN chans : chans[c].open => chans[c].id \in DOMAIN subs /\ subs[chans[c].id] = c

(* An event on its way is the last of its publisher, and in the table if it *)
(* is one to be kept; a fan-out goes to the subscriptions there are.        *)
OnItsWay(p) ==
  /\ pubs[p].step # "idle" => pubs[p].ev.by = p /\ pubs[p].ev.n = emitted[p]
  /\ pubs[p].step = "persist" => pubs[p].ev.kept
  /\ pubs[p].step \in {"ready", "fan"} /\ pubs[p].ev.kept => Within(pubs[p].ev, events)
  /\ pubs[p].step = "fan" => pubs[p].left \subseteq DOMAIN subs

(* A channel that has yet to be sent the event of p has earlier ones only. *)
ToBeSent(p, ch) ==
  pubs[p].step \in {"persist", "ready"} \/ (pubs[p].step = "fan" /\ ch.id \in pubs[p].left)
Behind(p, ch) ==
  \A j \in DOMAIN ch.got : ch.got[j].by = p =>
    ch.got[j].n <= emitted[p] /\ (ToBeSent(p, ch) => ch.got[j].n < emitted[p])

BusInv ==
  /\ FeedTyped /\ SubsAreOpen
  /\ \A p \in Publishers : OnItsWay(p) /\ \A c \in DOMAIN chans : Behind(p, chans[c])
  /\ FeedFaithful

(* A channel holds no more than its capacity, and no more than it was sent; *)
(* IDs are counted with the subscriptions.                                  *)
FeedSized ==
  /\ nextID = Len(chans) /\ Len(chans) <= MaxSubscriptions
  /\ \A c \in DOMAIN chans : chans[c].unread <= Buffer /\ chans[c].unread <= Len(chans[c].got)

-----------------------------------------------------------------------------
(* The sessions and the terminal: Sessions, Terminal.                      *)

Message == Terminals \X Nat

Steps == {Off} \cup [step : {"create", "resume", "open"}, session : Nat]
               \cup [step : {"add"}, session : Nat, key : Nat \X Nat, msg : Message]
               \cup [step : {"summary"}, session : Nat, cut : Nat, told : SUBSET Message]
               \cup [step : {"delete"}, session : Nat, cut : Nat]

Opened(p) == term[p].step \notin {"off", "create", "resume"}

(* What a process has in hand: a session unless it is off or creates one, no *)
(* number before the session is open, the message it wrote last.             *)
Carries(p) ==
  /\ term[p].session \in 0..created
  /\ term[p].session = 0 => term[p].step \in {"off", "create"}
  /\ ~Opened(p) => seqCache[p] = NoSeq
  /\ term[p].step = "add" => /\ seqCache[p] # NoSeq
                             /\ term[p].key = <<term[p].session, seqCache[p]>>
                             /\ term[p].msg = <<p, written[p]>>

SessTyped ==
  /\ created \in 0..MaxSessions /\ latest \in 0..created
  /\ term \in [Terminals -> Steps]
  /\ seqCache \in [Terminals -> Nat] /\ written \in [Terminals -> Nat]
  /\ \A k \in DOMAIN rows : k \in (1..created) \X (Nat \ {NoSeq}) /\ rows[k] \in accepted
  /\ \E n \in Nat : \A k \in DOMAIN rows : k[2] <= n
  /\ accepted \cup refused \subseteq Message
  /\ \A p \in Terminals : Carries(p)

(* A message in hand is newer than those that were added or refused. *)
MessagesPast ==
  \A m \in accepted \cup refused :
    /\ m[2] <= written[m[1]]
    /\ term[m[1]].step = "add" => m[2] < written[m[1]]

(* Unless a session is shared it is open in one process. *)
Alone ==
  shared = {} => \A p, q \in Terminals :
                   Opened(p) /\ Opened(q) /\ term[p].session = term[q].session => p = q

(* The number a process has is beyond its own messages in the session, and *)
(* beyond all of them unless a session is shared.                          *)
CacheAbove ==
  \A p \in Terminals, k \in DOMAIN rows :
    /\ seqCache[p] # NoSeq /\ k[1] = term[p].session
    /\ rows[k][1] = p \/ shared = {}
    => k[2] <= seqCache[p] /\ (term[p].step = "add" => k[2] < seqCache[p])

(* What a compaction will delete is in its summary, or overtook it. *)
CutsTold ==
  \A p \in Terminals, k \in DOMAIN rows :
    /\ term[p].step \in {"summary", "delete"}
    /\ k[1] = term[p].session /\ k[2] < term[p].cut
    => \/ rows[k] \in overtaken
       \/ IF term[p].step = "summary" THEN rows[k] \in term[p].told ELSE Told(rows[k])

SessInv ==
  /\ SessTyped /\ MessagesPast /\ refused \cap accepted = {}
  /\ Alone /\ CacheAbove /\ CutsTold /\ TranscriptKept

-----------------------------------------------------------------------------
Commands == DOMAIN Requires
Modes == {"bootstrap", "approval", "execution", "postrun"}

(* What the goroutine does: a call with its run, then the call left behind. *)
Handlers ==
  {AtRest, [cmd |-> "drain"]} \cup [cmd : {"drain"}, after : Commands]
    \cup [cmd : Commands, run : DOMAIN runTable]

TermTyped ==
  /\ TermTypeOK /\ handler \in Handlers
  /\ screen = "unset" => handler = AtRest
  /\ {channel, results, asked, armings, launched, forced} \subseteq Nat

(* One run is in flight unless two StartRun calls overlapped. *)
OneActive == ~twoRuns => \A i, j \in Active : i = j

(* The mode the screen is to show once the goroutine is back. *)
Shown == IF "after" \in DOMAIN handler THEN ModeAfter(handler.after) ELSE screen

UpToDate == screen # "unset" /\ channel = 0 /\ ~behind /\ ~twoRuns => Shown = DetermineMode

(* A call left behind is still to come, an armed gate may still let one pass. *)
CallsCounted ==
  /\ launched + (IF pendingCmd = "none" THEN 0 ELSE 1) <= asked
  /\ forced + (IF pendingCmd = "force" THEN 1 ELSE 0)
            + (IF pendingNewRunConfirm THEN 1 ELSE 0) <= armings

TermInv == TermTyped /\ OneActive /\ UpToDate /\ CallsCounted

-----------------------------------------------------------------------------
(* The index of files: ProjectIndex.                                       *)

AtWork(w) == op[w] # None
Treating(w) == AtWork(w) /\ op[w].step \in {"create", "store"}

(* A file whose row a writer has yet to bring up to date. *)
Pending(w, f) == AtWork(w) /\ (f \in op[w].todo \/ (Treating(w) /\ f = op[w].file))

IndexTyped ==
  /\ IndexTypeOK
  /\ applied # None => ~AtWork("merge")
  /\ \A w \in Writers : Treating(w) => op[w].file \in Files \ op[w].todo
  /\ AtWork("merge") => op["merge"].step # "walk"

(* A writer that is alone has the tree for itself.  One that is not has made *)
(* every row suspect, and so it stays.                                       *)
AloneOrSuspect ==
  \A w \in Writers :
    AtWork(w) => IF op[w].alone
                 THEN ~AtWork(Other(w)) /\ (w = "refresh" => applied = None)
                 ELSE suspect = Files

(* What a refresh is to index is suspect, and the table empty before. *)
RefreshSuspects ==
  /\ At("refresh", "walk") =>
       suspect = Files /\ (op["refresh"].alone => \A f \in Files : table[f] = None)
  /\ \A f \in Files : Pending("refresh", f) => f \in suspect

(* A writer that is alone stores the symbols of the row it has created. *)
StoresItsRow ==
  \A w \in Writers :
    At(w, "store") /\ op[w].alone =>
      LET f == op[w].file IN table[f] # None /\ table[f].hash = tree[f] /\ table[f].by = w

(* The content the index is to show: the one an output replaced may come back. *)
Settled(f) == IF applied # None /\ f \in DOMAIN applied THEN applied[f] ELSE tree[f]

Shows(f, content) ==
  IF content = NoFile THEN table[f] = None
  ELSE table[f] # None /\ table[f].hash = content /\ table[f].whole

(* The rows at rest are right.  One that waits for the merge queue is whole, *)
(* and gone once the queue has it in hand.                                   *)
RowsRight ==
  \A f \in Files \ suspect :
    /\ (\A w \in Writers : ~Pending(w, f)) => Shows(f, Settled(f))
    /\ AtWork("merge") /\ f \in op["merge"].todo /\ table[f] # None => table[f].whole
    /\ At("merge", "create") /\ f = op["merge"].file => table[f] = None

IndexInv == IndexTyped /\ AloneOrSuspect /\ RefreshSuspects /\ StoresItsRow /\ RowsRight
=============================================================================
