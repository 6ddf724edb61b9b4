------------------------------- MODULE EventFeed -------------------------------
(***************************************************************************)
(* The event bus of one process: goroutines publish at the same time, an   *)
(* authoritative event of a run is written to the events table first, then *)
(* every event is sent to the channels of the subscribers without waiting. *)
(***************************************************************************)
EXTENDS Naturals, Sequences, FiniteSetsExt

CONSTANTS
  Publishers,        \* goroutines of the engine
  Buffer,            \* capacity of a subscriber's channel (64)
  MaxEvents,         \* bound on the events
  MaxSubscriptions   \* bound on the subscriptions

(* What the constants are. *)
ASSUME FeedAssumption == {Buffer, MaxEvents, MaxSubscriptions} \subseteq Nat

VARIABLES
  events,            \* the events table, by ID
  subs, nextID,      \* Bus.subs: subscription ID |-> its channel; Bus.nextID
  chans,             \* channels in the order of their creation
  pubs, emitted      \* what each publisher does; how many events it has published

feedVars == <<events, subs, nextID, chans, pubs, emitted>>

Idle == [step |-> "idle"]

FeedTypeOK ==
  /\ nextID \in 0..MaxSubscriptions /\ DOMAIN subs \subseteq 0..MaxSubscriptions
  /\ \A i \in DOMAIN subs : subs[i] \in DOMAIN chans
  /\ \A c \in DOMAIN chans : chans[c].unread <= Buffer /\ chans[c].unread <= Len(chans[c].got)
  /\ \A p \in Publishers : pubs[p].step \in {"idle", "persist", "ready", "fan"}

FeedInit ==
  /\ events = <<>> /\ subs = <<>> /\ nextID = 0 /\ chans = <<>>
  /\ pubs = [p \in Publishers |-> Idle]
  /\ emitted = [p \in Publishers |-> 0]

Becomes(p, r) == pubs' = [pubs EXCEPT ![p] = r]

-----------------------------------------------------------------------------
(* Subscribe and Unsubscribe take the lock that every fan-out shares. *)
Unlocked == \A p \in Publishers : pubs[p].step # "fan"

SubscribeAs(id) ==
  /\ Unlocked /\ Len(chans) < MaxSubscriptions
  /\ chans' = Append(chans, [id |-> id, open |-> TRUE, from |-> Len(events),
                             got |-> <<>>, unread |-> 0, dropped |-> FALSE])
  /\ subs' = [i \in DOMAIN subs \cup {id} |->
                IF i = id THEN Len(chans) + 1 ELSE subs[i]]
  /\ UNCHANGED <<events, pubs, emitted>>

SubscribeByCount ==
  SubscribeAs(Len(SelectSeq(chans, LAMBDA ch : ch.open))) /\ UNCHANGED nextID

Subscribe == SubscribeAs(nextID) /\ nextID' = nextID + 1

Unsubscribe(c) ==
  /\ Unlocked /\ chans[c].open
  /\ subs' = [i \in DOMAIN subs \ {chans[c].id} |-> subs[i]]
  /\ chans' = [chans EXCEPT ![c].open = FALSE, ![c].unread = 0]
  /\ UNCHANGED <<events, nextID, pubs, emitted>>

(* The terminal's listenForEvents or the loop of an event socket. *)
Read(c) ==
  /\ chans[c].open /\ chans[c].unread > 0
  /\ chans' = [chans EXCEPT ![c].unread = @ - 1]
  /\ UNCHANGED <<events, subs, nextID, pubs, emitted>>

-----------------------------------------------------------------------------
Emitted == MapThenSumSet(LAMBDA q : emitted[q], Publishers)

(* A view-model event, or one without a run, is not written. *)
Publish(p) ==
  /\ pubs[p].step = "idle" /\ Emitted < MaxEvents
  /\ emitted' = [emitted EXCEPT ![p] = @ + 1]
  /\ \E kept \in BOOLEAN :
       Becomes(p, [step |-> IF kept THEN "persist" ELSE "ready",
              ev |-> [by |-> p, n |-> emitted'[p], kept |-> kept]])
  /\ UNCHANGED <<events, subs, nextID, chans>>

(* One insert at a time; an event that cannot be written is not sent. *)
Persist(p) ==
  /\ pubs[p].step = "persist"
  /\ \/ events' = Append(events, pubs[p].ev) /\ Becomes(p, [pubs[p] EXCEPT !.step = "ready"])
     \/ UNCHANGED events /\ Becomes(p, Idle)
  /\ UNCHANGED <<subs, nextID, chans, emitted>>

FanOut(p) ==
  /\ pubs[p].step = "ready"
  /\ Becomes(p, [step |-> "fan", ev |-> pubs[p].ev, left |-> DOMAIN subs])
  /\ UNCHANGED <<events, subs, nextID, chans, emitted>>

(* A full channel drops the event. *)
Send(p) ==
  /\ pubs[p].step = "fan"
  /\ \E i \in pubs[p].left :
     LET c == subs[i]
     IN  /\ chans' = IF chans[c].unread < Buffer
                     THEN [chans EXCEPT ![c].got = Append(@, pubs[p].ev), ![c].unread = @ + 1]
                     ELSE [chans EXCEPT ![c].dropped = TRUE]
         /\ Becomes(p, [pubs[p] EXCEPT !.left = @ \ {i}])
  /\ UNCHANGED <<events, subs, nextID, emitted>>

FanOutEnds(p) ==
  /\ pubs[p].step = "fan" /\ pubs[p].left = {} /\ Becomes(p, Idle)
  /\ UNCHANGED <<events, subs, nextID, chans, emitted>>

FeedNext ==
  \/ Subscribe
  \/ \E c \in DOMAIN chans : Unsubscribe(c) \/ Read(c)
  \/ \E p \in Publishers :
       Publish(p) \/ Persist(p) \/ FanOut(p) \/ Send(p) \/ FanOutEnds(p)

FeedSpec == FeedInit /\ [][FeedNext]_feedVars

-----------------------------------------------------------------------------
Within(e, s) == \E i \in DOMAIN s : s[i] = e

(* What a channel was sent is in the table when it should be, ... *)
SentIsLogged(ch) == \A i \in DOMAIN ch.got : ch.got[i].kept => Within(ch.got[i], events)

(* ... comes in the order of each publisher and once, ... *)
SentInOrder(ch) ==
  \A i, j \in DOMAIN ch.got : i < j /\ ch.got[i].by = ch.got[j].by => ch.got[i].n < ch.got[j].n

(* ... and leaves nothing out that was written since the subscription, but *)
(* for events still on their way.                                          *)
LoggedIsSent(ch) ==
  \A k \in ch.from + 1 .. Len(events) :
    LET e == events[k] IN
    \/ Within(e, ch.got)
    \/ /\ pubs[e.by].step \in {"ready", "fan"} /\ pubs[e.by].ev = e
       /\ pubs[e.by].step = "fan" => ch.id \in pubs[e.by].left

(* A subscriber whose channel was never full sees, until it leaves, the    *)
(* history the events table keeps, whatever other subscribers do: come,    *)
(* leave, or stop reading (bus.go:fanOut "without blocking").              *)
FeedFaithful ==
  \A c \in DOMAIN chans :
    /\ SentIsLogged(chans[c]) /\ SentInOrder(chans[c])
    /\ chans[c].open /\ ~chans[c].dropped => LoggedIsSent(chans[c])
=============================================================================
