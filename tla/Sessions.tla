-------------------------------- MODULE Sessions --------------------------------
(***************************************************************************)
(* The sessions of a project: every process that opens the terminal takes  *)
(* up the latest session or creates one, and adds messages to its          *)
(* transcript under a number it keeps in memory; CompactSession replaces   *)
(* the oldest messages with a summary.  The statements of two processes    *)
(* interleave; processes end at any moment.                                *)
(***************************************************************************)
EXTENDS Naturals, FiniteSetsExt

CONSTANTS
  Terminals,         \* processes
  Keep,              \* keepCount of CompactSession
  MaxSessions,       \* bounds: sessions, messages written by a process, compactions
  MaxMessages, MaxCompactions

VARIABLES
  created, latest,   \* ui_sessions: how many; the one active last, 0 for none
  rows,              \* ui_messages: session and seq |-> message
  summaries,         \* ui_session_summaries: messages each one tells of
  term,              \* process |-> its session (0: none), what it does
  seqCache,          \* Manager.seqCache of its session, NoSeq if unset
  written,           \* messages a process has written
  accepted,          \* history: messages AddTranscriptMessage reported as added
  refused,           \* history: messages the table refused, with their session
  shared, overtaken  \* history: sessions of two processes; messages added below the cut
                     \* of a compaction under way

sessVars == <<created, latest, rows, summaries, term, seqCache, written,
              accepted, refused, shared, overtaken>>

(* Compaction to nothing does not occur: the code would look for the first *)
(* message that is kept.                                                   *)
ASSUME SessionsAssumption ==
  /\ Keep \in Nat \ {0}
  /\ {MaxSessions, MaxMessages, MaxCompactions} \subseteq Nat

NoSeq == 0           \* numbers start at 1
Off == [step |-> "off", session |-> 0]

SessTypeOK ==
  /\ created \in 0..MaxSessions /\ latest \in 0..created
  /\ \A k \in DOMAIN rows : k[1] \in 1..created /\ k[2] \in Nat \ {NoSeq}
  /\ \A p \in Terminals : term[p].session \in 0..created /\ seqCache[p] \in Nat
  /\ refused \cap accepted = {}

SessInit ==
  /\ created = 0 /\ latest = 0
  /\ rows = <<>> /\ summaries = {}
  /\ term = [p \in Terminals |-> Off]
  /\ seqCache = [p \in Terminals |-> NoSeq]
  /\ written = [p \in Terminals |-> 0]
  /\ accepted = {} /\ refused = {} /\ shared = {} /\ overtaken = {}

Does(p, r) == term' = [term EXCEPT ![p] = r]
transcript == <<rows, summaries, seqCache, written, accepted, refused, overtaken>>

-----------------------------------------------------------------------------
ResumeOrCreateSession(p) ==
  /\ term[p].step = "off"
  /\ IF latest = 0
     THEN Does(p, [step |-> "create", session |-> 0])
     ELSE Does(p, [step |-> "resume", session |-> latest])
  /\ UNCHANGED <<created, latest, shared>> /\ UNCHANGED transcript

CreateSession(p) ==
  /\ term[p].step = "create" /\ created < MaxSessions
  /\ created' = created + 1 /\ latest' = created'
  /\ Does(p, [step |-> "open", session |-> latest'])
  /\ UNCHANGED shared /\ UNCHANGED transcript

Users(s) == {p \in Terminals : term[p].session = s}

(* A session is resumed whether or not another process has it open. *)
ResumeSession(p) ==
  LET s == term[p].session IN
  /\ term[p].step = "resume" /\ latest' = s
  /\ Does(p, [step |-> "open", session |-> s])
  /\ shared' = IF Users(s) # {p} THEN shared \cup {s} ELSE shared
  /\ UNCHANGED created /\ UNCHANGED transcript

-----------------------------------------------------------------------------
SeqsOf(s) == {k[2] : k \in {j \in DOMAIN rows : j[1] = s}}

GetMessageCount(s) == Cardinality(SeqsOf(s))
GetMaxSeqBySession(s) == Max(SeqsOf(s) \cup {0})

(* The number is taken under the lock of the manager, ... *)
TakeSeq(p) ==
  LET s == term[p].session
      seq == (IF seqCache[p] = NoSeq THEN GetMaxSeqBySession(s) ELSE seqCache[p]) + 1
  IN  /\ term[p].step = "open" /\ written[p] < MaxMessages
      /\ seqCache' = [seqCache EXCEPT ![p] = seq]
      /\ written' = [written EXCEPT ![p] = @ + 1]
      /\ Does(p, [step |-> "add", session |-> s, key |-> <<s, seq>>, msg |-> <<p, written'[p]>>])
      /\ UNCHANGED <<created, latest, rows, summaries, accepted, refused, shared, overtaken>>

(* ... the row is inserted after that, unless its number is taken. *)
AddMessage(p) ==
  LET k == term[p].key  m == term[p].msg IN
  /\ term[p].step = "add"
  /\ Does(p, [step |-> "open", session |-> term[p].session])
  /\ IF k \in DOMAIN rows
     THEN refused' = refused \cup {m} /\ UNCHANGED <<rows, accepted, overtaken, latest>>
     ELSE /\ rows' = [j \in DOMAIN rows \cup {k} |-> IF j = k THEN m ELSE rows[j]]
          /\ accepted' = accepted \cup {m} /\ latest' = k[1]
          /\ overtaken' = IF \E q \in Users(k[1]) : term[q].step \in {"summary", "delete"}
                                                     /\ term[q].cut > k[2]
                          THEN overtaken \cup {m} ELSE overtaken
          /\ UNCHANGED refused
  /\ UNCHANGED <<created, summaries, seqCache, written, shared>>

-----------------------------------------------------------------------------
(* Messages are read, then told in a summary, then deleted below the first *)
(* one that is kept.                                                       *)
CompactSession(p) ==
  LET s == term[p].session  seqs == SeqsOf(s) IN
  /\ term[p].step = "open" /\ Cardinality(summaries) < MaxCompactions
  /\ Cardinality(seqs) > Keep
  /\ LET cut == CHOOSE n \in seqs : Cardinality({i \in seqs : i >= n}) = Keep
     IN  Does(p, [step |-> "summary", session |-> s, cut |-> cut,
                told |-> {rows[<<s, i>>] : i \in {j \in seqs : j < cut}}])
  /\ UNCHANGED <<created, latest, shared>> /\ UNCHANGED transcript

AddSessionSummary(p) ==
  /\ term[p].step = "summary"
  /\ summaries' = summaries \cup {<<term[p].session, term[p].told>>}
  /\ Does(p, [step |-> "delete", session |-> term[p].session, cut |-> term[p].cut])
  /\ UNCHANGED <<created, latest, rows, seqCache, written, accepted, refused, shared, overtaken>>

DeleteMessagesThrough(p) ==
  /\ term[p].step = "delete"
  /\ rows' = [k \in {j \in DOMAIN rows : j[1] # term[p].session \/ j[2] > term[p].cut} |-> rows[k]]
  /\ Does(p, [step |-> "open", session |-> term[p].session])
  /\ UNCHANGED <<created, latest, summaries, seqCache, written, accepted, refused, shared, overtaken>>

DeleteMessagesBySessionBefore(p) ==
  /\ term[p].step = "delete"
  /\ rows' = [k \in {j \in DOMAIN rows : j[1] # term[p].session \/ j[2] >= term[p].cut} |-> rows[k]]
  /\ Does(p, [step |-> "open", session |-> term[p].session])
  /\ UNCHANGED <<created, latest, summaries, seqCache, written, accepted, refused, shared, overtaken>>

(* The process ends, in the middle of a call or not. *)
Quit(p) ==
  /\ term[p].step # "off" /\ Does(p, Off)
  /\ seqCache' = [seqCache EXCEPT ![p] = NoSeq]
  /\ UNCHANGED <<created, latest, rows, summaries, written, accepted, refused, shared, overtaken>>

SessNext ==
  \/ \E p \in Terminals :
       \/ ResumeOrCreateSession(p) \/ CreateSession(p) \/ ResumeSession(p)
       \/ TakeSeq(p) \/ AddMessage(p) \/ Quit(p)
       \/ CompactSession(p) \/ AddSessionSummary(p) \/ DeleteMessagesBySessionBefore(p)

SessSpec == SessInit /\ [][SessNext]_sessVars

-----------------------------------------------------------------------------
Stored(m) == \E k \in DOMAIN rows : rows[k] = m
Told(m) == \E t \in summaries : m \in t[2]

(* A message reported as added is in the transcript or in a summary: a     *)
(* compaction deletes nothing but what it told, except a message whose     *)
(* number was taken before and whose row comes while it is under way.      *)
AddedIsKept == \A m \in accepted \ overtaken : Stored(m) \/ Told(m)

(* The messages of a process stay in the order it wrote them, over         *)
(* compactions and restarts.                                               *)
InWrittenOrder ==
  \A j, k \in DOMAIN rows :
    j[1] = k[1] /\ rows[j][1] = rows[k][1] /\ j[2] < k[2] => rows[j][2] < rows[k][2]

(* "Initialize from DB to avoid collisions on resumed sessions"            *)
(* (manager.go:AddTranscriptMessage): a message is refused only in a       *)
(* session that two processes had open at once.                            *)
RefusedOnlyShared == refused # {} => shared # {}

TranscriptKept == AddedIsKept /\ InWrittenOrder /\ RefusedOnlyShared
=============================================================================
