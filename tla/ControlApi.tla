------------------------------- MODULE ControlApi -------------------------------
(***************************************************************************)
(* The API server: every HTTP request passes the rate limiter, then the    *)
(* token check; a REST command is executed once, a control socket stays    *)
(* open and serves one request after the other, answering a key it has     *)
(* seen from the memory of that connection.  Connections break at any      *)
(* moment and the orchestrator connects again.                             *)
(***************************************************************************)
EXTENDS Naturals, Sequences, FiniteSets

CONSTANTS
  Tokens, ReadOnly,  \* API tokens; those with the read-only scope
  Conns, ApiKeys,    \* requests or sockets being served; idempotency keys
  Window, CleanEvery, RPM,   \* the limiter's minute and 10 seconds in ticks, its limit
  MaxTime, MaxEffects  \* bounds: ticks, executions of a key

(* What the constants are.  With a limit of 0 the server has no limiter. *)
ASSUME ControlAssumption ==
  /\ IsFiniteSet(Conns)
  /\ {Window, RPM} \subseteq Nat \ {0} /\ {CleanEvery, MaxTime, MaxEffects} \subseteq Nat

VARIABLES
  now,
  standing,          \* token |-> "valid", "revoked" or "expired"
  buckets, lastClean,  \* token |-> times of its counted requests, time of the last cleaning
  passed,            \* history: times of the requests of the last minute let through
  conn,              \* what each connection does
  sent, executed     \* key |-> sockets it came in by (history), times it reached the engine

controlVars == <<now, standing, buckets, lastClean, passed, conn, sent, executed>>

Closed == [step |-> "closed"]

ControlTypeOK ==
  /\ now \in 0..MaxTime
  /\ \A t \in Tokens : standing[t] \in {"valid", "revoked", "expired"} /\ lastClean[t] <= now
  /\ \A c \in Conns : conn[c].step \in {"closed", "auth", "rest", "open", "dispatch", "set"}
  /\ \A k \in ApiKeys : executed[k] \in 0..MaxEffects /\ sent[k] \in 0..MaxEffects

ControlInit ==
  /\ now = 0 /\ standing = [t \in Tokens |-> "valid"]
  /\ buckets = [t \in Tokens |-> <<>>] /\ lastClean = [t \in Tokens |-> 0]
  /\ passed = [t \in Tokens |-> <<>>]
  /\ conn = [c \in Conns |-> Closed]
  /\ sent = [k \in ApiKeys |-> 0] /\ executed = [k \in ApiKeys |-> 0]

Turn(c, r) == conn' = [conn EXCEPT ![c] = r]
limits == <<buckets, lastClean, passed>>

InWindow(times, at) ==
  LET kept[i \in 0..Len(times)] ==
        IF i = 0 THEN <<>>
        ELSE IF times[i] + Window > at THEN Append(kept[i - 1], times[i])
        ELSE kept[i - 1]
  IN  kept[Len(times)]

Tick ==
  /\ now < MaxTime /\ now' = now + 1
  /\ passed' = [t \in Tokens |-> InWindow(passed[t], now')]
  /\ UNCHANGED <<standing, buckets, lastClean, conn, sent, executed>>

TokenEnds(t) ==
  /\ standing[t] = "valid"
  /\ \E s \in {"revoked", "expired"} : standing' = [standing EXCEPT ![t] = s]
  /\ UNCHANGED <<now, conn, sent, executed>> /\ UNCHANGED limits

-----------------------------------------------------------------------------
(* The bucket of a token, old requests being forgotten from time to time. *)
CleanAll(t) == IF now - lastClean[t] > CleanEvery THEN <<>> ELSE buckets[t]

Clean(t) ==
  IF now - lastClean[t] > CleanEvery THEN InWindow(buckets[t], now) ELSE buckets[t]

(* Only requests of the last minute count, and only those let through. *)
allow(t) ==
  /\ lastClean' = [lastClean EXCEPT ![t] =
       IF buckets[t] = <<>> \/ now - @ > CleanEvery THEN now ELSE @]
  /\ IF Len(InWindow(Clean(t), now)) >= RPM
     THEN buckets' = [buckets EXCEPT ![t] = Clean(t)] /\ UNCHANGED passed
     ELSE /\ buckets' = [buckets EXCEPT ![t] = Append(Clean(t), now)]
          /\ passed' = [passed EXCEPT ![t] = Append(@, now)]

(* A request that is limited is answered 429. *)
Request(c, t, kind) ==
  /\ conn[c].step = "closed" /\ allow(t)
  /\ IF passed'[t] = passed[t] THEN UNCHANGED conn
     ELSE Turn(c, [step |-> "auth", kind |-> kind, token |-> t])
  /\ UNCHANGED <<now, standing, sent, executed>>

(* AuthMiddleware, then RequireScope: the only look at the token. *)
AuthMiddleware(c) ==
  /\ conn[c].step = "auth"
  /\ Turn(c, IF standing[conn[c].token] # "valid" \/ conn[c].token \in ReadOnly THEN Closed
           ELSE IF conn[c].kind = "rest" THEN [step |-> "rest"]
           ELSE [step |-> "open", cache |-> {}, came |-> {}, lost |-> FALSE])
  /\ UNCHANGED <<now, standing, sent, executed>> /\ UNCHANGED limits

(* A REST command calls the engine once, or revokes a token. *)
Handle(c) ==
  /\ conn[c].step = "rest" /\ Turn(c, Closed)
  /\ \/ UNCHANGED standing
     \/ \E t \in Tokens : standing[t] = "valid" /\ standing' = [standing EXCEPT ![t] = "revoked"]
  /\ UNCHANGED <<now, sent, executed>> /\ UNCHANGED limits

-----------------------------------------------------------------------------
(* The loop of a control socket: a key it remembers is answered from memory. *)
ReadRequest(c, k) ==
  /\ conn[c].step = "open" /\ ~conn[c].lost /\ sent[k] < MaxEffects
  /\ Turn(c, [step |-> IF k \in conn[c].cache THEN "open" ELSE "dispatch", key |-> k,
            cache |-> conn[c].cache, came |-> conn[c].came \cup {k}, lost |-> FALSE])
  /\ sent' = IF k \in conn[c].came THEN sent ELSE [sent EXCEPT ![k] = @ + 1]
  /\ UNCHANGED <<now, standing, executed>> /\ UNCHANGED limits

(* The engine accepts or refuses; it is not told when the connection is lost. *)
dispatchControlRequest(c) ==
  /\ conn[c].step = "dispatch" /\ executed[conn[c].key] < MaxEffects
  /\ Turn(c, [conn[c] EXCEPT !.step = "set"])
  /\ executed' = [executed EXCEPT ![conn[c].key] = @ + 1]
  /\ UNCHANGED <<now, standing, sent>> /\ UNCHANGED limits

(* Mutant: an answer is never remembered. *)
SetIfAnswered(c) ==
  /\ conn[c].step = "set"
  /\ Turn(c, IF conn[c].lost THEN Closed ELSE [conn[c] EXCEPT !.step = "open"])
  /\ UNCHANGED <<now, standing, sent, executed>> /\ UNCHANGED limits

SetAndAnswer(c) ==
  /\ conn[c].step = "set"
  /\ Turn(c, IF conn[c].lost THEN Closed
           ELSE [conn[c] EXCEPT !.step = "open", !.cache = @ \cup {conn[c].key}])
  /\ UNCHANGED <<now, standing, sent, executed>> /\ UNCHANGED limits

Break(c) ==
  /\ conn[c].step \in {"open", "dispatch", "set"} /\ ~conn[c].lost
  /\ Turn(c, IF conn[c].step = "open" THEN Closed ELSE [conn[c] EXCEPT !.lost = TRUE])
  /\ UNCHANGED <<now, standing, sent, executed>> /\ UNCHANGED limits

ControlNext ==
  \/ Tick \/ \E t \in Tokens : TokenEnds(t)
  \/ \E c \in Conns :
       \/ \E t \in Tokens, kind \in {"rest", "socket"} : Request(c, t, kind)
       \/ AuthMiddleware(c) \/ Handle(c)
       \/ \E k \in ApiKeys : ReadRequest(c, k)
       \/ dispatchControlRequest(c) \/ SetAndAnswer(c) \/ Break(c)

ControlSpec == ControlInit /\ [][ControlNext]_controlVars

-----------------------------------------------------------------------------
(* No minute holds more than RPM requests of a token, whenever the bucket  *)
(* was cleaned last (ratelimit.go:allow).                                  *)
WindowBound == \A t \in Tokens : Len(passed[t]) <= RPM

(* A key reaches the engine once for each socket it came in by, however    *)
(* often it is sent again, and answers that are lost are not run again by  *)
(* the socket that lost them (websocket.go:HandleControlWebSocket).        *)
OncePerSocket == \A k \in ApiKeys : executed[k] <= sent[k]
=============================================================================
