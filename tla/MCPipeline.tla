----------------------------- MODULE MCPipeline -----------------------------
(* Small instances of Pipeline for TLC. *)
EXTENDS Pipeline

CONSTANTS a, b

None == {}
OneTask == {a}
TwoTasks == {a, b}

(* a can be escalated, b cannot. *)
Tiers == [t \in Tasks |-> IF t = a THEN "standard" ELSE "premium"]

TwoAndOne == [t \in Tasks |-> IF t = a THEN 2 ELSE 1]

AnyRequest == {"approve", "reject"}
OnlyReject == {"reject"}
=============================================================================
