----------------------------- MODULE MCScheduler -----------------------------
(* Small instances of Scheduler for TLC. *)
EXTENDS SchedulerInv, TLC

CONSTANTS a, b, c, f1, f2, k1, k2, k3, k4, g1, g2

TwoFiles == {f1, f2}
TwoKeys == {k1, k2}
TwoGoroutines == {g1, g2}
SymmetricGoroutines == Permutations(TwoGoroutines)

FourKeys == {k1, k2, k3, k4}

(* The rows of engine.CreateTask lock "file:" + path, those of a scope       *)
(* expansion the path itself.                                                *)
PrefixedKey == (f1 :> k1) @@ (f2 :> k2)
PlainKey == (f1 :> k3) @@ (f2 :> k4)
OneKeyPerFile == (f1 :> k1) @@ (f2 :> k2)

TwoTasks == {a, b}
ThreeTasks == {a, b, c}
NoSet == {}

Independent == [t \in Tasks |-> {}]
CAfterA == [t \in Tasks |-> IF t = c THEN {a} ELSE {}]

(* A file each, and b asks for the one a has: a conflict of expansions. *)
OneFileEach == [t \in Tasks |-> IF t = a THEN {f1} ELSE {f2}]
MoreF1 == {{f1}}
LateC == {c}

(* All declare f1, c a second file as well: a conflict of dispatches. *)
SharedFile == [t \in Tasks |-> IF t = c THEN {f1, f2} ELSE {f1}]
=============================================================================
