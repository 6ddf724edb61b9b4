------------------------------ MODULE LockTable ------------------------------
(***************************************************************************)
(* What the table task_locks promises to its users, whatever they do: a    *)
(* set of free keys is taken at once, a key never passes from one owner to *)
(* another without having been free, and an owner gives back all it has.   *)
(***************************************************************************)
CONSTANTS Owners, Keys, Free

VARIABLE holder

Init == holder = [k \in Keys |-> Free]

Acquire(o, K) ==
  /\ \A k \in K : holder[k] \in {Free, o}
  /\ holder' = [k \in Keys |-> IF k \in K THEN o ELSE holder[k]]

ReleaseAllOf(o) ==
  holder' = [k \in Keys |-> IF holder[k] = o THEN Free ELSE holder[k]]

Wipe == holder' = [k \in Keys |-> Free]

Next ==
  \/ \E o \in Owners, K \in SUBSET Keys : Acquire(o, K)
  \/ \E o \in Owners : ReleaseAllOf(o)
  \/ Wipe

Spec == Init /\ [][Next]_holder
=============================================================================
