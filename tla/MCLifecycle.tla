---------------------------- MODULE MCLifecycle ----------------------------
(***************************************************************************)
(* Small instances, for TLC, of the life of a run and of the convergence   *)
(* it ends with.  A behaviour explores one of them, the one named by       *)
(* focus, and leaves the variables of the other alone.                     *)
(***************************************************************************)
EXTENDS RunLifecycle, Convergence, TLC

CONSTANTS r1, r2, s1, s2, c1, c2, f1, m1, m2, main, axiom

TwoRuns == {r1, r2}
TwoTexts == {s1, s2}
TwoClients == {c1, c2}
TwoBranches == {main, axiom}
OneImpl == {f1}
TwoFamilies == {m1, m2}
AllPaths == {"srs", "sum"} \cup Runs
Symmetric == Permutations(TwoTexts) \cup Permutations(TwoClients) \cup Permutations(TwoRuns)

VARIABLE focus

LifecycleInit == focus \in {"run", "convergence"} /\ Init /\ ConvInit

LifecycleNext ==
  /\ UNCHANGED focus
  /\ \/ focus = "run" /\ Next /\ UNCHANGED convVars
     \/ focus = "convergence" /\ ConvNext /\ UNCHANGED vars

LifecycleSpec == LifecycleInit /\ [][LifecycleNext]_<<focus, vars, convVars>>
=============================================================================
