------------------------------ MODULE MCMerge ------------------------------
(* A small instance of MergeApply for TLC. *)
EXTENDS MergeApply, TLC

CONSTANTS fa, fb, fc, main, axiom, t1, t2

ThreePaths == {fa, fb, fc}
TwoBranches == {main, axiom}
TwoItems == {t1, t2}
TwoOfThree == {fa, fb}
TargetFiles == t1 :> {fa} @@ t2 :> {}
OneAndTwo == t1 :> 1 @@ t2 :> 2

(* The name of fc begins with that of fa. *)
SomeCovers == {<<fa, fa>>, <<fb, fb>>, <<fc, fc>>, <<fc, fa>>}

M(added, modified, deleted, renamed) ==
  [added |-> added, modified |-> modified, deleted |-> deleted, renamed |-> renamed]

(* t1 changes fa, and fc by the prefix; or moves fa to fc; or declares fa   *)
(* twice.  t2 changes fb and deletes fc, or rewrites fa, or moves fb onto   *)
(* fc: it has no target files, so no locks and no scope.                    *)
SomeManifests ==
  t1 :> {M({fc}, {fa}, {}, {}), M({}, {}, {}, {<<fa, fc>>}), M({fa}, {fa}, {}, {}),
         M({}, {fa}, {fa}, {})}
  @@ t2 :> {M({}, {fa}, {}, {}), M({}, {fb}, {fc}, {}), M({}, {}, {}, {<<fb, fc>>})}
=============================================================================
