SPECIFICATION Spec
CONSTANTS
  fa = fa
  fb = fb
  fc = fc
  main = main
  axiom = axiom
  t1 = t1
  t2 = t2
  Absent = Absent
  NoItem = NoItem
  Partial = Partial
  Paths <- ThreePaths
  Branches <- TwoBranches
  base = main
  work = axiom
  Items <- TwoItems
  Initial <- TwoOfThree
  targets <- TargetFiles
  Covers <- SomeCovers
  Manifests <- SomeManifests
  Faults = {"head", "diff", "remove", "copy", "add", "commit"}
  MaxTries <- OneAndTwo
  MaxFaults = 1
  MaxCrashes = 1
  MaxCancels = 1
CHECK_DEADLOCK FALSE
INVARIANTS
  OnlyWorkBranch
