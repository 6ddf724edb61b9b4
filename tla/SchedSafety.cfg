SPECIFICATION Spec
CONSTANTS
  a = a
  b = b
  c = c
  f1 = f1
  f2 = f2
  k1 = k1
  k2 = k2
  k3 = k3
  k4 = k4
  g1 = g1
  g2 = g2
  NoTask = NoTask
  Tasks <- ThreeTasks
  Files <- TwoFiles
  Keys <- TwoKeys
  W <- TwoGoroutines
  MaxMeeseeks = 2
  DependsOn <- CAfterA
  Declared <- SharedFile
  LateRows <- LateC
  TargetKey <- OneKeyPerFile
  ExpansionKey <- OneKeyPerFile
  Expansions <- MoreF1
  Faults = TRUE
  MaxAttempts = 3
  MaxCrashes = 1
SYMMETRY SymmetricGoroutines
INVARIANTS
  TypeOK
  NoOrphanLock
  DependenciesDone
  WriteSetsHeld
PROPERTIES
  LockTableSpec
  RecoveryCleans
CHECK_DEADLOCK FALSE
