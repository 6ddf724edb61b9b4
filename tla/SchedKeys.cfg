SPECIFICATION Spec
CONSTANTS
  a = a
  b = b
  c = c
  f1 = f1
  f2 = f2
  k1 = k1
  k2 = k2
  k3 = k3
  k4 = k4
  g1 = g1
  g2 = g2
  NoTask = NoTask
  Tasks <- TwoTasks
  Files <- TwoFiles
  Keys <- FourKeys
  W <- TwoGoroutines
  MaxMeeseeks = 2
  DependsOn <- Independent
  Declared <- OneFileEach
  LateRows <- NoSet
  TargetKey <- PrefixedKey
  ExpansionKey <- PlainKey
  Expansions <- MoreF1
  Faults = FALSE
  MaxAttempts = 4
  MaxCrashes = 0
INVARIANTS
  WriteSetsDisjoint
CHECK_DEADLOCK FALSE
