SPECIFICATION Spec
CONSTANTS
  a = a
  b = b
  c = c
  f1 = f1
  f2 = f2
  k1 = k1
  k2 = k2
  k3 = k3
  k4 = k4
  g1 = g1
  g2 = g2
  NoTask = NoTask
  Tasks <- TwoTasks
  Files <- TwoFiles
  Keys <- TwoKeys
  W <- TwoGoroutines
  MaxMeeseeks = 2
  DependsOn <- Independent
  Declared <- SharedFile
  LateRows <- NoSet
  TargetKey <- OneKeyPerFile
  ExpansionKey <- OneKeyPerFile
  Expansions <- NoSet
  Faults = FALSE
  MaxAttempts = 3
  MaxCrashes = 1
PROPERTIES
  RebuildGoesOn
CHECK_DEADLOCK FALSE
