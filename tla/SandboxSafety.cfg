SPECIFICATION Spec
CONSTANTS
  t1 = t1
  t2 = t2
  NoItem = NoItem
  Tasks <- TwoTasks
  Attempts <- TwoAndOne
  MaxFaults = 1
  MaxCrashes = 1
CHECK_DEADLOCK FALSE
INVARIANTS
  ContainersOwned
  MergedIsOwn
