SPECIFICATION Spec
CONSTANTS
  a = a
  b = b
  NoTask = NoTask
  Tasks <- TwoTasks
  FirstTier <- Tiers
  MaxRetriesPerTier = 2
  MaxEscalations = 1
  MergeFaults = TRUE
  ScopeWaits <- OneTask
  Requests <- OnlyReject
  MaxRequests = 1
  MaxAttempts <- TwoAndOne
  MaxCrashes = 0
PROPERTIES
  RejectedNotCommitted
CHECK_DEADLOCK FALSE
