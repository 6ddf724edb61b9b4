SPECIFICATION Spec
CONSTANTS
  a = a
  b = b
  NoTask = NoTask
  Tasks <- OneTask
  FirstTier <- Tiers
  MaxRetriesPerTier = 1
  MaxEscalations = 1
  MergeFaults = TRUE
  ScopeWaits <- OneTask
  Requests <- AnyRequest
  MaxRequests = 1
  MaxAttempts <- TwoAndOne
  MaxCrashes = 2
INVARIANTS
  TypeOK
  OneInPlay
  CommittedOnce
  RetriesBounded
  DoneIsCommitted
  ClosingAccepted
PROPERTIES
  CommitsAreCurrent
CHECK_DEADLOCK FALSE
