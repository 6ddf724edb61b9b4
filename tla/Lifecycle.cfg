SPECIFICATION LifecycleSpec
CONSTANTS
  r1 = r1
  r2 = r2
  s1 = s1
  s2 = s2
  c1 = c1
  c2 = c2
  f1 = f1
  m1 = m1
  m2 = m2
  main = main
  axiom = axiom
  Absent = Absent
  NoRun = NoRun
  Runs <- TwoRuns
  Clients <- TwoClients
  Texts <- TwoTexts
  Branches <- TwoBranches
  Paths <- AllPaths
  base0 = main
  work = axiom
  configured = Absent
  MaxCommits = 1
  Impls <- OneImpl
  Families <- TwoFamilies
  None = None
  MaxAttempts = 3
  MaxRequests = 2
SYMMETRY Symmetric
INVARIANTS
  TypeOK
  OneRun
  RunOnItsBranch
  SRSPinned
  StartupAccepted
PROPERTIES
  CompletedIsTested
CHECK_DEADLOCK FALSE
