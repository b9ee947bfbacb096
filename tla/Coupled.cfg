SPECIFICATION Spec
CONSTANTS
  Plans <- MCTwoPlans
  NCycles <- MCNCycles
  StepLengths <- MCStepLengths
  Outage <- MCOutage
  Interfaces <- MCInterfaces
  Position <- MCPosition
  Physics = {"globalFlux", "thermal"}
  Halters = {"globalFlux"}
  Disabled = {"thermal"}
  BolForced = {"thermal"}
  Reversed = {"main"}
  Deferred = {"globalFlux"}
  DeferredCycle = 1
  TightCoupling = TRUE
  SkipCycles = {0}
  MaxIters = 2
  Couplers = {"globalFlux", "thermal"}
  SyncAfterWrite = TRUE
  CopyMayFail = TRUE
  Restarts <- MCReplannedRestarts
  MaxRuns = 2
  MaxFaults = 2
INVARIANTS
  ShuffledOncePerCycle
  SolvedAtNode
PROPERTIES
  LeftNodesAreSaved
  RunsEnd
