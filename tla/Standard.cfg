SPECIFICATION Spec
CONSTANTS
  Plans <- MCOnePlan
  NCycles <- MCNCycles
  StepLengths <- MCStepLengths
  Outage <- MCOutage
  Interfaces <- MCInterfaces
  Position <- MCPosition
  Physics = {"globalFlux", "thermal"}
  Halters = {}
  Disabled = {}
  BolForced = {}
  Reversed = {"main"}
  Deferred = {}
  DeferredCycle = 0
  TightCoupling = FALSE
  SkipCycles = {}
  MaxIters = 1
  Couplers = {}
  SyncAfterWrite = TRUE
  CopyMayFail = FALSE
  Restarts <- MCRestarts
  MaxRuns = 3
  MaxFaults = 2
INVARIANTS
  SuccessMeansComplete
  CopyKeepsUp
PROPERTIES
  OnlyFaultsFailARun
  SavesATimeline
