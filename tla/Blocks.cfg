SPECIFICATION Spec
CONSTANTS
  Shapes <- MCShapes
  Links <- MCLinks
  Contents <- MCContents
  Solids <- MCSolids
  Coolant = "coolant"
  Circles <- MCCircles
  Gaps = {"bond"}
  Duct = "duct"
  Driver = "PU"
  Growth <- MCGrowth
  Thinning <- MCThinning
  SetDimensions <- MCSetDimensions
  SetDensities <- MCSetDensities
  Heights = {2, 4}
  Pitches = {36}
  Densities <- MCDensities
  Masses <- MCMasses
  SymmetryFactors = {3}
  AdjustList <- MCAdjustList
  Mergers <- MCMergers
  NoVolume = NoVolume
  NoLink = NoLink
  MaxSteps = 3
INVARIANTS
  VolumesAreCurrent
  MolesAreRight
CHECK_DEADLOCK FALSE
