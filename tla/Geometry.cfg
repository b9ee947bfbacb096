SPECIFICATION Spec
CONSTANTS
  Filled <- MCFilled
  Measured <- MCMeasured
  Unit = 36
  MaxShuffles = 2
  MaxCached = 1
  PlatesAtCentre = FALSE
  DischargeCentre = FALSE
  FirstSolvedFull = FALSE
INVARIANTS
  SharesAreRight
  AreaIsCurrent
  HistoriesFollow
PROPERTIES
  ConversionsAreUndone
  StationaryStays
