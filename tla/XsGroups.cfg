SPECIFICATION Spec
CONSTANTS
  Designs <- MCDesigns
  XsType <- MCXsType
  Candidates <- MCCandidates
  PregeneratedTypes <- MCPregenerated
  Loaded <- MCLoaded
  BuBounds <- MCBounds
  TempGroups = 2
  Tolerance = 0
  GenXS = TRUE
  SkipCycles = 0
  SkipTight = {}
  Frequencies <- MCFrequencies
  NCycles = 2
  LastNode = 1
  MaxIters = 2
  BurnStep = 2
INVARIANTS
  EveryBlockIsCovered
  LibraryIsFresh
