SPECIFICATION Spec
CONSTANTS
  Designs <- MCDesigns
  XsType <- MCXsType
  Candidates <- MCCandidates
  PregeneratedTypes <- MCPregenerated
  Loaded <- MCLoaded
  BuBounds <- MCWideBounds
  TempGroups = 2
  Tolerance = 1
  GenXS = TRUE
  SkipCycles = 0
  SkipTight = {}
  Frequencies <- MCFrequencies
  NCycles = 2
  LastNode = 1
  MaxIters = 2
  BurnStep = 2
INVARIANT LibraryIsWithinTolerance
