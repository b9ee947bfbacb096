SPECIFICATION Spec
CONSTANTS
  Loading <- MCLoading
  Reference = "fuel"
  Changes <- MCChanges
  Cases <- MCCases
  MinimumSizes = {NoSize, 6, 20}
  NoSize = NoSize
  Rates = {1}
  MaxMoves = 1
INVARIANTS
  BlocksFill
  AtomsAreKept
  TablesFollow
PROPERTIES
  ExpansionKeepsMass
  ResultsComeBack
CHECK_DEADLOCK FALSE
