SPECIFICATION Spec
CONSTANTS
  Loading <- MCHighLoading
  Reference = "fuel"
  Changes <- MCHighChanges
  Cases <- MCHighCases
  MinimumSizes = {10}
  NoSize = NoSize
  Rates = {1}
  MaxMoves = 1
INVARIANTS
  EveryBlockIsMapped
CHECK_DEADLOCK FALSE
