SPECIFICATION Spec
CONSTANTS
  Primary = primary
  Workers = {w1, w2}
  Stack <- MCStack
  Distributable <- MCDistributable
  MaxHooks = 2
  MaxCalls = 2
  MaxFaults = 1
INVARIANTS
  NoStateIsCarriedOver
  StateIsWhole
  RanksAgree
PROPERTIES
  AllRanksEnd
