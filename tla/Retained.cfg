SPECIFICATION Spec
CONSTANTS
  core = core
  b1 = b1
  b2 = b2
  v1 = v1
  v2 = v2
  unset = unset
  Ranks = {0, 1}
  Core = core
  Blocks = {b1, b2}
  Params = {"od", "power"}
  Dimensions = {"od"}
  Keepable = {"power"}
  Values = {v1, v2}
  Measured <- MCMeasured
  Retainable = {core, b1}
  Unset = unset
  MaxDepth = 2
  MaxChanges = 2
  ChangesOutside = FALSE
  SyncsKept = FALSE
INVARIANTS
  AreaIsCurrent
  RanksAgree
PROPERTIES
  RestoresValues
  NoUpdateIsLost
SYMMETRY AnyValue
