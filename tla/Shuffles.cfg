SPECIFICATION Spec
CONSTANTS
  Locs = {"A", "B", "C"}
  MaxAssems = 8
  InitialCore <- MCCore
  InitialPool = {3}
  BlueprintMade = 4
  Types = {"feed"}
  NCycles = 3
  Sequences <- MCSequences
  TrackAssems = TRUE
  MaxCalls = 3
INVARIANTS
  PlacesAgree
  PlatesStay
  FoundByHistory
  RepeatsExactly
  SequenceApplied
  FailsForCause
