SPECIFICATION Spec
CONSTANTS
  Cells <- MCCells
  NBlocks = 1
  Settings <- MCSettings
  QValues <- MCQValues
  MaxTime = 2
  MaxMoves <- MCMaxMoves
  MaxRestarts = 1
INVARIANTS
  NamesFindAssemblies
  SerialsAreUnique
  HistoriesAreRight
PROPERTIES
  LoadsWhatWasWritten
