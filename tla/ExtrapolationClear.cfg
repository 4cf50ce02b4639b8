SPECIFICATION ExtrapolationSpec
CONSTANTS
  None = None
  Readers <- TheReaders
  DataFrames <- Frames
  Positions <- SomePositions
  AltCell <- AltCellOf
  MaxListed = 6
  Cuts <- SomeCuts
  Pi = 4
  Tolerance = 1
  StepSize = 3
  Round = 1
  Paths <- SomePaths
  Boundaries <- ThreeSurfaces
  EtaUnit = 100
  EtaLimit = 2000
  FirstNonEmb = 1
  Eme1 = 1
  Garbage <- SomeGarbage
  MainThread = "main"
  ClearCap = 8
CONSTRAINT QuietWhileMixed
CHECK_DEADLOCK FALSE
PROPERTIES ClearAddsNothing
