SPECIFICATION MLSpec
CONSTANTS
  NLayers = 2
  Libraries <- Mixed
  FileLibrary <- File
  Energies = {1, 3}
  Requests <- AskedFor
  OnlyScale = TRUE
  Epsilon = 1
  HitEnergy = 2
  MaxHits = 3
  Scale = 6
  MaxShowers = 2
  Prepared = {TRUE, FALSE}
  Configures = TRUE
  Shapes <- ShapesMC
  Answers <- AnswersMC
  NaN <- NotANumber
  MaxRetries = 5
  MetaFiles <- MetaMC
  SubBinFiles <- SubBinsMC
  Unit = 16
  Grid = 4
  LogOf <- LogMC
  LinearLayer = 2
INVARIANTS OneEventAlive EventIsSpent AnswerIsPlaced
PROPERTIES PicksFromLibrary
CHECK_DEADLOCK FALSE
