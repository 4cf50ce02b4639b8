SPECIFICATION Spec
CONSTANTS
  Layers <- TwoLayers
  CellLayer <- ThreeCells
  KeV = 1
  Log <- LogOf
  Responses <- SomeResponses
  Tables <- SomeTables
  Draws <- SomeDraws
  Ratios <- SomeRatios
  Norm = 2
  Entry <- FrontOf
  Exit <- BackOf
  Boundary = 9
  Finite <- OneFinite
  Halves = 2
  Particles <- SomeParticles
  MaxRetry = 2
  MaxHits = 2
  MaxShowers = 3
CHECK_DEADLOCK FALSE
INVARIANTS ShowerOfItsEnergy WeightsOfThisShower CellsMatchLayers
