SPECIFICATION ShapesSpec
CONSTANTS
  Histograms1D <- TheHistograms1D
  Histograms2D <- TheHistograms2D
  Bits = {8, 16}
  Whole = 100
  Cumulative <- TheCumulative
  Cuts = {3, 8, 30}
  Penalties = {1, 3}
  MaxKnots = 4
  FirstStep = 48
  LastStep = 20
  MaxTries = 3
  MaxNoGain = 1
  MaxMerges = 3
  Pi = 20
  CellSize = 8
  Rolls = 8
  One = 4
  Charge <- TheCharge
  Loads <- TheLoads
  MaxLoads = 3
  Scales = {0, 1, 2}
  Etas = {0, 1, 2, 3, 4, 5, 6, 7}
  Phis <- ThePhis
  MeanWeights <- TheWeights
  WeightRange <- TheRange
  Functions <- TheFunctions
  FunctionEdges <- TheEdges
  Accordion <- TheAccordion
INVARIANTS DrawsFollowTheHistogram FitsFollowTheInput HitsKeepTheirShape ModulationOfItsRange
CHECK_DEADLOCK FALSE
