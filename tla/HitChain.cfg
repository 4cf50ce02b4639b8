SPECIFICATION FairSpec
CONSTANTS
  NLayers = 2
  Chain <- FCalChain
  NInit = 1
  FixedKinds = {FALSE, TRUE}
  RawCounts <- Counts
  HitEs <- SignedHits
  Tiny <- TinyHits
  MaxWeight = 2
  Weights <- SomeWeights
  RetryCounts <- Retries
  Cutoff = 3
CHECK_DEADLOCK FALSE
INVARIANTS SumMatchesDeposit LayerFilled CountsAndTotals
PROPERTIES Returns ImplementsLayerFill
