SPECIFICATION FluctFairSpec
CONSTANTS
  Chain <- WeightedChain
  Sigmas <- AllSigmas
  MaxSigma = 1000
  MinSigma <- SmallestSigma
  HitEs <- SignedHits
  Weights <- DrawnWeights
  Reach <- NearOrFar
  RetryCounts <- Retries
  SquareBound = 70
CHECK_DEADLOCK FALSE
INVARIANTS FluctuationReached
PROPERTIES ReturnsIfHitsLand
