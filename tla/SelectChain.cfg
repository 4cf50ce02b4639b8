SPECIFICATION Spec
CONSTANTS
  Values <- FourValues
  MaxSize = 4
CHECK_DEADLOCK FALSE
INVARIANTS BinsPartitionChain EdgesMatchBins RunsAsChosen
