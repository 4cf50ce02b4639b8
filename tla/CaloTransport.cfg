SPECIFICATION LiveSpec
CONSTANTS
  Threads <- AllThreads
  Masters <- TwoMasters
  StepLimits = {0, 1}
  Reconfigure = FALSE
INVARIANTS OneWorldCleanedUp NothingLost AnswersHold
PROPERTIES TransportEnds
CHECK_DEADLOCK FALSE
