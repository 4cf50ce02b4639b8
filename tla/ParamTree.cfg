CONSTANTS
  Objects <- MCObjects
  Kind <- MCKind
  Leaf <- MCLeaf
  NameOf <- MCName
  ContentClasses <- MCContentClasses
  HitClasses <- MCHitClasses
  WholeEkin <- MCWholeEkin
  WholeEta <- MCWholeEta
  Splits <- MCSplits
  MaxSlots = 4
SPECIFICATION Spec
INVARIANTS DuplicatesReplaced SameSimulation ReadsWhatWasWritten MatchesWhatDaughtersMatch
CONSTRAINT EqualOnesInOrder
