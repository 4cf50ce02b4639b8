SPECIFICATION LiveSpec
CONSTANTS
  Leaves <- CaloLeaves
  Chains <- CaloChains
  Root = "sim"
  Kind <- CaloKind
  Kids <- CaloKids
  FromStart <- CaloRestarts
  OnlyOne <- CaloOnlyOne
  Matching <- CaloMatching
  BinStart <- CaloBinStart
  BinsDrawn <- CaloBins
  Answers <- CaloAnswers
CHECK_DEADLOCK FALSE
INVARIANTS InOrder NothingOnceTooOften
PROPERTIES SuccessIsComplete FurtherPasses Terminates
