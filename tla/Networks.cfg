SPECIFICATION Spec
CONSTANTS
  Slots <- GanSlots
  Disk <- TheDisk
  Nodes <- TheNodes
  CopyKinds = {"simple", "lwtgraph"}
  StandAlone = FALSE
  Xml <- TheXml
  Slices <- TheSlices
  Layers = {1, 3}
  Particles <- SomeParticles
  Answers <- SomeAnswers
  OnlyScale = FALSE
  Before = {0}
  Arc <- TheArc
  Draws <- DrawnRadii
  MaxShowers = 1
  MaxCalls = 3
INVARIANTS HandlersAreUsable RightNetworkAsked HitsAreOfTheirVoxels
CHECK_DEADLOCK FALSE
