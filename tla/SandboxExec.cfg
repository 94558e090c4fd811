SPECIFICATION FairSpec
CONSTANTS
  Streams <- TwoStreams
  Outputs <- MCOutputs
  Cap <- SmallCap
  Chunk = 2
  PipeSize = 2
INVARIANTS TypeOK   
PROPERTIES PipesAreDrained ReturnsAfterExit TimeoutEndsSilent
CHECK_DEADLOCK FALSE
