SPECIFICATION FairSpec
CONSTANTS
  Streams <- TwoStreams
  Outputs <- MCOutputs
  Cap <- SmallCap
  Chunk = 2
  PipeSize = 2
PROPERTY TimeoutKills
CHECK_DEADLOCK FALSE
