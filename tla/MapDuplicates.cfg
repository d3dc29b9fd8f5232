SPECIFICATION Spec
CONSTANTS
  Parts = {"map"}
  Programs = {{"emplace", "remove"}}
  Elements = {1, 2}
  Junk = junk
  QueuePreallocs = {1, 4}
  QueueMaxCap = 8
  Messages = {0, 1, 4, 13}
  Lengths <- RingLength
  HeaderSize = 3
  RingCap = 16
  MaxThreads = 3
  MaxSize = 6
  MaxBatch = 3
  VecKinds = {"Vec", "Array"}
  Values = {1, 2}
  VecPreallocs = {0, 1, 3}
  VecMaxCap = 6
  Objects = {1, 2, 3}
  ObjectSizes = {1, 3}
  MaxDepth = 2
  PageSize = 3
  Reserved = 2
  Commits = {0}
  BufferCap = 6
  Blocks = {1, 2}
  BlockObjectSizes = {1, 4}
  BlockDepth = 1
  DefaultCapacity = 24
  CAP = 4
  Shapes <- ChunkShapes
  MaxBlocks = 2
  Controls = {1, 2}
  MaxHandles = 3
PROPERTY RemovedIsGone
CHECK_DEADLOCK FALSE
