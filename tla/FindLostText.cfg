SPECIFICATION Spec
CONSTANTS
  ChunkKinds <- AllKinds
  FlushAfter = 3
  Terminated = TRUE
  MaxChunks = 5
INVARIANT NothingLost
CHECK_DEADLOCK FALSE
