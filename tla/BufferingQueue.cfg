SPECIFICATION FairSpec
CONSTANTS
  Sizes = {1}
  NodeSize = 1
  MaxSize = 5
  MaxChunks = 3
INVARIANTS SizeIsExact
PROPERTIES OnlyChunkInHandOutlivesFlush FifoSpec  ThreadEndsAfterClose
CHECK_DEADLOCK FALSE
