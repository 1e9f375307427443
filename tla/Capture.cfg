SPECIFICATION FairSpec
CONSTANTS
  Workers = {w1}
  QueueCap = 1
  MaxStarts = 2
  MaxChunks = 2
INVARIANTS
  TypeOK
  ActiveMeansCapturing
  NoSendOnClosedQueue
  ChunksAccounted
PROPERTIES
  QueuedIsAnalysed
  StoppedLoopReturns
CHECK_DEADLOCK FALSE
