SPECIFICATION FairSpec
CONSTANTS
  Workers = {w1}
  QueueCap = 1
  MaxStarts = 1
  MaxChunks = 2
PROPERTY StopEndsCapture
CHECK_DEADLOCK FALSE
