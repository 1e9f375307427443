SPECIFICATION Spec
CONSTANTS
  Workers = {w1}
  QueueCap = 1
  MaxStarts = 2
  MaxChunks = 2
INVARIANT OneCapture
CHECK_DEADLOCK FALSE
