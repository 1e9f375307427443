SPECIFICATION Spec
CONSTANTS
  MaxBytes = 3
  MaxRepeats = 1
  ServerPort = {587, 2525}
INVARIANTS
  BytesOnceInOrder
  GapMeansMissing
  ChunksAreWire
  SpokenIsDetected
CHECK_DEADLOCK FALSE
