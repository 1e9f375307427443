SPECIFICATION Spec
CONSTANTS
  Streams = {s1, s2}
  RecordLimit = 2
  MaxItems = 4
INVARIANTS
  WrittenIfAllRead
  ReportIsTrue
PROPERTY WrittenUnlessLeft
CHECK_DEADLOCK FALSE
