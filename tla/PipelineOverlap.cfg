SPECIFICATION Spec
CONSTANTS
  Analyses = {a1}
  N = 1
  MaxRuns = 2
  Workers = {w1}
  QueueSize = 1
  Retry = TRUE
  Flaky = TRUE
  MaxFaults = 1
  MaxCrashes = 1
INVARIANTS
  TypeOK
  CompletedMeansSaved
  NoOrphanFindings
  FinishedWhenFinal
