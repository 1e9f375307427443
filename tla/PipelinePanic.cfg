SPECIFICATION Spec
CONSTANTS
  Analyses = {a1}
  N = 1
  MaxRuns = 1
  Workers = {w1}
  QueueSize = 1
  Retry = FALSE
  Flaky = TRUE
  MaxFaults = 0
  MaxCrashes = 0
INVARIANT NeverPanics
