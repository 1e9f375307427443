SPECIFICATION Spec
CONSTANTS
  Analyses = {a1, a2}
  N = 2
  MaxRuns = 2
  Workers = {w1}
  QueueSize = 1
  Retry = FALSE
  Flaky = TRUE
  MaxFaults = 0
  MaxCrashes = 0
INVARIANTS
  FindingsMatchSession
  AnnouncedIsStored
  JobsArePersisted
PROPERTY LifecycleSpec
