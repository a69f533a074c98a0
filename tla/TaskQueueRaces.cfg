SPECIFICATION Spec
CONSTANTS
  Tasks = {1, 2, 3}
  Lanes = {"main", "inbox"}
  ClassOf <- RaceClasses
  MaxAttempts <- RaceAttempts
  Fanout = {3}
  Recycle = {}
  Retriable = {1}
  MaxRestarts = 1
  Wakeups = {"channel", "notify"}
INVARIANT TypeOK
INVARIANT PerformanceBudget
INVARIANT TrimmedNeverRuns
INVARIANT ExclusiveLane
INVARIANT NoLostWakeup
PROPERTY FailedIsFinal
