SPECIFICATION Spec
CONSTANTS
  Tasks = {1}
  Lanes = {"main", "inbox"}
  ClassOf <- RaceClasses
  MaxAttempts <- RaceAttempts
  Fanout = {}
  Recycle = {}
  Retriable = {}
  MaxRestarts = 1
  Wakeups = {"channel"}
INVARIANT ResetOnlyStopped
