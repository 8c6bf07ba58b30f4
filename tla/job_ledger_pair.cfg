SPECIFICATION Spec
CONSTANTS
  j1 = j1
  j2 = j2
  c1 = c1
  c2 = c2
  Job = {j1, j2}
  Worker = worker
  Caller = {c1}
  Backfill = {j1}
  MaxUsage = 1
  MaxAttempts = 2
  MaxFaults = 2
  MaxCrashes = 1
  HistoryDeletes = TRUE
INVARIANTS
  NoForgottenRow
PROPERTIES
  LifecycleSpec
