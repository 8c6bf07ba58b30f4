SPECIFICATION Spec
CONSTANTS
  j1 = j1
  j2 = j2
  c1 = c1
  c2 = c2
  Job = {j1}
  Worker = worker
  Caller = {c1}
  Backfill = {j1}
  MaxUsage = 2
  MaxAttempts = 2
  MaxFaults = 0
  MaxCrashes = 0
  HistoryDeletes = FALSE
PROPERTIES
  ChargesPersisted
