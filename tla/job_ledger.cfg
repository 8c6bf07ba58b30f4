SPECIFICATION FairSpec
CONSTANTS
  j1 = j1
  j2 = j2
  c1 = c1
  c2 = c2
  Job = {j1}
  Worker = worker
  Caller = {c1, c2}
  Backfill = {j1}
  MaxUsage = 2
  MaxAttempts = 2
  MaxFaults = 2
  MaxCrashes = 1
  HistoryDeletes = FALSE
INVARIANTS
  AckedCancelDurable
PROPERTIES
  UsageKeptUnlessCancelled
  PendingReconciled
  RowsSettle
