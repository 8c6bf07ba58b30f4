SPECIFICATION Spec
CONSTANTS
  p1 = p1
  p2 = p2
  Process = {p1, p2}
  Address = {"a"}
  s1 = s1
  s2 = s2
  Salt = {s1, s2}
  None = None
  PerMinute = 1
  PerDay = 2
  DailyLimit = 5
  Amount = {3}
  Fraction = 2
  Minute = 1
  Day = 3
  Keep = 6
  MaxSetback = 3
  MaxTime = 6
  MaxRows = 3
SYMMETRY MCSymmetry
INVARIANTS
  WindowsHold
  DailyCostHolds
  RetryAfterSuffices
