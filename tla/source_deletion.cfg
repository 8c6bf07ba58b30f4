SPECIFICATION Spec
CONSTANTS
  Filing = {f1, f2}
  Version = {v1, v2}
  Absent = Absent
  None = None
  Lifetime = 1
  MaxApprovals = 2
  MaxTime = 1
  MaxPreviews = 2
  MaxAcquired = 1
  MaxEvents = 1
SYMMETRY MCSymmetry
PROPERTIES
  OnlyShownIsDeleted
