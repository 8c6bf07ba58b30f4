SPECIFICATION FairSpec
CONSTANTS
  r1 = r1
  Request = {r1}
  None = None
  MaxInstance = 3
  MaxRows = 2
  MaxCommands = 1
  MaxFaults = 2
  MaxResets = 1
INVARIANTS
  ConfirmedHoldIsRecorded
  CommandsExcludeReset
  LockIsHeldForWork
  EndedCommandIsGone
PROPERTIES
  OnlyConfirmedIsDeleted
  StopCutsNoRequest
  AdmissionReopens
