SPECIFICATION Spec
CONSTANTS
  Versions = {1, 2, 3}
  Good = {1, 2}
  Installed = 1
  Size = 2
  Senders = {"conforming"}
  SameFS = FALSE
  Faults = {}
  MaxPushes = 1
  MaxLosses = 0
  None = None
  Partial = Partial
  Absent = Absent
INVARIANT AppliedIsInstalled
CHECK_DEADLOCK FALSE
