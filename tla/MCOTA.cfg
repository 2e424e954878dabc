SPECIFICATION FairSpec
CONSTANTS
  Versions = {1, 2, 3}
  Good = {1, 2}
  Installed = 1
  Size = 3
  Senders = {"push", "conforming", "stranger"}
  SameFS = TRUE
  Faults = {"power", "disk", "split"}
  MaxPushes = 3
  MaxLosses = 1
  None = None
  Partial = Partial
  Absent = Absent
INVARIANTS OnlyVerifiedApplied IdleTreeWorks AppliedIsInstalled
PROPERTIES RollbackRestores ListensAgain PushedIsApplied
CHECK_DEADLOCK FALSE
