SPECIFICATION FairSpec
CONSTANTS
  Clients = {c1, c2}
  Names = {n1, n2}
  Data = {d1, e0}
  Empty = e0
  None = None
  Blank = Blank
  Junk = Junk
  MaxItems = 2
  Stumps = {n2}
  ListRoom = 0
  Faults = {"crash"}
INVARIANTS UniqueNames AcknowledgedIsDurable KeySurvivesRestart
PROPERTIES ImplementsStore LockReleased
