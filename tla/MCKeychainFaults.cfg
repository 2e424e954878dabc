SPECIFICATION Spec
CONSTANTS
  Clients = {c1}
  Names = {n1, n2}
  Data = {d1, e0}
  Empty = e0
  None = None
  Blank = Blank
  Junk = Junk
  MaxItems = 3
  Stumps = {n2}
  ListRoom = 1
  Faults = {"crash", "save", "load", "key"}
INVARIANT UniqueOnDisk
