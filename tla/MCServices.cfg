SPECIFICATION AllSpec
CONSTANTS
  Clients = {c1, c2}
  MaxNotifs = 3
  MaxId = 5
  Samples = 3
  Quoted = {3}
  Shell = Shell
  Torn = Torn
  None = None
  Perms = {"network", "gpio", "camera", "mic"}
  Defaults = {"network", "gpio"}
  MaxPerms = 3
  Users = {u1, u2}
  MaxKeys = 2
  MaxMade = 3
INVARIANTS ListKept RepliesTrue
PROPERTY FingerSeen
CHECK_DEADLOCK FALSE
