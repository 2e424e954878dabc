SPECIFICATION Spec
CONSTANTS
  RunApps = {"Todo"}
  LauncherApps = {}
  UIApps = {}
  PlainApps = {}
  Rows = 2
  Texts = {"", "a"}
  MaxItems = 3
  Torn = Torn
  Jobs = {1, 2}
  Idle = Idle
  MaxRecent = 3
  None = None
  MaxChars = 2
  Missing = Missing
  MaxTime = 3
  MaxLaps = 2
  LastAddr = 2
  Targets = {"a", "b"}
  Ports = 2
  Cities = {"a", "b"}
  MaxLists = 3
  Hosts = {"h"}
  MaxHistory = 2
  MaxPackets = 2
  Addresses = 2
  BatchSize = 2
  Percents = {20, 100}
  Broken = Broken
INVARIANT NoKeyEndsShell
CHECK_DEADLOCK FALSE
