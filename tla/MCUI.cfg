SPECIFICATION FairSpec
CONSTANTS
  Apps = {"Notes", "Files"}
  Page <- PageDef
  Dock = {"Notes", "AI"}
  Searches <- SearchesDef
  MaxRecent = 2
  MaxRows = 2
  MaxScroll = 1
  Batch = 1
  Command = Command
  None = None
INVARIANTS ShellConsistent
PROPERTIES LockHolds HomeAgain
CHECK_DEADLOCK FALSE
