SPECIFICATION FairSpec
CONSTANTS
  Threads = {t1, t2}
  MaxChanges = 1
  Rooms = {0, 1}
  MaxFiles = 1
  Peers = {p1, p2}
  FileNames = {"a"}
  Size = 1
  Lengths = {0, 1, 2}
  Nobody = Nobody
  Files = {f1}
  Longest = 2
  Runs = {r1, r2}
  Levels = {0, 85}
  Default = 85
  Topics = {"BATTERY"}
  MaxUnread = 2
  Services = {"keychain"}
  Torn = Torn
  Clients = {1, 2, 3}
  OtaClients = {1}
  Backlog = 1
  None = None
INVARIANTS FilesWhole AnswersHonest
PROPERTIES ServerCatchesUp TransfersEnd CoreServes BatteryFollows
CHECK_DEADLOCK FALSE
