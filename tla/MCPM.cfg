SPECIFICATION FairSpec
CONSTANTS
  svc_count = 2
  Priority1 = {2}
  Priority2 = {1}
  Priority3 = {}
  MaxRestarts = 1
  Pids = {1, 2, 3, 4}
  ForkFails = {2}
INVARIANTS OneInstance RestartBudget NothingLeftRunning
PROPERTIES CrashedComesBack ShutdownEnds
CHECK_DEADLOCK FALSE
