SPECIFICATION PromptSpec
CONSTANTS
  Clients = {1, 2, 3}
  OtaClients = {1}
  Backlog = 2
  None = None

PROPERTY SignalHeeded
CHECK_DEADLOCK FALSE
