SPECIFICATION FairSpec
CONSTANTS
  Conns = {c1, c2}
  Fds = {4, 5}
  Topics = {t1, t2}
  MaxClients = 1
  MaxTopics = 1
  Buffer = 1
  MaxMsgs = 2
  None = None
INVARIANTS TableMatchesDescriptors NoMisdelivery SubscribersCurrent
PROPERTIES OrderedDelivery LockReleased
CHECK_DEADLOCK FALSE
