SPECIFICATION FairSpec
CONSTANTS
  Clients = {c1, c2}
  Keys = {k1, k2}
  Types = {"set", "get"}
  NREQ = 4
  QDEPTH = 2
  QSIZE = 2
  MAXRETRY = 1
  STOPS = TRUE
INVARIANTS
  WakeupsMatchWork
  QManagerExact
  EachRequestOnce
  RoomInQueues
  ReadsSeeQueuedWrites
PROPERTIES
  EveryRequestEnds
  StopReachesPMain
ACTION_CONSTRAINT FirstRequest
