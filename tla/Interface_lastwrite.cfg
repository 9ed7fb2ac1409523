SPECIFICATION Spec
CONSTANTS
  Clients = {c1}
  Keys = {k1}
  Types = {"set"}
  NREQ = 2
  QDEPTH = 2
  QSIZE = 2
  MAXRETRY = 0
  STOPS = FALSE
INVARIANTS
  LastWriteWins
