SPECIFICATION Spec
CONSTANTS
  Threads = {t1, t2, t3}
  CNT = 2
  MAXNOW = 3
INVARIANTS
  TypeOK
  NoLostWakeup
PROPERTIES
  IsCountingLock
