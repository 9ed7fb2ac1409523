SPECIFICATION FairSpec
CONSTANTS
  Keys = {0, 3, 5}
  Readers = {r1, r2}
  NENT = 6
  EPP = 2
  MAXC = 1
  WBSIZE = 2
  None = None
INVARIANTS TypeOK FlightsHaveLoaders ProbingFindsKeys NoFault EntriesReachableSync
PROPERTIES FlushEnds
