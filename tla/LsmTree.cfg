\* Two chunks per flush, three levels, three keys over four usable pages of
\* two values: a chunk can find the partition full twice.
SPECIFICATION FairSpec
CONSTANTS
  Keys = {1, 2, 3}
  FLUSHNUM = 2
  HK = 1
  FULL = 2
  LEVELN = 3
  SEGS = 3
  PPS = 2
  VPP = 2
INVARIANTS TypeOK ReadsFindTheirKey NoAbort SegmentsOwnedOnce
PROPERTY FlushEnds
