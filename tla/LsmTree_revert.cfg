SPECIFICATION Spec
CONSTANTS
  Keys = {1, 2, 3}
  FLUSHNUM = 2
  HK = 1
  FULL = 2
  LEVELN = 2
  SEGS = 4
  PPS = 2
  VPP = 1
INVARIANT LastValueMapped
