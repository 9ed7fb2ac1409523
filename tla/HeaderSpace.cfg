CONSTANTS
  SEGS = 3
  PPS = 2
  Runs = {r1, r2, r3, r4}
  MAXUP = 1
  PAD = 1
  EXTRA = 2
  None = None
SPECIFICATION FairSpec
INVARIANTS TypeOK RunsOwnPages InvalidExact SegmentsOwnedOnce ReservationHolds FullMeansFull
PROPERTIES GcGains CompactionEnds
