SPECIFICATION Spec
CONSTANTS
  NOS = 3
  BPS = 2
  PPB = 1
  NLBA = 2
  LASYNC = 0
  QDEPTH = 1
  Null = Null
INVARIANTS
  TypeOK
  BlocksOwnedOnce
  ErasedAhead
  ValidPageHoldsItsLba
  GcHasRoomAndLosesNothing
  SegmentAccounting
  WritePoints
