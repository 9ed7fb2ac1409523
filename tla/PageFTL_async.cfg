SPECIFICATION Spec
CONSTANTS
  NOS = 3
  BPS = 1
  PPB = 2
  NLBA = 2
  LASYNC = 1
  QDEPTH = 2
  Null = Null
PROPERTIES
  GcMoveKeepsCopies
  GcTerminates
