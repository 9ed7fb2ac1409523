SPECIFICATION Spec
CONSTANTS
  NOS = 3
  BPS = 1
  PPB = 2
  NLBA = 2
  LASYNC = 0
  QDEPTH = 1
  Null = Null
INVARIANTS
  MappingTranslates
