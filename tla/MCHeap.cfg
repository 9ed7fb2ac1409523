SPECIFICATION Spec
CONSTANTS
  Blocks = {b1, b2, b3, b4, b5}
  Null = Null
  MAXINV = 2
SYMMETRY BlockSymmetry
INVARIANTS
  NodesExact
PROPERTIES
  TakesMostInvalid
