CONSTANTS
  Arn = {a1, a2}
  Chunk = {c1, c2}
  MaxSession = 1
  MaxKey = 3
  MaxPart = 1
  MaxLate = 1
SPECIFICATION Spec
SYMMETRY Symmetry
INVARIANTS
  TypeOK
  OperationIsItsOwn
  SearchOnce
  ClientReady
PROPERTY ImplementsKeyService
