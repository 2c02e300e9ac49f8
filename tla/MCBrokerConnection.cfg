CONSTANTS
  Data = {d1, d2}
  NoData = NoData
  MaxHandle = 3
  MaxCalls = 5
SPECIFICATION Spec
SYMMETRY Symmetry
INVARIANTS
  TypeOK
  InStep
  Agreement
  NewestIsBound
