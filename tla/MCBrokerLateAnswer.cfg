CONSTANTS
  Data = {d1, d2}
  NoData = NoData
  MaxHandle = 2
  MaxCalls = 4
SPECIFICATION Spec
INVARIANT SignatureOfData
