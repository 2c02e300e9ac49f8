CONSTANTS
  Pid = {p1, p2, p3}
  Client = {c1}
  Operator = Operator
  Config <- Configs
  None = None
  Platforms = {"unix", "windows"}
  r1 = r1
  r2 = r2
  k1 = k1
  k2 = k2
SPECIFICATION Spec
SYMMETRY Symmetry
INVARIANTS
  TypeOK
  OneBroker
  ConnectedConfig
  GracefulLeavesNothing
CHECK_DEADLOCK FALSE
