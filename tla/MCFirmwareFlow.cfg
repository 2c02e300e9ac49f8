SPECIFICATION Spec
CONSTANTS
  Root = {r1, r2}
  Bl = {l1, l2}
  Cust = {c1, c2}
  App = {a1}
  Boot = {b1, b2}
  Version = {1, 2}
  Absent = Absent
  MaxFlows = 3
  MaxSteps = 4
SYMMETRY Symmetry
INVARIANTS
  TypeOK
  NameIsTime
  BuildIsCoherent
CHECK_DEADLOCK FALSE
