SPECIFICATION Spec
CONSTANTS
  Ufpk = {u1, u2}
  OwnUfpk = {u1, u2}
  Root = {r1}
  Absent = Absent
  Owns <- MCAnything
  MaxFlows = 2
  MaxMails = 1
SYMMETRY Symmetry
CONSTRAINT MCFolders
INVARIANTS
  TypeOK
  RkeyMatches
PROPERTIES
  NoPairLost
CHECK_DEADLOCK FALSE
