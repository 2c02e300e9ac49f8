CONSTANTS
  Conn = {c1, c2}
  Client = {alice, bob}
  Sid = {s1, s2, s3}
  NoSid = NoSid
  NoClient = NoClient
  MaxSessions = 2
  SessionTimeout = 1
  LoginAllowed = {alice}
  CryptoAllowed = {alice, bob}
  Platforms = {"unix"}
SPECIFICATION Spec
SYMMETRY Symmetry
INVARIANTS
  TypeOK
  SlotLimit
  RegisteredIsOpen
  PrivateSession
  Bookkeeping
  LoggedInIsAllowed
  CryptoIsAuthorized
  OnlySupersededLeak
PROPERTY ImplementsTable
