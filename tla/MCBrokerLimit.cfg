CONSTANTS
  Conn = {c1, c2}
  Client = {alice}
  Sid = {s1, s2}
  NoSid = NoSid
  NoClient = NoClient
  MaxSessions = 1
  SessionTimeout = 1
  LoginAllowed = {alice}
  CryptoAllowed = {alice}
  Platforms = {"unix"}
SPECIFICATION Spec
INVARIANT UsableWithinLimit
