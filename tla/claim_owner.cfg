SPECIFICATION Spec
CONSTANTS
  SessionId = {s1, s2, s3}
  NoSession = NoSession
  User = {}
  Client = {k1, k2}
  NoName = NoName
  Context = {c1}
  NoContext = NoContext
  Request = {r1, r2}
  TicksPerSecond = 1
  AccessTTL = 1
  RefreshTTL = 2
  Ops = {"serviceLogin", "revokeSession"}
  MaxTime = 0
  MaxFaults = 0
  MaxTouches = 0
SYMMETRY Handlers
PROPERTIES
  RevokedByPrincipal
