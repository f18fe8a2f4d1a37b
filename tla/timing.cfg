SPECIFICATION Spec
CONSTANTS
  SessionId = {s1, s2}
  NoSession = NoSession
  User = {u1}
  Client = {k1}
  NoName = NoName
  Context = {c1}
  NoContext = NoContext
  Request = {r1, r2}
  TicksPerSecond = 1
  AccessTTL = 1
  RefreshTTL = 1
  Ops = {"login", "serviceLogin", "refresh", "listSessions", "revokeSession"}
  MaxTime = 2
  MaxFaults = 0
  MaxTouches = 0
SYMMETRY Handlers
INVARIANTS
  RotationCarriesIdentity
  ListCovers
PROPERTIES
  RevokedByOwner
