SPECIFICATION AccountSpec
CONSTANTS
  SessionId = {s1, s2}
  NoSession = NoSession
  User = {}
  Client = {k1}
  NoName = NoName
  Context = {c1}
  NoContext = NoContext
  Request = {r1, r2}
  Admin = {a1, a2}
  TicksPerSecond = 2
  AccessTTL = 1
  RefreshTTL = 1
  Ops = {"serviceLogin", "refresh", "activateContext"}
  MaxTime = 3
  MaxFaults = 0
  MaxTouches = 1
SYMMETRY Handlers
INVARIANTS
  AccountTypeOK
  ClientIdsUnique
  DeactivationIsFinal
  DeactivationBites
  AccessWindowBounded
PROPERTIES
  RevocationIsFinal
