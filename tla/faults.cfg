SPECIFICATION Spec
CONSTANTS
  SessionId = {s1, s2, s3}
  NoSession = NoSession
  User = {u1}
  Client = {}
  NoName = NoName
  Context = {c1}
  NoContext = NoContext
  Request = {r1, r2}
  TicksPerSecond = 1
  AccessTTL = 1
  RefreshTTL = 2
  Ops = {"login", "verify", "refresh", "logout", "activateContext"}
  MaxTime = 0
  MaxFaults = 1
  MaxTouches = 0
SYMMETRY Handlers
INVARIANTS
  IInv
  ReplacedIsRevoked
  NoOrphanSession
  NoUseAfterRevocation
PROPERTIES
  ImplementsLifecycle
