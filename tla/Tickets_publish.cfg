CONSTANTS
  pa = pa
  pb = pb
  x1 = x1
  x2 = x2
  x3 = x3
  None = None
  Problems = {pa, pb}
  MaxTime = 2
  Signals = {x1, x2, x3}
  SessionOf <- MCSessionOf
  UserOf <- MCUserOf
  First <- MCFirst
  Near <- MCNear
  MinConfirmed = 1
  MinUsers = 1
  PassPct = 60
  FailPct = 60
  FailCounted = 2
  FirstLook = 1
  NextLook = 1
  BatchSize = 2
  MaxUnavailable = 2
  FoldRetryLimit = 2
  MaxFaults = 1
  Repositories = {ra, rb}
  CtxRoutes = {p1, p2}
  CtxWorkers = {v1, v2}
  NoRepo = NoRepo
  MaxPushes = 1
  MaxSwitches = 2
  MaxCtxClaims = 2
  MaxCtxAttempts = 1
  MaxIds = 3
  MaxSeq = 2
  MaxStray = 1
  MaxTurns = 2
  MaxBlocks = 2
  Cap = 6
SPECIFICATION PartSpec
CONSTRAINT Bounded
INVARIANTS
  TicketsAgree
  ContextAgrees
  RecordsIntact
PROPERTIES
  GateHolds
CHECK_DEADLOCK FALSE
