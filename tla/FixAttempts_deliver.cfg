CONSTANTS
  a = a
  b = b
  Problems = {a, b}
  Settled = {a, b}
  Moving = {a}
  MaxGen = 2
  MaxEvidence = 2
  MaxInvestigations = 2
  MaxAttempts = 2
  MaxRuns = 2
  MaxPrs = 1
  MaxOpenPrs = 1
  MaxFaults = 1
  Files = {a, b}
  Heads <- MCHeads
  MaxMeddles = 1
  MaxCliRuns = 2
  MaxMapFaults = 1
  DebugIds = {a, b}
  Mapped = {a, b}
  Events = {a}
  Frames <- MCFrames
  Uploads = {a, b}
  UploadOf <- MCUploadOf
  Jobs = {1, 2, 3}
  MaxResolves = 2
  MaxFailures = 1
SPECIFICATION PartSpec
CONSTRAINT Bounded
INVARIANTS
  AttemptsAgree
  SourceMapsAgree
  ResolutionAgrees
PROPERTIES
  NeverBackwards
CHECK_DEADLOCK FALSE
