SPECIFICATION PartSpec
CONSTANTS
  a1 = a1
  a2 = a2
  f1 = f1
  Rows = {a1, a2, f1}
  JobType <- LaneTypes
  AnalysisCap = 1
  Slots = 2
  MaxAttempts = 2
  Tiers = 2
  MaxRetries = 1
INVARIANTS
  FixRunHonest
PROPERTIES
  NoLaneStarves
  EventuallyReleased
