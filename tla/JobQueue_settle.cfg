SPECIFICATION FairSpec
CONSTANTS
  j1 = j1
  j2 = j2
  l1 = l1
  l2 = l2
  p1 = p1
  p2 = p2
  Jobs = {j1, j2}
  Loops = {l1}
  Procs = {p1}
  ProcOf <- OneLoop
  JobType <- MixedType
  Key <- OwnKeys
  Indexed = {j1, j2}
  Cap <- CapOne
  MaxAttempts = 2
  MaxRequeues = 1
  LeaseTicks = 1
  MaxReschedules = 1
INVARIANTS
  ExecutionBudget
PROPERTIES
  EventuallySettles
  ImplementsQueue
CHECK_DEADLOCK FALSE
