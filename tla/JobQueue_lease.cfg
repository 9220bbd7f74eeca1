SPECIFICATION Spec
CONSTANTS
  j1 = j1
  j2 = j2
  l1 = l1
  l2 = l2
  p1 = p1
  p2 = p2
  Jobs = {j1, j2}
  Loops = {l1, l2}
  Procs = {p1, p2}
  ProcOf <- OneProcOf
  JobType <- ConfirmType
  Key <- OwnKeys
  Indexed = {}
  Cap <- CapOne
  MaxAttempts = 2
  MaxRequeues = 1
  LeaseTicks = 2
  MaxReschedules = 0
SYMMETRY SharedLoops
INVARIANTS
  OneOwner
  LaneCaps
PROPERTIES
  LeaseHonoured
CHECK_DEADLOCK FALSE
