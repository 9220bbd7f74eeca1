SPECIFICATION Spec
CONSTANTS
  g1 = g1
  g2 = g2
  w1 = w1
  w2 = w2
  Groups = {g1, g2}
  Workers = {w1, w2}
  MaxAttempts = 2
  DraftCap = 1
  Quiet = {g1}
  MaxActs = 0
  MaxReturns = 1
CONSTRAINT Explored
SYMMETRY AnyWorker
INVARIANTS
  DeliveryAgrees
  CapHeldUntilOutcome
PROPERTIES
  AdoptedOnce
CHECK_DEADLOCK FALSE
