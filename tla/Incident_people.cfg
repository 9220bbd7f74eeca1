SPECIFICATION Spec
CONSTANTS
  g1 = g1
  g2 = g2
  w1 = w1
  w2 = w2
  Groups = {g1}
  Workers = {w1}
  MaxAttempts = 1
  DraftCap = 1
  Quiet = {g1}
  MaxActs = 4
  MaxReturns = 0
INVARIANTS
  StatusIsHonest
CHECK_DEADLOCK FALSE
