SPECIFICATION PartSpec
CONSTANTS
  i1 = i1
  i2 = i2
  s1 = s1
  s2 = s2
  ua = ua
  ub = ub
  oa = oa
  ob = ob
  Issues = {i1, i2}
  Schedulers = {s1, s2}
  CardCap = 1
  MaxWrites = 2
  MaxTries = 2
  MaxChanges = 3
  Approvers = {ua, ub}
  OrgOf <- EachOwnOrg
  OldOrg = oa
  Pollers = {s1, s2}
  SetupTTL = 2
  KeyWindow = 0
  Retention = 0
  MaxClock = 4
  NetworkBack = 3
INVARIANTS
  LedgerIsMessage
  SetupKeepsWord
PROPERTIES
  PublishedOnceAndCurrent
  EventuallyTold
  AgentIsTold
CHECK_DEADLOCK FALSE
