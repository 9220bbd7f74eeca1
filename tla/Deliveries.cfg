SPECIFICATION PartSpec
CONSTANTS
  e1 = e1
  d1 = d1
  w1 = w1
  w2 = w2
  t1 = t1
  t2 = t2
  oa = oa
  ob = ob
  o1 = o1
  o2 = o2
  o3 = o3
  Events = {e1}
  Destinations = {d1}
  Dispatchers = {w1, w2}
  Topics = {"issue.created", "digest.daily"}
  Topic <- OneTopic
  MaxAttempts = 3
  BatchSize = 1
  MaxEdits = 3
  MaxEvents = 5
  MaxQueue = 3
  MaxBatch = 2
  Threads = {t1, t2}
  MaxPayloads = 4
  QueueSize = 2
  MaxSends = 2
  MaxRate = 3
  Installs = {d1}
  InstallOrgs = {oa, ob}
  InstallRepos = {e1}
  Callbacks = {t1, t2}
  NoInstall = NoInstall
  MaxGitHub = 2
  MaxAsks = 3
  Obs = {o1, o2, o3}
  First = {o1}
  FirstIssue = "A"
  Issues = {"A", "B"}
  Fingerprints = {"k1", "k2", "r"}
  Raw <- RawOf
  Resolved <- OneStack
  Settlers = {"s1", "s2"}
  MaxChanges = 2
INVARIANTS
  OutboxAgrees
  QueuesIntact
  InstallAgrees
  IdentityAgrees
PROPERTIES
  EventuallyDelivered
  EventuallySettled
CHECK_DEADLOCK FALSE
