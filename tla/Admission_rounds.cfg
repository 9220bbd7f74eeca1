SPECIFICATION PartSpec
CONSTANTS
  o1 = o1
  o2 = o2
  o3 = o3
  Obs = {o1, o2, o3}
  First = {o1, o2}
  FirstIssue = "A"
  Issues = {"A"}
  Fingerprints = {"f1"}
  Raw <- MCRaw
  Resolved <- MCRaw
  User <- MCUser
  AdmitUnits = 2
  MaxJobs = 2
  Settlers = {"s1"}
  MaxChanges = 2
  src = src
  ghost = ghost
  Repo = {src}
  Ghosts = {ghost}
  Submissions <- MCSubmissions
  MaxResubmits = 1
  MaxReads = 1
  MaxRuns = 2
INVARIANTS
  InvestigationHonest
  AdmissionAgrees
PROPERTIES
  RoundsAreWeighed
  VerdictStands
CHECK_DEADLOCK FALSE
