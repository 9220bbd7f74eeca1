SPECIFICATION PartSpec
CONSTANTS
  u1 = u1
  u2 = u2
  w1 = w1
  w2 = w2
  n1 = n1
  n2 = n2
  Seqs = {0}
  Uploaders = {u1, u2}
  Scrubbers = {w1, w2}
  MaxScrubs = 2
  MaxAnalyses = 2
  Narrators = {n1, n2}
  MaxTries = 2
INVARIANTS
  RecordingAgrees
  NarrativeAgrees
PROPERTIES
  EventuallyErased
  NarrativeIsFinal
CHECK_DEADLOCK FALSE
