CONSTANTS
  f1 = f1
  f2 = f2
  Files = {f1, f2}
  Heads <- LongHead
  MaxMeddles = 1
  MaxCliRuns = 1
  MaxMapFaults = 1
SPECIFICATION MapsSpec
PROPERTIES
  AddedLinesCounted
CHECK_DEADLOCK FALSE
