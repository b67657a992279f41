\* An entry gated while a worker is replaced.
SPECIFICATION SessionSpec
CONSTANTS
  Versioned = FALSE
  QueryTicks = 1
  CheckTicks = 2
  MaxJobs = 4
  MaxRequests = 6
  UpkeepRequests = 3
  MaxChecks = 2
  MaxAdvances = 0
PROPERTIES RecordGrows
CHECK_DEADLOCK FALSE
