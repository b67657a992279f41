\* A query behind a long check.
SPECIFICATION UpkeepSpec
CONSTANTS
  Versioned = TRUE
  QueryTicks = 1
  CheckTicks = 2
  MaxJobs = 3
  MaxRequests = 3
  UpkeepRequests = 3
  MaxChecks = 1
  MaxAdvances = 1
PROPERTIES ChecksRunOn
CHECK_DEADLOCK FALSE
