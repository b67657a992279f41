\* The console's session, or maintenance, deadlines and failures without one.
SPECIFICATION FairPageSpec
CONSTANTS
  Versioned = TRUE
  QueryTicks = 1
  CheckTicks = 2
  MaxJobs = 4
  MaxRequests = 6
  UpkeepRequests = 3
  MaxChecks = 1
  MaxAdvances = 1
INVARIANTS MaintenanceAlone SentToRunning RecordMatches
PROPERTIES EntryExtends UpkeepSettles
CHECK_DEADLOCK FALSE
