\* /restart of a session over a checked source.
SPECIFICATION RestartSpec
CONSTANTS
  Names = {x, y}
  y = y
  Syntax <- MCSyntax
  Manages = {TRUE, FALSE}
  StepBudget = 2
  MaxQuerySteps = 7
  MaxGeneration = 2
  MaxDefinitions = 2
  MaxEntries = 2
  MaxVariant = 2
  MaxSourceEdits = 1
  MaxCheckRequests = 2
  MaxOpens = 2
  MaxRuns = 2
  FileNames <- MCFileNames
  Main = "main"
  ReplNames <- MCReplNames
  Files0 <- MCFiles0
  Edits <- MCEdits
  Sources <- MCSources
  Bundled <- MCBundled
  Outages <- MCOutages
  CollectScopes = FALSE
  Mains <- MCMains
  Statements <- MCStatements
  MaxFaults = 1
  RestartsOver = TRUE
  MaxEdits = 3
  MaxReplEdits = 1
  MaxChecks = 2
  None = None
INVARIANT EntriesAreChecked
CHECK_DEADLOCK FALSE
