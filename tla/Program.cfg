\* The kernel's client, the worker's messages, checks and REPL sessions.
SPECIFICATION ProgramSpec
CONSTANTS
  Names = {x, y}
  y = y
  Syntax <- MCSyntax
  Manages = {TRUE, FALSE}
  StepBudget = 2
  MaxQuerySteps = 7
  MaxGeneration = 2
  MaxDefinitions = 2
  MaxEntries = 2
  MaxVariant = 2
  MaxSourceEdits = 1
  MaxCheckRequests = 2
  MaxOpens = 2
  MaxRuns = 2
  FileNames <- MCFileNames
  Main = "main"
  ReplNames <- MCReplNames
  Files0 <- MCFiles0
  Edits <- MCEdits
  Sources <- MCSources
  Bundled <- MCBundled
  Outages <- MCOutages
  CollectScopes = FALSE
  Mains <- MCMains
  Statements <- MCStatements
  MaxFaults = 1
  RestartsOver = FALSE
  MaxEdits = 3
  MaxReplEdits = 1
  MaxChecks = 2
  None = None
INVARIANTS
  HandlesTrue BudgetsRepeat
  SessionsCurrent
  ChecksAsFresh
  ExtensionsInScope
PROPERTY RestoreKeeps
CHECK_DEADLOCK FALSE
