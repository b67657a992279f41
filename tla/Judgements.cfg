\* Entries, binders, definitions and judgements across checkpoints, in one
\* dimension; systems of several tubes; faces; levels; or formulas.
SPECIFICATION TablesSpec
CONSTANTS
  Symbols = {10}
  Dims = {0, 1}
  DefinitionSymbols = {1, 2}
  OverlapLimit = 2
  MaxFacts = 6
  ContextFacts = 3
  FaceFacts = 5
  MaxEntries = 4
  TableEntries = 3
  MaxDefinitions = 2
  LevelVariables = {x, y}
  LevelMax = 2
  TierMax = 2
  Largest = 3
  Dimensions = {0, 1}
  MaxClauses = 4
  OperandClauses = 2
INVARIANTS FreeInContext ContextsClosed OneEntryPerName DefinitionsClosed TubesAgree PremisesHold NormalFormsDecide FormulasMean
CHECK_DEADLOCK FALSE
