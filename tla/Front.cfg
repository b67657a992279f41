\* Matches of two values by up to three clauses, terms four forms deep,
\* modules of up to four items, three operations on resolved source, and two forms
\* around a name.
SPECIFICATION FrontSpec
CONSTANTS
  Types <- MCTypes
  Patterns <- MCPatterns
  Problems <- MCProblems
  MaxClauses = 3
  ValueDepth = 3
  Operations <- MCOperations
  Numerals = "unat"
  Siblings <- MCSiblings
  Formulas <- MCFormulas
  MaxDepth = 3
  Module = "m"
  Library = "l"
  Labels <- MCLabels
  SourceItems <- MCItems
  Imports <- MCImports
  Joined <- MCJoined
  Managed = TRUE
  MaxItems = 4
  Globals <- MCGlobals
  SourceTerms <- MCSourceTerms
  Inserted <- MCInserted
  Openings <- MCOpenings
  Replaceable = {1, 2}
  MaxOperations = 3
  TermVariables <- MCTermVariables
  TermLabels <- MCTermLabels
  TermDimensions <- MCTermDimensions
  UnnamedDims <- MCUnnamedDims
  ReadableNames <- MCReadableNames
  GivenNames <- MCGivenNames
  MaxWraps = 2
INVARIANTS
  FirstFit ReadsBack
  AvailableIsDefined OneMeaning
  Hygienic
  SubstitutionMeans ShownMeans
CHECK_DEADLOCK FALSE
