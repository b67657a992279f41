\* Terms up to two forms around a variable, derived by one driver or two; and
\* values of closed terms, with one stop, move or close or one observation out
\* of order or again, one that fails and one reading.
SPECIFICATION DriverSpec
CONSTANTS
  Assumptions <- MCAssumptions
  SourceTerms <- MCSourceTerms
  RepeatedTerms <- MCRepeatedTerms
  MaxDerivations = 2
  Definition <- MCDefinition
  QueryTerms <- MCQueryTerms
  ReleasingTerms <- MCReleasingTerms
  MaxDeviations = 1
  MaxFailures = 1
  MaxReadings = 1
INVARIANTS
  DerivedMeans DerivationStands
  ObservesHead CallsOnce ReadbackMeans
CHECK_DEADLOCK FALSE
