\* Three builders: a holder, a recoverer and one that is late or waits; or
\* two, and sources edited twice at any time.
SPECIFICATION BuildSpec
CONSTANTS
  Builders = {a, b, c}
  late = c
  Nobody = Nobody
  Orphans = FALSE
  MaxWaits = 1
  Versions = {1, 2, 3}
INVARIANT FreshMeansBuilt
PROPERTIES BuildsExclude LockBuildersEnd
CHECK_DEADLOCK FALSE
