\* A builder may be killed while its build runs on.
SPECIFICATION LockSpec
CONSTANTS
  Builders = {a, b}
  Nobody = Nobody
  Orphans = TRUE
  MaxWaits = 1
INVARIANT OneBuild
CHECK_DEADLOCK FALSE
