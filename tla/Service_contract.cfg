SPECIFICATION FairSpec
CONSTANTS
  ReadRetries = 2
  Crashes = TRUE
INVARIANTS
  TypeOK
  ExitCodesSplit
  DisableProtects
  StopFailsOnlyWhenForced
PROPERTIES
  UnsafeNodeEndsGuard
  StopEnds
