SPECIFICATION Spec
CONSTANTS
  ReadRetries = 1
  Crashes = FALSE
INVARIANTS
  WatchedNeverExitsTwo
