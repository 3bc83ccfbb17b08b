SPECIFICATION Spec
CONSTANTS
  Intervals = {1, 2, 3, 4, 5, 9}
  WatchdogSecs = {0, 2, 6, 8}
  PassTime = 3
  ArmTime = 2
INVARIANTS
  TypeOK
  ProgressIsSpared
  WedgeIsBounded
