SPECIFICATION Spec
CONSTANTS
  Sensor = {s1, s2}
  ReadRetries = 1
INVARIANTS
  TypeOK
  CheckIsHonest
  OneShotCodes
CHECK_DEADLOCK FALSE
