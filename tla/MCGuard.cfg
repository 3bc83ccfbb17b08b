SPECIFICATION FairSpec
CONSTANTS
  NumSensors = 2
  ReadRetries = 1
  Max <- MCMax
  Temps <- MCTemps
  Contents <- MCContents
  OutOfRange <- MCOutOfRange
INVARIANTS
  TypeOK
  OKMeansSafe
  JournalCurrent
  StatusCurrent
PROPERTIES
  ImplementsPolicy
  HotSensorEndsLoop
  BadOverrideEndsLoop
  StopIsHonoured
