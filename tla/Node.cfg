SPECIFICATION FairSpec
CONSTANTS
  ReadRetries = 1
  Crashes = TRUE
  Step = {}
  Cgroups = {}
  MonitorEnv = TRUE
  Hasty = FALSE
  SlurmdRestarts = TRUE
INVARIANTS
  DisabledNodeLeftAlone
  JobsDieForAReason
  RightResponse
PROPERTIES
  AnswerSpec
  UnsafeNodeIsAnswered
