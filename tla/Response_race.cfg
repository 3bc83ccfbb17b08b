SPECIFICATION Spec
CONSTANTS
  Step = {s1, s2}
  Cgroups = {"scope", "slurmd"}
  MonitorEnv = TRUE
  Hasty = FALSE
  SlurmdRestarts = FALSE
INVARIANTS
  NoStepSurvives
