SPECIFICATION Spec
CONSTANTS
  Step = {s1}
  Cgroups = {"scope"}
  MonitorEnv = FALSE
  Hasty = FALSE
  SlurmdRestarts = FALSE
INVARIANTS
  NeverSilent
