SPECIFICATION Spec
CONSTANTS
  Step = {s1, s2}
  Cgroups = {"scope", "slurmd"}
  MonitorEnv = FALSE
  Hasty = FALSE
  SlurmdRestarts = TRUE
INVARIANTS
  TypeOK
  ArmedIsStopped
  EmergencyStopKills
  EmergencyStopHolds
