SPECIFICATION Spec
CONSTANTS
  Index = 2
  Churn = 2
  None = None
  Num <- MCNum
  Device <- MCDevice
  Chip <- MCChip
  Label <- MCLabel
  ChipRefs <- MCChipRefs
  SensorRefs <- MCSensorRefs
INVARIANTS
  TypeOK
  SteadyDevicesRead
  ReadingIsFromChip
