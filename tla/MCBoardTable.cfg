SPECIFICATION Spec
CONSTANTS
  Name = {"a", "b"}
  MaxLines = 6
  Values <- MCValues
  OutOfRange <- MCOutOfRange
INVARIANTS
  TypeOK
  AcceptsExactly
  TableIsFile
  ArmedIsPlausible
