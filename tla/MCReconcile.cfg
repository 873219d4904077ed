CONSTANTS
  Scenarios <- Cases
  MaxEdits = 2
  MaxRuns = 2
SPECIFICATION Spec
INVARIANTS
  SecondRunIsIdle
  ApplyConverges
  CleanMeansIdle
  SwitchedOffIsSeen
PROPERTIES
  UserContentKept
  HandWrittenLinesKept
CHECK_DEADLOCK FALSE
