SPECIFICATION Spec
CONSTANTS
  Modes <- MCModes
  Interactive = "always-ask"
  Policies = {"skip", "backup", "overwrite"}
  NoFile = NoFile
  Torn = Torn
  MaxRuns = 4
  MaxUser = 3
INVARIANTS ConflictIsTheUsers
CHECK_DEADLOCK FALSE
