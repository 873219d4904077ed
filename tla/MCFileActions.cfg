SPECIFICATION Spec
CONSTANTS
  Paths <- MCPaths
  LinkOf <- MCLinkOf
  Plan <- MCPlan
  Wanted = {"v1", "v2"}
  UserMade = {"u1", "u2"}
  Policies = {"skip", "backup", "overwrite"}
  Absent = Absent
  Torn = Torn
  MaxRuns = 2
  MaxUser = 1
INVARIANTS TypeOK UserContentSurvives CleanRunConverges
PROPERTIES ReapplyIsNoOp BackupsAreKept
CHECK_DEADLOCK FALSE
