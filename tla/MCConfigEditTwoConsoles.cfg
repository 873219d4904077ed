SPECIFICATION Spec
CONSTANTS
  Consoles = {web1, web2}
  Clis = {}
  Keys <- MCGlobalKeys
  Values = {"good", "bad"}
  Scope = "scope"
  LayerOf <- MCLayerOf
  Conflicts <- MCConflicts
  IncludeRepo = {TRUE}
  InitialFiles <- MCInitialFiles
  MaxEdits = 2
  MaxFailures = 0
  Absent = Absent
  Garbled = Garbled
INVARIANTS NeverLeftUnreconcilable
CHECK_DEADLOCK FALSE
