SPECIFICATION Spec
CONSTANTS
  Consoles = {web1}
  Clis = {cli1}
  Keys <- MCKeys
  Values = {"good", "bad"}
  Scope = "scope"
  LayerOf <- MCLayerOf
  Conflicts <- MCConflicts
  IncludeRepo = {TRUE, FALSE}
  InitialFiles <- MCInitialFiles
  MaxEdits = 3
  MaxFailures = 2
  Absent = Absent
  Garbled = Garbled
INVARIANTS TypeOK BrokenOnlyByOverlapOrFailedRollback SoloEditIsExact
CHECK_DEADLOCK FALSE
