CONSTANTS
  Stacks <- CodeStacks
  Paths <- Spellings
  Extensions <- FileSuffixes
  Start <- Beginnings
  Edits <- Knobs
  MachineEdits <- MachineKnobs
  Worlds <- Changes
  MaxEdits = 2
SPECIFICATION Spec
INVARIANTS
  AcceptedBuilds
  BridgeReadsWhereHooksLand
  ReferencesResolve
  SingleWriter
  OptedOutStaysOut
PROPERTY OnlyDependentsChange
CHECK_DEADLOCK FALSE
