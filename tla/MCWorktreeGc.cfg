SPECIFICATION Spec
CONSTANTS
  t1 = t1
  t2 = t2
  b1 = b1
  b2 = b2
  Trees = {t1, t2}
  Branches = {b1, b2}
  InitialRepos <- MCInitialRepos
  OlderThan = 3
  MaxChanges = 2
  MaxRuns = 1
  NoTree = NoTree
  NoRef = NoRef
  Detached = Detached
INVARIANTS TypeOK WorkSurvives InUseSurvives ReportIsTrue
PROPERTY RemovesOnlyFinished
CHECK_DEADLOCK FALSE
