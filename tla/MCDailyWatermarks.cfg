SPECIFICATION Spec
CONSTANTS
  Repos = {"A", "B"}
  PRs = {1, 2}
  RepoOf <- MCRepoOf
  Procs = {r1, r2}
  PageLimit = 2
  Lookback = 1
  SameSecond = FALSE
  MaxTime = 2
  MaxRuns = 3
SYMMETRY ProcSymmetry
INVARIANTS NothingLost RepeatsOnlyAfterTrouble
CHECK_DEADLOCK FALSE
