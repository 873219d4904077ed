SPECIFICATION Spec
CONSTANTS
  Updaters = {u1, u2}
  Names <- MCNames
  Installs <- MCInstalls
  Changes <- MCChanges
  ProbeSteps = 2
  MaxChanges = 2
  MaxSeconds = 1
INVARIANT GoodCopyKept
PROPERTIES AnswerIsTrue RollbackNeverBreaks
SYMMETRY UpdaterSymmetry
CHECK_DEADLOCK FALSE
