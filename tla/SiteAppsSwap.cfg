SPECIFICATION Spec
CONSTANTS
  j1 = j1
  j2 = j2
  Jobs = {j1, j2}
  MaxTime = 2
  MaxEdits = 2
  MaxCrashes = 1
SYMMETRY Symmetry
INVARIANT TypeOK
INVARIANT RestorePointFirst
INVARIANT NothingLost
INVARIANT NoMixture
INVARIANT RunsWhatIsThere
INVARIANT StaysUp
PROPERTY FailedRestoreChangesNothing
CHECK_DEADLOCK FALSE
