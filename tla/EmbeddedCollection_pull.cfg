SPECIFICATION CollectionSpec
CONSTANTS
  Tables = {t1}
  Source = t1
  Keys = {k1}
  Values = {in1, in2, out}
  Matching = {in1, in2}
  NoRow = none
  OtherRows = FALSE
  PullEnabled = TRUE
  FailedBackfillKeepsSlot = FALSE
  MaxCommits = 3
  MaxFaults = 2
  AwaitStart = TRUE
  VisibilityLag = FALSE
CHECK_DEADLOCK FALSE
SYMMETRY ContentSymmetry
INVARIANTS
  CollectionTypeOK
  CollectionIsExact
  RebaselineNeverBuffers
