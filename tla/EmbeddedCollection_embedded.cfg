SPECIFICATION CollectionSpec
CONSTANTS
  Tables = {t1}
  Source = t1
  Keys = {k1, k2}
  Values = {in1, out}
  Matching = {in1}
  NoRow = none
  OtherRows = FALSE
  PullEnabled = FALSE
  FailedBackfillKeepsSlot = FALSE
  MaxCommits = 2
  MaxFaults = 2
  AwaitStart = TRUE
  VisibilityLag = TRUE
CHECK_DEADLOCK FALSE
INVARIANTS
  CollectionIsExact
  RebaselineNeverBuffers
