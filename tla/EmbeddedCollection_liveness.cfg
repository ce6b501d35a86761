SPECIFICATION FairCollectionSpec
CONSTANTS
  Tables = {t1}
  Source = t1
  Keys = {k1}
  Values = {in1, out}
  Matching = {in1}
  NoRow = none
  OtherRows = FALSE
  PullEnabled = TRUE
  FailedBackfillKeepsSlot = TRUE
  MaxCommits = 2
  MaxFaults = 2
  AwaitStart = TRUE
  VisibilityLag = FALSE
CHECK_DEADLOCK FALSE
PROPERTIES
  EveryCommitCovered
  NeverLatched
  CollectionCatchesUp
