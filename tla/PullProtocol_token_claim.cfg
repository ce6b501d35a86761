SPECIFICATION PullSpec
CONSTANTS
  Tables = {t1}
  Source = t1
  Keys = {k1}
  Values = {in1, out}
  Matching = {in1}
  NoRow = none
  OtherRows = FALSE
  PullEnabled = TRUE
  FailedBackfillKeepsSlot = FALSE
  MaxCommits = 2
  MaxFaults = 1
  PullEventLimit = 1
CHECK_DEADLOCK FALSE
INVARIANTS
  StaleTokenDetectable
