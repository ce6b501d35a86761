SPECIFICATION Spec
CONSTANTS
  Tables = {t1}
  PullEnabled = TRUE
  FailedBackfillKeepsSlot = FALSE
  MaxCommits = 3
  MaxFaults = 1
CHECK_DEADLOCK FALSE
INVARIANTS
  TapAtLeastOnce
