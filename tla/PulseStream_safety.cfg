SPECIFICATION Spec
CONSTANTS
  Tables = {t1, t2}
  PullEnabled = TRUE
  FailedBackfillKeepsSlot = FALSE
  MaxCommits = 3
  MaxFaults = 3
SYMMETRY TableSymmetry
CHECK_DEADLOCK FALSE
INVARIANTS
  TypeOK
  LogIsExact
  NoAckedGap
  EpochsMirrored
  TapInCommitOrder
PROPERTIES
  CursorsStaySound
  WatermarkMonotone
  ImplementsEventsLog
