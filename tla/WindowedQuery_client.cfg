SPECIFICATION WindowSpec
CONSTANTS
  Tables = {t1}
  Source = t1
  Keys = {1, 2, 3, 4}
  Values = {in1, out}
  Matching = {in1}
  NoRow = none
  Loaded = {1, 2, 3}
  Row = in1
  Initial <- MCInitial
  Order = "desc"
  Limit = 1
  PullEventLimit = 1
  LateInserts = TRUE
  MaxCommits = 2
  MaxResets = 1
CHECK_DEADLOCK FALSE
INVARIANTS
  WindowTypeOK
  RowsAreCurrent
  WindowIsContiguous
  NoMoreMeansAll
  EachRowOnceInOrder
  PrependsAreShown
