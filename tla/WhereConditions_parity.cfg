SPECIFICATION Spec
CONSTANTS
  Name = name
  Size = size
  Secret = secret
  Columns = {name, size, secret}
  Selected = {name, size}
  ColumnType <- MCColumnType
  Scalars <- MCScalars
  Null = null
  Queries <- MCQueries
  Condition <- MCCondition
  Nesting <- MCNesting
  Rows <- MCRows
  NoRow = none
  MaxChanges = 2
CHECK_DEADLOCK FALSE
INVARIANTS
  ConditionTypeOK
  PulledMatchesSql
  TappedMatchesSql
  NothingOutOfScope
