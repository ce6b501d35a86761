SPECIFICATION Spec
CONSTANTS
  Name = name
  Size = size
  Secret = secret
  Columns = {name, size, secret}
  Selected = {name, size}
  ColumnType <- MCColumnType
  Scalars <- MCScalars
  Null = null
  Queries = {1, 2}
  Condition <- MCNegation
  Nesting <- MCNesting
  Rows <- MCRows
  NoRow = none
  MaxChanges = 1
CHECK_DEADLOCK FALSE
INVARIANT SqlParity
