SPECIFICATION LifecycleSpec
CONSTANTS
  Old = old
  New = new
  Orders = orders
  Drivers = drivers
  Tables = {orders, drivers}
  Runtimes = {old, new}
  Registered <- MCRegistered
  Shapes = {"v1", "v2"}
  Shape <- MCShape
  PullEnabled = TRUE
  Calls = {1, 2, 3}
  NoCall = 0
  None = none
  MaxChanges = 1
  Deployers = {new}
  Overlap = TRUE
CHECK_DEADLOCK FALSE
INVARIANTS
  LifecycleTypeOK
  PublishedIsFull
  EpochNamesIncarnation
  IdleHoldsNothing
  NoSessionLeaked
  StoreClosesUnderNoLoad
  NoStrandedCollection
  WaitsEnd
