CONSTANTS
  Thread = {"t1", "t2"}
  MaxOpen = 3
  MaxChart = 2
SPECIFICATION Spec
INVARIANTS DeletedOnce Closable RefreshLive NothingLeft
CHECK_DEADLOCK FALSE
