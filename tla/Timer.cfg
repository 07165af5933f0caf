CONSTANTS
  Timer = {"t1", "t2", "t3"}
  RANGE = 8
SPECIFICATION Spec
INVARIANTS Sorted EarlyFirst
PROPERTY Promise
