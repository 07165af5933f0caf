CONSTANTS
  Worker = {"w1", "w2"}
  shell = "shell"
  none = "none"
  Threads <- MCThreads
  Base <- MCBase
  Mutexes = {"queue_lock", "user_lock"}
  UINT8 = 4
  MaxTask = 4
SPECIFICATION FairSpec
INVARIANTS AssertionsHold TasksConserved Inheritance
PROPERTY TaskServed
CHECK_DEADLOCK FALSE
