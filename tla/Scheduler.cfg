CONSTANTS
  RT_CPUS_NR = 2
  RT_THREAD_PRIORITY_MAX = 3
  Thread = {"main", "a"}
  main = "main"
  none = "none"
  AllThreads <- MCAll
  bind_cpu <- MCBind
  priority <- MCPriority
  idle <- MCIdle
SPECIFICATION Spec
INVARIANTS LockHandedOver OnePlace NoLostResume HeapExclusive NoInversion StopsOnlySo
CONSTRAINT MCBound
CHECK_DEADLOCK FALSE
