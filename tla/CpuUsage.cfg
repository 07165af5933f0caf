\* Three periods and the interrupts that end them; switches meet the first
\* interrupt and begin before the second.  The last period has switches at its
\* beginning only, and nothing happens after it.
CONSTANTS
  t1 = t1
  t2 = t2
  t3 = t3
  List <- MCList
  Reload = 2
  Word = 64
  MaxClock = 6
  MaxLate = 3
  Garbage <- MCGarbage
SPECIFICATION Spec
INVARIANT UsageExact
CONSTRAINT MCBound
CHECK_DEADLOCK FALSE
