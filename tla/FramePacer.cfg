\* 300 ticks a second, so that 30 frames a second are 10 ticks each; the
\* counter wraps at 3072 instead of 2^32.  The work of a round takes no time,
\* or longer than a frame.
CONSTANTS
  Word = 3072
  TickPerSecond = 300
  InitialDelay = 5
  Works = {0, 12}
  Lates = {0, 1}
SPECIFICATION PacerFairSpec
INVARIANTS PacerTypeOK ElapsedExact
PROPERTY KeepsPace
