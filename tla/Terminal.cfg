\* Keys are typed and the page is cancelled at any time; what then uses the
\* destroyed terminal may stop the system.
CONSTANTS
  Size = 3
  Chars = {"a", "b"}
  Keys <- MCKeys
SPECIFICATION FairSpec
INVARIANT SemaphoreCounts
PROPERTIES IsQueue TypedIsRead ShellReturns
CHECK_DEADLOCK FALSE
