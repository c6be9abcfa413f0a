\* The source's own numbers, but one slot instead of four; the extreme jitters
\* and request durations.
SPECIFICATION FairSpec
CONSTANTS
  n1 = n1
  n2 = n2
  NULL = NULL
  ClaimIds = {}
  MaxAttempts = 8
  MaxReplays = 16
  MaxAge = 86400000
  Lease = 30000
  Jitters <- ExtremeJitters
  SendTimeout = 10000
  Durations = {0, 10000}
  UnstableStatus = {204, 301, 408, 429, 500, 599}
  Conns = {n1, n2}
  Slots = 1
  HeaderTimeout = 5000
  ReadTimeout = 15000
  Pace = 5000
CHECK_DEADLOCK FALSE
INVARIANTS
  BudgetFitsWindow
  DeadLetterEarned
  ScenariosEnd
PROPERTIES
  FullEnds
