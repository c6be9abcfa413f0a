\* One worker with up to two attempts a cycle, two events that fall due twice, one
\* hint for the first; any call may take all of its time, or fail.
SPECIFICATION FairSpec
CONSTANTS
  w1 = w1
  w2 = w2
  e1 = e1
  e2 = e2
  h1 = h1
  h2 = h2
  NULL = NULL
  Workers = {w1}
  Events = {e1, e2}
  Hints = {h1}
  EventOf <- SameEvent
  Poison = {}
  BatchSize = 2
  ReceiveTimeout = 1
  AttemptTimeout = 1
  AckTimeout = 1
  CycleTimeout = 4
  Visibility = 5
  MaxReceives = 2
  PollInterval = 1
  CleanupTimeout = 1
  CleanupPeriod = 1
  Faults = TRUE
  MaxClaims = 2
INVARIANTS
  CycleFits
  CleanupPunctual
PROPERTIES
  EventuallyClaimed
