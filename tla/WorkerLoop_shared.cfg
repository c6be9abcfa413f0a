\* Two workers, as during a deployment, and two hints that both may receive, one
\* of them poison.
SPECIFICATION Spec
CONSTANTS
  w1 = w1
  w2 = w2
  e1 = e1
  e2 = e2
  h1 = h1
  h2 = h2
  NULL = NULL
  Workers = {w1, w2}
  Events = {e1}
  Hints = {h1, h2}
  EventOf <- SameEvent
  Poison = {h2}
  BatchSize = 1
  ReceiveTimeout = 1
  AttemptTimeout = 1
  AckTimeout = 1
  CycleTimeout = 3
  Visibility = 4
  MaxReceives = 2
  PollInterval = 1
  CleanupTimeout = 1
  CleanupPeriod = 1
  Faults = TRUE
  MaxClaims = 2
SYMMETRY Symmetry
INVARIANTS
  HandlesCurrent
PROPERTIES
  DeletedIsConsidered
