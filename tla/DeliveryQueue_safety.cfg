\* Two workers with skewed clocks and one event, everything may fail.
SPECIFICATION Spec
CONSTANTS
  w1 = w1
  w2 = w2
  c1 = c1
  c2 = c2
  c3 = c3
  e1 = e1
  e2 = e2
  NULL = NULL
  EventIds = {e1}
  Workers = {w1, w2}
  ClaimIds = {c1, c2, c3}
  ClockOffset <- SkewedClocks
  Delays <- OneTick
  Responses = {204, 503, 600}
  MaxAttempts = 2
  MaxReplays = 1
  MaxAge = 5
  Lease = 3
  AttemptTimeout = 2
  RetireLimit = 1
  Faults = TRUE
  Horizon = 7
  AcceptUntil = 0
SYMMETRY Symmetry
INVARIANTS
  TypeOK
  QueueInv
  ClaimWithinBudget
  OneSender
  LockHolderCurrent
  AttemptKeyUnused
  AttemptHistory
  DeliveredOnce
PROPERTIES
  LateStartBounded
  ContractSpec
