\* One worker that may crash while its request is out.
SPECIFICATION Spec
CONSTANTS
  w1 = w1
  w2 = w2
  c1 = c1
  c2 = c2
  c3 = c3
  e1 = e1
  e2 = e2
  NULL = NULL
  EventIds = {e1}
  Workers = {w1}
  ClaimIds = {c1, c2, c3}
  ClockOffset <- EqualClocks
  Delays <- OneTick
  Responses = {204, 503}
  MaxAttempts = 2
  MaxReplays = 1
  MaxAge = 2
  Lease = 2
  AttemptTimeout = 1
  RetireLimit = 1
  Faults = TRUE
  Horizon = 4
  AcceptUntil = 0
INVARIANTS
  EveryRequestRecorded
