\* One worker that may fail, one session, one event: Cleanup against Claim and
\* Record; the clock runs past the expiry of the session and of a last lease.
SPECIFICATION SandboxFairSpec
CONSTANTS
  w1 = w1
  c1 = c1
  c2 = c2
  c3 = c3
  e1 = e1
  e2 = e2
  s1 = s1
  s2 = s2
  NULL = NULL
  EventIds = {e1}
  Workers = {w1}
  ClaimIds = {c1, c2}
  ClockOffset <- EqualClocks
  Delays <- OneTick
  Responses = {204}
  MaxAttempts = 2
  MaxReplays = 0
  MaxAge = 9
  Lease = 3
  AttemptTimeout = 2
  RetireLimit = 1
  Faults = TRUE
  Horizon = 5
  AcceptUntil = 0
  SessionIds = {s1}
  SessionLifetime = 2
  WindowLength = 9
  SessionsPerWindow = 9
  AdmissionsPerWindow = 9
  EventsPerSession = 2
  RetainedSessions = 9
  SandboxReplays = 0
  CleanupLimit = 1
  ClockSteps = {0}
INVARIANTS
  ReferencesHold
  CleanupUnobstructed
  AttemptOwnsRow
PROPERTIES
  VisitBounded
  ExpiredSessionsVanish
