\* One reliable worker, two sessions and two events against small quotas;
\* the clock may be set back across the boundary of a window.
SPECIFICATION SandboxSpec
CONSTANTS
  w1 = w1
  c1 = c1
  c2 = c2
  c3 = c3
  e1 = e1
  e2 = e2
  s1 = s1
  s2 = s2
  NULL = NULL
  EventIds = {e1, e2}
  Workers = {w1}
  ClaimIds = {c1, c2, c3}
  ClockOffset <- EqualClocks
  Delays <- OneTick
  Responses = {}
  MaxAttempts = 1
  MaxReplays = 1
  MaxAge = 9
  Lease = 2
  AttemptTimeout = 1
  RetireLimit = 1
  Faults = FALSE
  Horizon = 3
  AcceptUntil = 3
  SessionIds = {s1, s2}
  SessionLifetime = 2
  WindowLength = 2
  SessionsPerWindow = 1
  AdmissionsPerWindow = 1
  EventsPerSession = 1
  RetainedSessions = 2
  SandboxReplays = 1
  CleanupLimit = 1
  ClockSteps = {0, 1}
SYMMETRY Symmetry
INVARIANTS
  QuotaPerWindow
