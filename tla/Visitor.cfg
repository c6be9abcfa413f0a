\* Two browsers, two requests at a time; seconds of two ticks, sessions of
\* one and a half seconds, the API's clock one tick ahead.
SPECIFICATION Spec
CONSTANTS
  v1 = v1
  v2 = v2
  q1 = q1
  q2 = q2
  s1 = s1
  s2 = s2
  e1 = e1
  NULL = NULL
  Visitors = {v1, v2}
  Requests = {q1, q2}
  SessionIds = {s1, s2}
  EventIds = {e1}
  Second = 2
  SessionLifetime = 3
  Ahead = 1
  EventsPerSession = 1
  SandboxReplays = 1
  Faults = TRUE
  Horizon = 4
SYMMETRY Symmetry
INVARIANTS
  DeniedAtTheEnd
  FreshQuotaAtTheEnd
  OnlyOwn
  AdmissionStands
CHECK_DEADLOCK FALSE
