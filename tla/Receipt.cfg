\* Three requests for one key, receipts with two bodies, replays and reads,
\* against the workers; every handler may die.
SPECIFICATION Spec
CONSTANTS
  q1 = q1
  q2 = q2
  q3 = q3
  k1 = k1
  b1 = b1
  b2 = b2
  NULL = NULL
  Requests = {q1, q2, q3}
  Keys = {k1}
  Bodies = {b1, b2}
  Flaws <- AllFlaws
  MaxAttempts = 2
  MaxReplays = 1
SYMMETRY Symmetry
INVARIANTS
  AcceptedIsStored
  ConflictIsReal
  ReplayOncePerDeath
  DetailShowsHistory
CHECK_DEADLOCK FALSE
