\* A run of the older image and one of the newer; a rotation; a crash.
SPECIFICATION FairSpec
CONSTANTS
  m1 = m1
  m2 = m2
  api = api
  worker = worker
  NULL = NULL
  Migrators = {m1, m2}
  Files <- OldAndNew
  MaxFailures = 1
  Services = {api, worker}
  NotBefore <- Issue
  NotAfter <- Expiry
  Offsets <- Behind
  MaxAnchors = 2
  Horizon = 2
  MaxCrashes = 1
INVARIANTS
  AppliedInOrder
  NoTrustOutage
  RestartTrusts
PROPERTIES
  SuccessIsCurrent
  EventuallyNewest
  RotationCompletes
