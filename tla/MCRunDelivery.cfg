SPECIFICATION Spec
CONSTANTS
  Keys = {r1, r2}
  NoRun = NoRun
  RecentLimit = 1
  LateRegistration = FALSE
  MaxFaults = 3
INVARIANTS
  DispatchKept
  HonestEnds
PROPERTIES
  ImplementsRunLifecycle
  RunSettles
CHECK_DEADLOCK FALSE
