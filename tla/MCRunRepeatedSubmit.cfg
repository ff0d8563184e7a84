SPECIFICATION Spec
CONSTANTS
  Keys = {r1}
  NoRun = NoRun
  RecentLimit = 1
  LateRegistration = TRUE
  MaxFaults = 2
INVARIANTS
  RepeatedSubmitIdempotent
CHECK_DEADLOCK FALSE
