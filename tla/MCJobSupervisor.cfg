SPECIFICATION Spec
CONSTANTS
  NSteps = 2
  StepResults = {"ok", "fail", "nospawn", "timeout", "ok-0ms"}
  MayHang = TRUE
  MaxCrashes = 1
INVARIANTS
  TypeOK
  LaunchedOnce
  NoFalsePass
  ToldOnce
  OnlyUnknownRunsOn
PROPERTIES
  JobSettles
  ImplementsLifecycle
CHECK_DEADLOCK FALSE
