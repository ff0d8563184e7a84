SPECIFICATION Spec
CONSTANTS
  Keys = {k1, k2, k3}
  Consumers = {c1, c2}
INVARIANTS
  LeaseExclusive
  NoLostWakeup
  AcceptedSignalKept
PROPERTIES
  SignalServed
  StopCompletes
CHECK_DEADLOCK FALSE
