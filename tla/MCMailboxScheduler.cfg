SPECIFICATION Spec
CONSTANTS
  Keys = {k1, k2, k3}
  Drains = {d1, d2}
  None = None
INVARIANTS
  OneBatch
  SignalKept
  NoLostWakeup
PROPERTIES
  NoBatchAfterStop
  SignalServed
  StopSettles
CHECK_DEADLOCK FALSE
