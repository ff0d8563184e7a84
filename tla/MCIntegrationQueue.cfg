SPECIFICATION Spec
CONSTANTS
  p1 = p1
  p2 = p2
  c1 = c1
  c2 = c2
  None = None
  Procs = {p1, p2}
  Changes = {c1, c2}
  Checked = {c1}
  OnBase = {c2}
  Enqueued <- OneQueued
  MaxEntries = 3
  MaxAttempts = 2
  MaxDisturbances = 1
  Continuers = {p2}
  Reworked = {c2}
  Foreign = {c2}
INVARIANTS
  CommittedLanded
  QueueExclusive
PROPERTIES
  LaneFrees
CHECK_DEADLOCK FALSE
