SPECIFICATION Spec
CONSTANTS
  t1 = t1
  task1 = task1
  role1 = role1
  operator = operator
  None = None
  Tasks = {t1}
  Keys = {task1, operator}
  TaskOf <- TaskAndOperatorTaskOf
  TaskKey <- OneTaskTaskKey
  Concurrency = 1
  PassLimit = 2
  TaskLimit = 2
  QuietModes = {"throws", "fails"}
INVARIANTS
  NothingForgotten
  PendingHasRetry
PROPERTIES
  KeyAttempted
  StopCompletes
  ComesToRest
CHECK_DEADLOCK FALSE
