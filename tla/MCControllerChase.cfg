SPECIFICATION Spec
CONSTANTS
  t1 = t1
  task1 = task1
  role1 = role1
  operator = operator
  None = None
  Tasks = {t1}
  Keys = {task1, role1}
  TaskOf <- TaskAndRoleTaskOf
  TaskKey <- OneTaskTaskKey
  Concurrency = 1
  PassLimit = 1
  TaskLimit = 2
  QuietModes = {"fails"}
PROPERTIES
  ComesToRest
CHECK_DEADLOCK FALSE
