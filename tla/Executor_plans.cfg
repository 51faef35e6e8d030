SPECIFICATION FairSpec
CONSTANTS
  NoTask = NoTask
  t1 = t1
  t2 = t2
  Tasks <- TwoTasks
  NActions = 2
  Keyboard <- FirstIsKeyboard
  MaxPerWindow = 2
  WindowLength = 1
  MaxTime = 2
  LogMayFail <- OneTask
INVARIANTS
  TypeOK
  WindowBound
  AuditIsTrue
  DispatchDiscipline
  DispatchedIsAudited
PROPERTIES
  PlanEnds
CHECK_DEADLOCK FALSE
