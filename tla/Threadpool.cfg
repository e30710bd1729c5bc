SPECIFICATION LiveSpec
CONSTANTS
  Tasks = {t1, t2, t3, t4}
  Waiters = {v1, v2}
  MaxThreads = 2
  NoTask = NoTask
INVARIANTS
  TypeOK
  Counters
  TaskRunsOnce
  DrainBeforeStop
  NoLostWakeup
PROPERTIES
  ThreadSlotsFresh
  ServiceSpec
  AcceptedTasksRun
  ShutdownCompletes
  WaitReturns
