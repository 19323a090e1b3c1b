CONSTANTS
  j1 = j1
  t1 = t1
  t2 = t2
  Jobs = {j1}
  Tasks = {t1, t2}
  NoJob = NoJob
  MaxFaults = 1
SPECIFICATION FairSpec
INVARIANTS OrphanHasCause
PROPERTIES KeepsPromise HandlersEnd FailedVmIsNoticed ScheduledIsLeft
CHECK_DEADLOCK FALSE
