SPECIFICATION FairSpec
CONSTANTS
  LIMIT = 2
  WORKERS = 2
  ATTEMPTS = 2
  SUBMITS = 3
  LEVELS = 2
  sched_policy_current = "MLFQ"
  NULL = NULL
INVARIANTS
  TypeOK
  EveryLockExcludes
  OnePlace
  LevelMatchesQueue
  DequeuedIsRunnable
  OnlyRetriesLose
PROPERTIES
  ImplementsLossyPool
  WaitReturns
