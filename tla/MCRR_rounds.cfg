SPECIFICATION FairTurnsSpec
CONSTANTS
  LIMIT = 3
  WORKERS = 2
  ATTEMPTS = 1
  SUBMITS = 3
  sched_policy_current = "RR"
  NULL = NULL
INVARIANTS
  IInv
  SwitchTargetReady
  Conservation
  WaitMeansDone
PROPERTIES
  ImplementsTaskPool
  OneTurnEach
  EveryTaskRuns
  WaitReturns
