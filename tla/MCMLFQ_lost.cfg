SPECIFICATION Spec
CONSTANTS
  LIMIT = 2
  WORKERS = 2
  ATTEMPTS = 2
  SUBMITS = 3
  LEVELS = 2
  sched_policy_current = "MLFQ"
  NULL = NULL
INVARIANTS
  WaitMeansDone
