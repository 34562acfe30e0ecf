SPECIFICATION SubmitFirstSpec
CONSTANTS
  LIMIT = 3
  WORKERS = 2
  ATTEMPTS = 2
  SUBMITS = 3
  LEVELS = 2
  sched_policy_current = "MLFQ"
  NULL = NULL
PROPERTIES
  EveryTaskRunsWhileStaffed
