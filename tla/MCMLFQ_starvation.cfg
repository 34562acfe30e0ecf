SPECIFICATION FairSpec
CONSTANTS
  LIMIT = 2
  WORKERS = 2
  ATTEMPTS = 1
  SUBMITS = 2
  LEVELS = 2
  sched_policy_current = "MLFQ"
  NULL = NULL
PROPERTIES
  YieldGivesWay
