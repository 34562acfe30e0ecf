SPECIFICATION TurnsSpec
CONSTANTS
  LIMIT = 2
  WORKERS = 2
  ATTEMPTS = 2
  SUBMITS = 2
  sched_policy_current = "RR"
  NULL = NULL
INVARIANTS
  LimitTasksFit
