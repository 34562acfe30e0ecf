SPECIFICATION ChainSpec
CONSTANTS
  LIMIT = 4
  WORKERS = 2
  ATTEMPTS = 1
  SUBMITS = 4
  MAX_VRUNTIME = 2
  sched_policy_current = "CFS"
  NULL = NULL
INVARIANTS
  FairTurns
  NoHeadStart
