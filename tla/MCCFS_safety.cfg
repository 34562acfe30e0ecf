SPECIFICATION TurnsSpec
CONSTANTS
  LIMIT = 2
  WORKERS = 2
  ATTEMPTS = 2
  SUBMITS = 3
  MAX_VRUNTIME = 2
  sched_policy_current = "CFS"
  NULL = NULL
INVARIANTS
  TypeOK
  OnePlace
PROPERTIES
  KeyStable
  ImplementsLossyPool
