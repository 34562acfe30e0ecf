SPECIFICATION UthreadSpec
CONSTANTS
  NULL = NULL
  CPUS = {cpu1}
  UTHREADS = {u1}
  ARGUMENTS = {arg}
  STACK_WORDS = 4
  DEPTH = 1
  MAP_FAILED = MAP_FAILED
CHECK_DEADLOCK FALSE
INVARIANT FailureReported
