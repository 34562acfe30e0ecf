SPECIFICATION FoundationsSpec
CONSTANTS
  NULL = NULL
  TREE_TASKS = {1, 2, 3, 4, 5}
  VRUNTIMES = {0, 1}
  THREADS = {p, q}
  LIST_TASKS = {a, b}
  LIST_LEVELS = {0, 1}
  CPUS = {cpu1, cpu2}
  UTHREADS = {u1, u2}
  ARGUMENTS = {arg}
  STACK_WORDS = 4
  DEPTH = 1
  MAP_FAILED = MAP_FAILED
  SLOTS = {s1, s2}
  STAFF = {w1, w2}
  RESUBMITS = 3
  LAST_TIME = 3
CHECK_DEADLOCK FALSE
INVARIANTS
  OrderedSet
  RedBlackTree
  Navigation
  ListInv
  StacksIntact
  TimesAgree
  ReportAddsUp
PROPERTIES
  LoopsAdvance
  ImplementsFifos
  LockComesFree
  ContextPreserved
  EntryAsSubmitted
