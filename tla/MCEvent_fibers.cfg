SPECIFICATION EventSpec
CONSTANTS
  MS_IN_S = 2
  SLEEPS <- MCSleeps
  HORIZON = 20
  WAITERS = {starter, waiter}
  STARTER = starter
  EVENTER = eventer
  CREW = 2
CHECK_DEADLOCK FALSE
INVARIANTS
  EventTypeOK
  WaitersSeeResult
PROPERTIES
  EarlyByLessThanASecond
  EveryFiberExits
  KeepsEventPromise
