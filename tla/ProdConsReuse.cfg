CONSTANTS
  c1 = c1
  c2 = c2
  c3 = c3
  Client <- ThreeClients
  start_alloc_size = 3
  MAX_MSG = 2
  MaxAcceptErrors = 0
  SleepIsEnough = TRUE
SPECIFICATION Spec
INVARIANT ReusedWhenFree
CHECK_DEADLOCK FALSE
