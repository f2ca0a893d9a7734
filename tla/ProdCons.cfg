CONSTANTS
  c1 = c1
  c2 = c2
  c3 = c3
  Client <- TwoClients
  start_alloc_size = 3
  MAX_MSG = 1
  MaxAcceptErrors = 1
  SleepIsEnough = FALSE
SPECIFICATION FairSpec
INVARIANTS RightClient SpareThread AllClosedAtExit
PROPERTIES IsService QueuedIsAnswered StopsUnlessWaiting
CHECK_DEADLOCK FALSE
