CONSTANTS
  c1 = c1
  c2 = c2
  c3 = c3
  Client <- ThreeClients
  Broken <- FirstClient
  start_alloc_size = 2
  MaxAcceptErrors = 1
SPECIFICATION FairSpec
INVARIANTS HandOver NobodyForgotten
PROPERTIES IsService IsAnswered StopsUnlessWaiting
CHECK_DEADLOCK FALSE
