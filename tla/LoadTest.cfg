CONSTANTS
  c1 = c1
  c2 = c2
  Client <- TwoClients
  Steady <- FirstClient
  Impatient <- SecondClient
  MaxTurns <- TwoAndOne
  size_alloc = 2
  LISTEN_BACKLOG = 1
  START_ALLOC = 3
  MaxErrors = 1
  MaxAcceptErrors = 1
  MayFail <- LastOfFirst
SPECIFICATION FairSpec
INVARIANTS OwnClient AloneAtExit OneAtATime NobodyForgotten CountedWasAnswered
PROPERTIES IsServed StopsUnlessWaiting TestEnds
CHECK_DEADLOCK FALSE
