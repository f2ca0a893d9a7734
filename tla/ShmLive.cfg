CONSTANTS
  max_clients = 1
  MaxTyped <- Once
  MaxRuns <- Once
  Talker = {0}
  Listener = {0}
  Stopper = {0}
  MayStop = TRUE
SPECIFICATION FairSpec
INVARIANT InExclusive
PROPERTIES IsMailbox ClientEnds ServerEnds
CHECK_DEADLOCK FALSE
