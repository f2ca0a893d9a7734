CONSTANTS
  MAX_CLIENTS = 2
  MAX_MSG = 1
  MaxTyped <- Two
  MaxRuns <- Two
  Stopper = {0}
  MaxGiven = 1
SPECIFICATION ClientSideFairSpec
INVARIANTS HandOff EachWordOnce
PROPERTIES ClientEnds WordIsPosted
CHECK_DEADLOCK FALSE
