CONSTANTS
  max_clients = 2
  MaxTyped <- OneZero
  MaxRuns <- OneOne
  Talker = {0}
  Listener = {1}
  Stopper = {}
  MayStop = FALSE
SPECIFICATION Spec
INVARIANT NeverDry
CHECK_DEADLOCK FALSE
