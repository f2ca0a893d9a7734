CONSTANTS
  max_clients = 2
  MaxTyped <- OneZero
  MaxRuns <- OneOne
  Talker = {0}
  Listener = {1}
  Stopper = {}
  MayStop = FALSE
SPECIFICATION Spec
INVARIANT OneInOut
CHECK_DEADLOCK FALSE
