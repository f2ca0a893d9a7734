CONSTANTS
  MAX_CLIENTS = 2
  MAX_MSG = 1
  MaxTyped <- TwoZero
  MaxRuns <- OneOne
  Stopper = {}
  MaxGiven = 2
  MaxRegular <- TwoZero
  MaxService <- TwoOnly
  MayStop = FALSE
  Leftover = {"clean"}
SPECIFICATION Spec
PROPERTIES ServerView ClientView
CHECK_DEADLOCK FALSE
