CONSTANTS
  MAX_CLIENTS = 1
  MAX_MSG = 1
  MaxTyped <- TwoOnly
  MaxRuns <- TwoOnly
  Stopper = {0}
  MaxGiven = 2
  MaxRegular <- TwoOnly
  MaxService <- FourOnly
  MayStop = TRUE
  Leftover = {"clean", "garbage", "overlong"}
SPECIFICATION Spec
INVARIANT FlagIsTruth
CHECK_DEADLOCK FALSE
