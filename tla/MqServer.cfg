CONSTANTS
  MAX_CLIENTS = 3
  MAX_MSG = 2
  MaxRegular <- Talk
  MaxService <- Come
  MayStop = TRUE
  Leftover = {"garbage", "overlong"}
SPECIFICATION ServerSideFairSpec
INVARIANTS NoStaleDispatch FlagIsParity LeftoverOnlyFirst
PROPERTIES IsChatRoom ShutdownCompletes QueueIsServed
CHECK_DEADLOCK FALSE
