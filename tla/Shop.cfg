CONSTANTS
  COUNT_OF_SHOPS = 2
  SHOP_LOW = 0
  SHOP_UP = 1
  PROD_FILLING = 2
  BUY_NEED = 2
  MaxStock = 3
  b1 = b1
  b2 = b2
  p1 = p1
  Buyer <- Buyers
  Producer <- Producers
SPECIFICATION FairSpec
INVARIANTS LockInv
PROPERTIES IsMarket Released MainExits
CHECK_DEADLOCK FALSE
