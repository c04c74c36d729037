SPECIFICATION BookSpec
CONSTANTS
  Scale = 2
  Points = 4
  LpCharge = 1
  OrderPrices <- BrokenPrices
  Depths = {1, 2}
  Tolerances = {2}
  MaxOrders = 3
  MaxHeld = 4
INVARIANT PoolUntouched
CHECK_DEADLOCK FALSE
