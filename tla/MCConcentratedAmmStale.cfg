SPECIFICATION AmmSpec
CONSTANTS
  provider = provider
  Providers = {provider}
  Spans <- TwoSpans
  Spacing = 2
  WordSize = 2
  StartTick = 1
  Unit = 1
  Portions = {1, 2}
  Earnings = {0, 2}
  MaxGross = 3
  MaxPaid = 2
INVARIANT NothingWhereNothingCounts
CHECK_DEADLOCK FALSE
