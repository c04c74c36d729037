SPECIFICATION GuardSpec
CONSTANTS
  a = a
  b = b
  c = c
  d = d
  swap = swap
  deposit = deposit
  People <- Four
  Ops <- TwoOps
  Founders <- Distinct
  MaxSigs = 3
  MaxAdmins = 4
  Embedded = FALSE
INVARIANTS NoTwins
CHECK_DEADLOCK FALSE
