SPECIFICATION Spec
CONSTANTS
  r1 = r1
  r2 = r2
  Request <- OneRequest
  Checker = Checker
  Threshold = 3
  Cooldown = 2
  ProbeEvery = 1
  MaxFlips = 1
  MaxBad = 3
PROPERTIES OpenIsSkipped
