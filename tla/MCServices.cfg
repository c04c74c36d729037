SPECIFICATION ServicesSpec
CONSTANTS
  r1 = r1
  r2 = r2
  n1 = n1
  n2 = n2
  e1 = e1
  e2 = e2
  e3 = e3
  s1 = s1
  s2 = s2
  Request <- TwoRequests
  Checker = Checker
  Threshold = 3
  Cooldown = 2
  ProbeEvery = 1
  MaxFlips = 2
  MaxBad = 2
  Nodes <- TwoNodes
  TripAfter = 3
  TripFor = 2
  HeardFor = 2
  MaxOutages = 2
  Events <- ThreeEvents
  Subscribers <- TwoSubscribers
  QueueCapacity = 1
  MaxAttempts = 2
  Idle = idle
 
PROPERTIES    EventsGetTheirTurn
