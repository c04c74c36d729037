SPECIFICATION CollectorFairSpec
CONSTANTS
  n1 = n1
  n2 = n2
  Node <- TwoNodes
  Keepalive = {}
  TTL = 1
  MaxFaults = 1
  NoNode = NoNode
  Gone = Gone
  MaxLedger = 3
  MaxLag = 1
  MaxHorizon = 2
INVARIANTS NothingMissed
PROPERTIES WatermarkAdvances HeadCollected AlwaysLedAgain
