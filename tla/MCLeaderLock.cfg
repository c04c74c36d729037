SPECIFICATION LockSpec
CONSTANTS
  n1 = n1
  n2 = n2
  n3 = n3
  Node <- ThreeNodes
  Keepalive <- OneKeeper
  TTL = 2
  MaxFaults = 2
  NoNode = NoNode
  Gone = Gone
INVARIANTS GrantHolds OverlapIsOverrun LeaderKnows
PROPERTIES LeaseKept
