CONSTANTS
  p = p  q = q  None = None
  Peers = {p}
  Outbound = {p}
  Liars = {}
  FalseClaims <- FalseTip
  Top = 2
  MaxItems = 1
  MaxServed = 1
  MaxStallMarks = 1
  MaxReorgDepth = 1
  HasBootstrap = TRUE
  Polling = TRUE
  MaxInfos = 0
  MaxNeeds = 1
  MaxFaults = 2
  MaxDrops = 2
  MaxAborts = 0
  StartTips <- AnyTips
SPECIFICATION FairSpec
PROPERTY CatchesUp
