CONSTANTS
  p = p  q = q  None = None
  Peers = {p, q}
  Outbound = {p, q}
  Liars = {q}
  FalseClaims <- FalseTip
  Top = 2
  MaxItems = 1
  MaxServed = 1
  MaxStallMarks = 1
  MaxReorgDepth = 1
  HasBootstrap = TRUE
  Polling = FALSE
  MaxInfos = 2
  MaxNeeds = 0
  MaxFaults = 1
  MaxDrops = 1
  MaxAborts = 1
  StartTips <- RisingTips
SPECIFICATION Spec
INVARIANT StateShowsPeers
INVARIANT HonestNeverPenalised
INVARIANT SyncedIsApplied
PROPERTY GateWaits
