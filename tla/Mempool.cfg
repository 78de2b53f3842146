CONSTANTS
  NoPost = NoPost
  Tx <- MCTx
  GenesisBoxes = {"x", "k", "m"}
  PeerBlocks <- MCPeerBlocks
  CreditCap = 2
  KarmaCap = 2
  Expiry = 1
  BodyBudget = 3
  Trims = {0, 1}
  MaxReorgDepth = 2
  MaxHeight = 2
  MaxRows = 3
SPECIFICATION Spec
INVARIANT PoolSound
INVARIANT TemplateApplies
PROPERTY SweepTakesNothing
PROPERTY BuildEnds
CHECK_DEADLOCK FALSE
