CONSTANTS
  a1 = a1  a2 = a2  a3 = a3  b1 = b1  b2 = b2  b3 = b3  c2 = c2  c3 = c3
  Root = Root  Self = Self  NoClaim = NoClaim  None = None
  Peers = {p, q}
  Honest = p
  HonestTip = c3
  Blocks = {a1, a2, a3, c2, c3}
  Chain <- MCChain
  Work <- MCDistinctWork
  BadHeaders = {}
  EarlyHeaders = {}
  ForgedBodies = {}
  InvalidBodies = {a3}
  AbortingBodies = {}
  MaxReorgDepth = 2
  PageSize = 4
  PageInputs <- SettledPages
  AnswerInputs <- SingleBlocks
  GossipInputs = {a1, a2, a3, c2, c3}
  MinedInputs = {a1, a2, a3, c2, c3}
  BlockFetchWindow = 3
  MinimumChainWork = 0
  MaxCrashes = 0
SPECIFICATION FairSpec
PROPERTY Converges
