CONSTANTS
  a1 = a1  a2 = a2  a3 = a3  b1 = b1  b2 = b2  b3 = b3  c2 = c2  c3 = c3
  Root = Root  Self = Self  NoClaim = NoClaim  None = None
  Peers = {p}
  Blocks = {a1, a2, a3, b1, b2, b3}
  Chain <- MCChain
  Work <- MCDistinctWork
  BadHeaders = {}
  EarlyHeaders = {}
  ForgedBodies = {}
  InvalidBodies = {}
  AbortingBodies = {}
  MaxReorgDepth = 2
  PageSize = 1
  PageInputs <- ShortPages
  AnswerInputs <- SingleBlocks
  GossipInputs = {a1, a2, a3, b1, b2, b3}
  MinedInputs = {a1, a2, a3, b1, b2, b3}
  BlockFetchWindow = 3
  MinimumChainWork = 0
  MaxCrashes = 0
SPECIFICATION Spec
INVARIANT BestIsOneChain
INVARIANT BestNotLighter
INVARIANT NeverHalts
