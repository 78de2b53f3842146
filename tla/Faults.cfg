CONSTANTS
  a1 = a1  a2 = a2  a3 = a3  b1 = b1  b2 = b2  b3 = b3  c2 = c2  c3 = c3
  Root = Root  Self = Self  NoClaim = NoClaim  None = None
  Peers = {p, q}
  Blocks = {a1, a2, a3, b1, b2, c2}
  Chain <- MCChain
  Work <- MCDistinctWork
  BadHeaders = {b2}
  EarlyHeaders = {a3}
  ForgedBodies = {a2}
  InvalidBodies = {b1}
  AbortingBodies = {c2}
  MaxReorgDepth = 1
  PageSize = 4
  PageInputs <- FaultyPages
  AnswerInputs <- BlockAnswers
  GossipInputs = {a1, a2, a3, b1, b2, c2}
  MinedInputs = {}
  BlockFetchWindow = 3
  MinimumChainWork = 25
  MaxCrashes = 1
SPECIFICATION Spec
INVARIANT AppliedRowsKept
INVARIANT StagedHasHeader
INVARIANT NeverStuck
INVARIANT SwitchesOnceStaged
INVARIANT RevertsCovered
