CONSTANTS
  p1 = p1
  p2 = p2
  Pages = {p1, p2}
  NoPage = NoPage
  NoChain = NoChain
  NoBase = NoBase
  NoJob = NoJob
  LastChain = 2
  Coins = 1
  Refusable = {1}
  Exact = {2}
  MaxTxs = 2
  MaxInputs = 2
  MaxEvents = 1
SPECIFICATION FairSpec
INVARIANT ViewSound
INVARIANT RefusedRightly
PROPERTY WaitingEnds
