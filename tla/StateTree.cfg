CONSTANTS
  k = k  c = c  b = b  p = p  post = post  withdraw = withdraw  rival = rival
  Records = {k}
  Boxes = {c, b}
  Posts = {p}
  Txs = {post, withdraw, rival}
  Tx <- MCTx
  Menu <- MCMenu
  MaxReorgDepth = 2
  MaxProofHistory = 3
  ProofWindow = 3
  WindowNodes = 8
  MaxHeight = 4
SPECIFICATION Spec
INVARIANT StorageExact
INVARIANT NeverFailStops
PROPERTY BodiesKept
PROPERTY RefinesAppliedChain
CHECK_DEADLOCK FALSE
