CONSTANTS
  m1 = m1  m2 = m2  m3 = m3  m4 = m4  f3 = f3  x4 = x4  o4 = o4
  a = a  h = h  l = l
  Root = Root
  Blocks = {m1, m2, m3, m4, f3, x4, o4}
  Chain <- MCChain
  Work <- MCWork
  BadHeaders = {x4, o4}
  OffSchedule = {o4}
  EarlyHeaders = {m4}
  ForgedBodies = {m4}
  InvalidBodies = {}
  AbortingBodies = {}
  K = 2
  MinProved = 3
  Keys = {a, h, l}
  Anchors = {a}
  Api = {a}
  StartList <- MCStartList
  Dialable = {a, h, l}
  Honest = {a, h}
  LyingHosts = {a}
  HonestTips = {m4, f3}
  LiarTips = {m4, x4}
  StartTips <- MCStartTips
  HandKeys = {h}
  MaxEvents = 2
SPECIFICATION Spec
INVARIANT HonestKept
INVARIANT StatusTellsTip
INVARIANT CheckFindsHeaviest
INVARIANT ChecksGoOn
