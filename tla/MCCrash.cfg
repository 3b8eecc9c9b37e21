SPECIFICATION FairSpec
CONSTANTS
  g = g a1 = a1 a2 = a2 b1 = b1 b2 = b2 b3 = b3 m3 = m3 x2 = x2 t1 = t1 t2 = t2
  None = None
  Block <- SmallBlock
  Genesis = g
  parent <- SmallParent
  number <- SmallNumber
  difficulty <- SmallDifficulty
  MaxNumber = 2
  Tx = {t1, t2}
  txs <- SmallTxs
  Chains <- SmallChains
  Mined = {a1}
  Ahead = {}
  BadHeader = {}
  BadState = {}
  SetHeads = {}
  MaxFuture = 2
  CanCrash = TRUE
INVARIANTS HeadComplete HeadersHaveTd Bootable
PROPERTY Restarts
