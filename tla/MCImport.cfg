SPECIFICATION Spec
CONSTANTS
  g = g a1 = a1 a2 = a2 b1 = b1 b2 = b2 b3 = b3 m3 = m3 x2 = x2 t1 = t1 t2 = t2
  None = None
  Block <- MCBlock
  Genesis = g
  parent <- MCParent
  number <- MCNumber
  difficulty <- MCDifficulty
  MaxNumber = 3
  Tx = {t1, t2}
  txs <- MCTxs
  Chains <- MCChains
  Mined = {m3}
  Ahead = {b1}
  BadHeader = {}
  BadState = {x2}
  SetHeads = {}
  MaxFuture = 2
  CanCrash = FALSE
INVARIANTS TypeOK CanonMatchesHead TdSound LookupMatchesCanon HeadIsHeaviest
PROPERTY ImplementsForkChoice
