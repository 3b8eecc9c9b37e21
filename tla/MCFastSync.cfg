SPECIFICATION MCSpec
CONSTANTS
  g = g a1 = a1 a2 = a2 a3 = a3 b1 = b1 b2 = b2 b3 = b3 c3 = c3 x3 = x3 t1 = t1
  None = None
  Block <- MCBlock
  Genesis = g
  parent <- MCParent
  number <- MCNumber
  difficulty <- MCDifficulty
  MaxNumber = 3
  Tx = {t1}
  txs <- MCTxs
  Chains = {}
  Mined = {}
  Ahead = {}
  BadHeader = {x3}
  BadState = {}
  SetHeads = {}
  MaxFuture = 2
  CanCrash = FALSE
  Paths <- LatePaths
  Pivots = {2}
  SafetyNet = 2
  ForceVerify = 1
  CriticalTrials = 3
INVARIANTS FTypeOK LateHeads LiveTdSound HeadsSurvive
PROPERTY PivotLocked
CHECK_DEADLOCK FALSE
