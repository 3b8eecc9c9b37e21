SPECIFICATION MCSpec
CONSTANTS
  None = None
  Block <- Blocks
  Genesis = "g"
  parent <- Parents
  number <- NumberOf
  difficulty <- Difficulties
  MaxNumber = 2
  Tx = {"t1"}
  txs <- Bodies
  Peer = {"honest", "other"}
  Honest = {"honest"}
  Unsound = {"b1"}
  HashLimit = 2
  BlockLimit = 1
  MaxUncleDist = 0
  MaxQueueDist = 1
  MaxOffers = 3
  MaxBatch = 1
INVARIANTS FetcherSound HonestKept StateSound DatabaseClosed
CHECK_DEADLOCK FALSE
