SPECIFICATION MCSpec
CONSTANTS
  Bit = {"x"}
  Data <- Vectors
  Filters <- BloomFilters
  SectionSize = 2
  FirstBlock = 1
  LastBlock = 5
  Indexed = 2
  Buffer = 1
  Retriever = {"r", "q"}
  Batch = 1
  MayFail = TRUE
INVARIANTS UninstallReturns
CHECK_DEADLOCK FALSE
