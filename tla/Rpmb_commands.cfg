SPECIFICATION FairSpec
CONSTANTS
  k1 = k1
  k2 = k2
  Keys = {k1}
  NoKey = NoKey
  Regions = {0, 1}
  MaxAddr = 2
  CounterMax = 1
  Commands <- Queries
  StartBlocks <- Starts
  BlockCounts <- Counts
  FileBlocks = {0, 1}
  Geometries <- AllSizes
  SgVersions = {4}
  DefaultBlocks = 3
  MaxRetry = 2
  MaxFaults = 2
  MaxForeign = 0
INVARIANTS
  TrueRead
  TrueMessage
PROPERTY
  Terminates
