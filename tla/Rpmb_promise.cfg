SPECIFICATION FairSpec
CONSTANTS
  k1 = k1
  k2 = k2
  Keys <- MCKeys
  NoKey = NoKey
  Regions = {0}
  MaxAddr = 3
  CounterMax = 3
  Commands = {"WRITE_RPMB"}
  StartBlocks <- Starts
  BlockCounts <- Counts
  FileBlocks = {2, 3}
  Geometries <- SizesAndZero
  SgVersions = {4}
  DefaultBlocks = 3
  MaxRetry = 3
  MaxFaults = 2
  MaxForeign = 0
PROPERTY
  KeepsPromise
