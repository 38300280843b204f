SPECIFICATION BothSpec
CONSTANTS
  k1 = k1
  k2 = k2
  Keys <- MCKeys
  NoKey = NoKey
  Regions = {0}
  MaxAddr = 3
  CounterMax = 1
  Commands = {"READ_RPMB"}
  StartBlocks <- Starts
  BlockCounts <- Counts
  FileBlocks = {0}
  Geometries = {1}
  SgVersions = {4}
  DefaultBlocks = 3
  MaxRetry = 3
  MaxFaults = 0
  MaxForeign = 0
INVARIANT
  HelpDefaults
