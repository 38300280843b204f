SPECIFICATION Spec
CONSTANTS
  k1 = k1
  k2 = k2
  Keys <- MCKeys
  NoKey = NoKey
  Regions = {0}
  MaxAddr = 3
  CounterMax = 3
  Commands = {"WRITE_RPMB"}
  StartBlocks <- Starts
  BlockCounts <- Counts
  FileBlocks = {2, 3}
  Geometries <- Sizes
  DefaultBlocks = 1
  MaxFaults = 0
  MaxForeign = 0
INVARIANT
  AuthenticMac
