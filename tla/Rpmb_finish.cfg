SPECIFICATION Spec
CONSTANTS
  k1 = k1
  k2 = k2
  Keys <- MCKeys
  NoKey = NoKey
  Regions = {0}
  MaxAddr = 3
  CounterMax = 3
  Commands = {"WRITE_RPMB"}
  StartBlocks = {0}
  BlockCounts = {2}
  FileBlocks = {2}
  Geometries = {1}
  SgVersions = {4}
  DefaultBlocks = 3
  MaxRetry = 3
  MaxFaults = 3
  MaxForeign = 0
INVARIANT
  FinishMeansWritten
