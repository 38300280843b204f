SPECIFICATION Spec
CONSTANTS
  k1 = k1
  k2 = k2
  Keys <- MCKeys
  NoKey = NoKey
  Regions = {0}
  MaxAddr = 2
  CounterMax = 3
  Commands = {"WRITE_RPMB"}
  StartBlocks = {0, 1}
  BlockCounts = {3}
  FileBlocks = {2, 3}
  Geometries <- Sizes
  SgVersions = {3}
  DefaultBlocks = 3
  MaxRetry = 2
  MaxFaults = 3
  MaxForeign = 2
INVARIANTS
  PrefixOnly
  PrefixDespiteOthers
  OneCounterPerChunk
  TrueWrite
  ErrorLeavesKnownState
  FaultFreeWriteSucceeds
