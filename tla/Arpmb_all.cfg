SPECIFICATION FairSpec
CONSTANTS
  k1 = k1
  k2 = k2
  Keys <- MCKeys
  NoKey = NoKey
  Regions = {0}
  MaxAddr = 3
  CounterMax = 3
  Commands <- AllCommands
  StartBlocks <- Starts
  BlockCounts <- Counts
  FileBlocks = {2, 3}
  Geometries <- Sizes
  DefaultBlocks = 1
  MaxFaults = 2
  MaxForeign = 1
INVARIANTS
  TypeOK
  PrefixOnly
  CountersAgree
  ErrorLeavesKnownState
  TrueWrite
  TrueRead
  RefusedForAReason
  CrashOnlyAtTheStart
PROPERTY
  EndsUnlessEmpty
