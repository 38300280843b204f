SPECIFICATION Spec
CONSTANTS
  ByteSpan = 4
  WordSpan = 6
  AttrTable <- MCAttrTable
  AttrMax = 3
  FlagTable <- MCFlagTable
  MibTable <- MCMibTable
  MibMax = 3
  OddValues = {3}
  Values = {0, 1, 2, 3, 4, 5}
  Written <- MCWritten
  Devices <- MCDevices
  Idns = {0, 1, 2, 3, 4, 5, 6}
  Retries = 2
  MaxFaults = 2
CHECK_DEADLOCK FALSE
INVARIANTS
  TrueWrite
  ReadAllComplete
  ExitStatus
PROPERTIES
  QueryEnds
