SPECIFICATION Spec
CONSTANTS
  Files = {"f1", "f2", "f3"}
  FileSize <- MCFileSize
  HistoryIds = {"h1", "h2"}
  Span = 8
  HostMax = 6
  VendorIds = {0}
  VendorSize = 4
  Align = 2
  MaxIo = 4
  Word = 32
  ByteSpan = 4
  EntrySize = 2
  MaxEntries = 2
  BlockSize = 2
  SizeOptions <- MCSizes
  Offsets = {1, 8}
  Lengths = {0, 3, 7}
  Directories <- MCDirectories
  MaxRuns = 2
  MaxFaults = 2
CHECK_DEADLOCK FALSE
INVARIANTS
  FlashedPrefix
  HistoryPlaced
  TrueMessage
  RefusedForAReason
PROPERTIES
  RunsEnd
