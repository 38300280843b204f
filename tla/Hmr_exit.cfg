SPECIFICATION Spec
CONSTANTS
  Units = 2
  MaxTotal = 2
  RetryCount = 1
  MaxRuns = 1
  MaxFaults = 0
  MaxAborts = 0
INVARIANT
  ZeroMeansSuccess
