SPECIFICATION FairSpec
CONSTANTS
  Units = 3
  MaxTotal = 3
  RetryCount = 2
  MaxRuns = 3
  MaxFaults = 2
  MaxAborts = 1
INVARIANTS
  TypeOK
  OneMethodPerCycle
  WearBound
  VerifiedMeansRefreshed
  EnablesWhenQuiet
PROPERTIES
  PassesWhenDone
  EndsUnlessAborted
