SPECIFICATION FairSpec
CONSTANTS
  TestCount = 2
  ErrorLimit = 2
  Capabilities = {0, 1}
  TimingSteps = {1}
  VoltageSteps = {2}
  GivenSteps = {1}
  MaxFaults = 1
  MaxMeddling = 1
INVARIANTS
  TypeOK
  SamplesReal
  SweepComplete
  MonitorsOff
PROPERTY
  EndsUnlessDisabled
