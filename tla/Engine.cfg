SPECIFICATION FairSpec
CONSTANTS
  N = 2
  RetryCount <- OneRetryEach
  Timed <- FirstTimed
  TriggerData = TriggerData
  NoData = NoData
  MaxStalledCount = 1
  MaxCrashes = 2
  MaxFaults = 2
INVARIANTS
  LogsTellTheChain
  AttemptsAreTold
  EndIsTold
PROPERTIES
  RunsTheChain
  EndsOrHangs
  RowsAreFinal
CHECK_DEADLOCK FALSE
