SPECIFICATION FairSpec
CONSTANTS
  p1 = p1
  p2 = p2
  m1 = m1
  t1 = t1
  k1 = k1
  NoKey = NoKey
  NoCall = NoCall
  Posts <- MixedPosts
  Retries = {}
  Manual = {m1}
  Keys = {k1}
  KeyOf <- MixedKeyOf
  MaxStalledCount = 1
  MaxCrashes = 1
  MaxRestarts = 1
  MaxFaults = 1
PROPERTIES
  AcceptedRunsToEnd
  EveryCallEnds
CHECK_DEADLOCK FALSE
