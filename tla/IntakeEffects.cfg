SPECIFICATION Spec
CONSTANTS
  p1 = p1
  p2 = p2
  m1 = m1
  t1 = t1
  k1 = k1
  NoKey = NoKey
  NoCall = NoCall
  Posts <- PairPosts
  Retries = {}
  Manual = {}
  Keys = {k1}
  KeyOf <- PairKeyOf
  MaxStalledCount = 1
  MaxCrashes = 0
  MaxRestarts = 0
  MaxFaults = 1
INVARIANT
  EffectsOncePerKey
CHECK_DEADLOCK FALSE
