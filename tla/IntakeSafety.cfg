SPECIFICATION Spec
CONSTANTS
  p1 = p1
  p2 = p2
  m1 = m1
  t1 = t1
  k1 = k1
  NoKey = NoKey
  NoCall = NoCall
  Posts <- PairPosts
  Retries = {t1}
  Manual = {}
  Keys = {k1}
  KeyOf <- PairKeyOf
  MaxStalledCount = 1
  MaxCrashes = 1
  MaxRestarts = 1
  MaxFaults = 2
SYMMETRY SamePosts
INVARIANTS
  KeyHasItsExecution
  CreatedIsKept
  RunsAreAccounted
PROPERTIES
  KeepsPromise
  TerminalLeftOnlyByRedelivery
CHECK_DEADLOCK FALSE
