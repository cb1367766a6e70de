SPECIFICATION FairSpec
CONSTANTS
  s1 = s1
  x1 = x1
  a1 = a1
  t1 = t1
  v1 = v1
  v2 = v2
  v3 = v3
  g1 = g1
  Tests = {s1, x1, a1, t1}
  Previews = {v1, v2, v3}
  Pings = {g1}
  TypeOf <- Types
  QueryOf <- Texts
  Mixes <- Together
  NoCall = NoCall
  MaxStalledCount = 1
INVARIANTS
  NothingIsLeft
  AnswerToldTheEffect
PROPERTIES
  CallsEnd
CHECK_DEADLOCK FALSE
