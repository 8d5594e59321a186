SPECIFICATION FairSpec
CONSTANT
  Requests = {r1, r2, r3}
INVARIANT
  NilMeansGraceful
PROPERTIES
  StartReturns
  GoroutineEnds
CHECK_DEADLOCK FALSE
