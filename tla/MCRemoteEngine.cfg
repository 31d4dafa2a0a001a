SPECIFICATION FairSpec
CONSTANTS
  Calls = {c1, c2}
  Keys = {k1, k2}
  NoKey = NoKey
  NoValue = NoValue
  Threshold = 2
  Recovery = 1
  TTL = 1
  Capacity = 1
INVARIANTS
  TypeOK
  BreakerConsistent
  ServedFresh
PROPERTIES
  RespectsPause
  CallsReturn
CHECK_DEADLOCK FALSE
