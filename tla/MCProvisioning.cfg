SPECIFICATION FairSpec
CONSTANTS
  m1 = m1
  m2 = m2
  None = None
  Failed = Failed
  Absent = Absent
  Broken = Broken
  Requests = {r1, r2}
  NumFiles = 2
  Ids = {"calm", "witty"}
  Specs <- MCSpecs
  Creatable <- MCCreatable
  ContextSpecs <- MCContext
  Definitions <- MCDefinitions
INVARIANTS
  TypeOK
  ClosedOnceIdle
PROPERTIES
  SharesEngines
  ReloadKeepsServing
  EverythingEnds
CHECK_DEADLOCK FALSE
