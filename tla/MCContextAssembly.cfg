SPECIFICATION FairSpec
CONSTANTS
  Requests = {r1, r2}
  Inputs <- MixedInputs
  Findings <- AnyFindings
  Profiles = {9, Null}
  Null = Null
  Odd = Odd
  MaxContext = 10
  Reserve = 4
  Personalization = 4
  Fresh = Fresh
  NoProfile = NoProfile
  Copies = Copies
  NoBundle = NoBundle
INVARIANTS
  TypeOK
  WithinBudget
  NewestKept
  TruncationTold
PROPERTIES
  FailuresContained
  BuildsEnd
CHECK_DEADLOCK FALSE
