\* The profile object two requests of a user share through the memory cache.
SPECIFICATION Spec
CONSTANTS
  Requests = {r1, r2}
  Inputs <- ProfileInputs
  Findings <- SomeFindings
  Profiles = {9}
  Null = Null
  Odd = Odd
  MaxContext = 10
  Reserve = 4
  Personalization = 4
  Fresh = Fresh
  NoProfile = NoProfile
  Copies = Copies
  NoBundle = NoBundle
INVARIANTS
  CutProfileTold
CHECK_DEADLOCK FALSE
