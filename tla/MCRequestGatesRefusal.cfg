\* The status of a refused request.
SPECIFICATION Spec
CONSTANTS
  Requests = {r1}
  Clients = {c1}
  Tools = {}
  Known = {}
  Guarded = {}
  ReadOnly = {}
  Mode = "strict"
  Allowed = {}
  Permitting = TRUE
  Installed = {"rate_limit", "cors"}
  Nobody = Nobody
  Window = 2
  Limit <- OneForEach
  MaxTime = 1
INVARIANTS
  RefusalsAre429
CHECK_DEADLOCK FALSE
