SPECIFICATION Spec
CONSTANTS
  Requests = {r1, r2}
  Clients = {c1, c2}
  Tools = {t1, t2}
  Known = {t1, t2}
  Guarded = {t1}
  ReadOnly = {t1}
  Mode = "strict"
  Allowed = {t1, t2}
  Permitting = TRUE
  Installed = {"rate_limit", "cors"}
  Nobody = Nobody
  Window = 2
  Limit <- OneForEach
  MaxTime = 2
SYMMETRY Alike
INVARIANTS
  TypeOK
  WindowBound
  HandlerErrorsEnveloped
PROPERTIES
  RefusedWhenUsedUp
CHECK_DEADLOCK FALSE
