\* One evaluation at a time, no restart; the score service may be down.
SPECIFICATION Spec
CONSTANTS
  f1 = f1
  f2 = f2
  t1 = t1
  t2 = t2
  u1 = u1
  None = None
  Firings = {f1, f2}
  Tenants = {t1, t2}
  Users = {u1}
  Calls = {c1}
  RuleSeverity <- Severities
  TenantOf <- Owners
  Levels = {None, "High"}
  Pool <- AnalystPool
  MaxEmits = 2
  MaxCrashes = 0
INVARIANTS
  OneAlertPerFiring
SYMMETRY SymmetricCalls
CHECK_DEADLOCK FALSE
