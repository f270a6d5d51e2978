\* Overlapping evaluations, no failure and no restart; the score service always answers the same.
SPECIFICATION Spec
CONSTANTS
  f1 = f1
  f2 = f2
  t1 = t1
  t2 = t2
  u1 = u1
  None = None
  Firings = {f1, f2}
  Tenants = {t1, t2}
  Users = {u1}
  Calls = {c1, c2}
  RuleSeverity <- Severities
  TenantOf <- Owners
  Levels = {None}
  Pool <- AnalystPool
  MaxEmits = 2
  MaxCrashes = 0
INVARIANTS
  EmittedOnce
SYMMETRY SymmetricCalls
CHECK_DEADLOCK FALSE
