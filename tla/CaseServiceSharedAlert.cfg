\* Two tenants whose callers post the same alert id.
SPECIFICATION Spec
CONSTANTS
  k1 = k1
  t1 = t1
  t2 = t2
  None = None
  Cases = {k1}
  Tenants = {t1, t2}
  Users = {u1}
  Outcomes = {cured}
  CasIds = {cas1}
  CapIds = {cap1}
  AlertsOf <- SharedAlert
  MaxActions = 1
  MaxCrashes = 0
PROPERTIES
  TenantCasesIsolated
CHECK_DEADLOCK FALSE
