\* One case of tenant t1 (two CAPs, one CAS); tenant t2 tries the handlers on it.
SPECIFICATION Spec
CONSTANTS
  k1 = k1
  t1 = t1
  t2 = t2
  None = None
  Cases = {k1}
  Tenants = {t1, t2}
  Users = {u1, u2}
  Outcomes = {cured, defaulted}
  CasIds = {cas1}
  CapIds = {cap1, cap2}
  AlertsOf <- OnePoster
  MaxActions = 2
  MaxCrashes = 2
INVARIANTS
  TypeOK
  FieldsAgree
  DecisionsAttributed
  PublishedAgrees
PROPERTIES
  DecisionsFinal
  CloseNeedsCapsDone
  ClosedIsFrozen
  EventsChain
  TenantCasesIsolated
\* A closed case with every CAS and CAP decided, and no crash left, is the end.
CHECK_DEADLOCK FALSE
