\* Two overlapping evaluations of two firings, scored High or not at all, three messages and a restart.
SPECIFICATION Spec
CONSTANTS
  f1 = f1
  f2 = f2
  t1 = t1
  t2 = t2
  u1 = u1
  None = None
  Firings = {f1, f2}
  Tenants = {t1, t2}
  Users = {u1}
  Calls = {c1, c2}
  RuleSeverity <- Severities
  TenantOf <- Owners
  Levels = {None, "High"}
  Pool <- AnalystPool
  MaxEmits = 3
  MaxCrashes = 1
INVARIANTS
  TypeOK
  IndexExact
  QueuedWasEmitted
  FileIsCurrent
PROPERTIES
  ClosedStaysClosed
  QueueImplemented
SYMMETRY SymmetricCalls
