\* One case; no upset is needed.
SPECIFICATION Spec
CONSTANTS
  c1 = c1
  t1 = t1
  t2 = t2
  p1 = p1
  p2 = p2
  Cases = {c1}
  Tenants = {t1, t2}
  TenantOf <- OneCase
  Users = {u1, u2}
  Priorities = {p1, p2}
  Windows <- TwoWindows
  Threshold = 80
  None = None
  MaxTime = 1
  MaxMoves = 3
  Cron = cron
  Requests = {q1}
  RuleIds = {r1}
  Chains <- TwoChains
  Cap = 2
  Window = 1
  Other = Other
  MaxUpsets = 0
INVARIANTS
  HistoryTold
