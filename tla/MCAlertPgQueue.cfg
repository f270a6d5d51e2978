\* Two alerts, five operations; two statements may be in flight at once.
SPECIFICATION Spec
CONSTANTS
  a1 = a1
  a2 = a2
  u1 = u1
  u2 = u2
  Alerts = {a1, a2}
  Users = {u1, u2}
  None = None
  Connections = 2
  MaxTurns = 5
  MaxFailures = 1
  MaxRestarts = 1
SYMMETRY Symmetry
INVARIANTS
  TypeOK
  RowsSettle
\* Once the operations are used up and every statement has run, nothing is left.
CHECK_DEADLOCK FALSE
