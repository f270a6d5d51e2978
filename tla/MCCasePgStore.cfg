\* One case with one item of each kind; two statements may be in flight at once.
SPECIFICATION FairSpec
CONSTANTS
  k1 = k1
  a1 = a1
  cas1 = cas1
  cap1 = cap1
  None = None
  Cases = {k1}
  ActionIds = {a1}
  CasIds = {cas1}
  CapIds = {cap1}
  CaseOf <- OneCase
  Connections = 2
  MaxTurns = 4
  MaxFailures = 1
  MaxRestarts = 1
INVARIANTS
  TypeOK
  Converges
  ApprovalsAgree
  RowsNeverAhead
PROPERTIES
  CatchesUp
\* Once the handlers are used up and every statement has run, nothing is left.
CHECK_DEADLOCK FALSE
