\* Two actions, one screen and two drains that may overlap.
SPECIFICATION Spec
CONSTANTS
  Keys = {k1, k2}
  Screens = {s1}
  Drains = {d1, d2}
  None = None
  MaxRetries = 2
  MaxEnqueues = 2
  MaxOverlaps = 1
  MaxUpsets = 2
INVARIANTS
  TypeOK
  NothingLost
  InFlightHeld
  FirstTriesInOrder
  
PROPERTIES
  BudgetSpent
\* When nothing is pending and the bounds are reached, nothing is left to do.
CHECK_DEADLOCK FALSE
