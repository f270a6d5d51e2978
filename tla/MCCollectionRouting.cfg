\* Two passes at once over up to four events, with one lost event and two failures.
SPECIFICATION FairSpec
CONSTANTS
  k1 = k1
  k2 = k2
  k3 = k3
  Cases = {k1, k2, k3}
  Passes = {p1, p2}
  SeverityOf <- MixedSeverity
  LoanCases = {k2}
  MaxEvents = 4
  MaxLost = 1
  MaxFailures = 2
INVARIANTS
  TypeOK
  RoutedOnce
  CaughtUp
  PassLeavesNothing
  RoutesFollowPolicy
PROPERTIES
  EventsGetRouted
