\* The cases service dies once between the store and the outbox.
SPECIFICATION FairSpec
CONSTANTS
  k1 = k1
  k2 = k2
  k3 = k3
  Cases = {k1, k2, k3}
  Passes = {p1, p2}
  SeverityOf <- MixedSeverity
  LoanCases = {k2}
  MaxEvents = 2
  MaxLost = 1
  MaxFailures = 0
PROPERTIES
  StoredCasesGetRouted
