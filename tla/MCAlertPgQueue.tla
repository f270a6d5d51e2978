---------------------------- MODULE MCAlertPgQueue ----------------------------
(***************************************************************************)
(* AlertPgQueue for TLC: two alerts, two analysts, two connections.        *)
(***************************************************************************)
EXTENDS AlertPgQueue, TLC

CONSTANTS a1, a2, u1, u2

\* Alerts are interchangeable, and so are analysts.
Symmetry == Permutations({a1, a2}) \cup Permutations({u1, u2})

=============================================================================
