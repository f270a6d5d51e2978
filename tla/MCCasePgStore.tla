--------------------------- MODULE MCCasePgStore ---------------------------
(***************************************************************************)
(* CasePgStore for TLC: one case with an action, a CAS and a CAP, so that  *)
(* its statements can overtake each other on the pool's connections.       *)
(***************************************************************************)
EXTENDS CasePgStore, TLC

CONSTANTS k1, a1, cas1, cap1

OneCase == [i \in {a1, cas1, cap1} |-> k1]

=============================================================================
