--------------------------- MODULE MCAlertIntake ---------------------------
(***************************************************************************)
(* AlertIntake for TLC: a medium firing, which a High score moves to the   *)
(* critical bucket, and a critical one.  Calls are interchangeable.        *)
(***************************************************************************)
EXTENDS AlertIntake, TLC

CONSTANTS f1, f2, t1, t2, u1

Severities == (f1 :> "medium") @@ (f2 :> "critical")
Owners == (f1 :> t1) @@ (f2 :> t2)
AnalystPool == <<u1>>
SymmetricCalls == Permutations(Calls)

=============================================================================
