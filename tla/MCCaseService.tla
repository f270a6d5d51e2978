--------------------------- MODULE MCCaseService ---------------------------
(***************************************************************************)
(* CaseService for TLC.  Cases share no state, so one case is enough to    *)
(* meet every interleaving of handlers on it; the second tenant either     *)
(* only calls handlers on the first one's case or posts the same alert.    *)
(***************************************************************************)
EXTENDS CaseService, TLC

CONSTANTS k1, t1, t2

OnePoster == (t1 :> {k1}) @@ (t2 :> {})
SharedAlert == (t1 :> {k1}) @@ (t2 :> {k1})

=============================================================================
