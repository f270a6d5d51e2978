------------------------ MODULE MCEscalationWorker ------------------------
(***************************************************************************)
(* EscalationWorker for TLC: one case of the first of two tenants, the     *)
(* cron and one request, and a log short enough to lose entries.           *)
(***************************************************************************)
EXTENDS EscalationWorker, TLC

CONSTANTS c1, t1, t2, p1, p2

OneCase == [c \in {c1} |-> t1]

\* A case may change between a short window and a long one.
TwoWindows == p1 :> 1 @@ p2 :> 2

\* A rule of one level, and one of two.
TwoChains == {<<1>>, <<0, 1>>}

=============================================================================
