------------------------ MODULE MCCollectionRouting ------------------------
(***************************************************************************)
(* CollectionRouting for TLC: a critical case, a medium one with a loan,   *)
(* and a low one, which no part of the policy routes.                      *)
(***************************************************************************)
EXTENDS CollectionRouting, TLC

CONSTANTS k1, k2, k3

MixedSeverity == (k1 :> "critical") @@ (k2 :> "medium") @@ (k3 :> "low")

=============================================================================
