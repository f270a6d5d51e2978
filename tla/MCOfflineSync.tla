---------------------------- MODULE MCOfflineSync ----------------------------
(***************************************************************************)
(* OfflineSync for TLC: two actions of one screen, and two drains that may *)
(* overlap each other and the screen.                                      *)
(***************************************************************************)
EXTENDS OfflineSync

=============================================================================
