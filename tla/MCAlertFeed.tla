------------------------------ MODULE MCAlertFeed ------------------------------
(* Instances of AlertFeed for TLC. *)
EXTENDS AlertFeed

=============================================================================
