------------------------------ MODULE MCRegistry ------------------------------
(* Instances of ModelRegistry for TLC. *)
EXTENDS ModelRegistry

=============================================================================
