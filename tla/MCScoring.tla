------------------------------ MODULE MCScoring ------------------------------
(* Instances of ScoringCycle for TLC. *)
EXTENDS ScoringCycle

=============================================================================
