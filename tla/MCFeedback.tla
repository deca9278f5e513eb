------------------------------ MODULE MCFeedback ------------------------------
(* Instances of FeedbackSuppression for TLC. *)
EXTENDS FeedbackSuppression, TLC

\* Alerts, rules and analysts are interchangeable; used in safety runs only.
Symmetry == Permutations(Alerts) \union Permutations(Rules)
                \union Permutations(Analysts)

=============================================================================
