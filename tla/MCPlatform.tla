------------------------------- MODULE MCPlatform -------------------------------
(* Thirteen components that share no state, checked side by side: Init picks one. *)
EXTENDS Ingestion, Detection, Patterns, Correlation, Reports, Migrations, Webhooks,
        Deadlines, Health, AlertRecords, AlertListing, Ensemble, Console, TLC

CONSTANTS d1, d2       \* the dispatches

VARIABLE part

MCSourceOf == [d \in Docs |-> "process"]
\* A strong alert, and weak ones of another source, with a tactic and without.
Kind(score, log_type, tactic) ==
    [threat_score |-> score, log_type |-> log_type, mitre_tactic |-> tactic]
MCKinds == {Kind(900, "process", "execution"), Kind(120, "network", "exfiltration"),
            Kind(120, "process", "none")}
MCLevel == d1 :> 1 @@ d2 :> 3
MCLimits == [critical |-> [acknowledge |-> 4, triage |-> 5, escalate |-> 6],
             low |-> [acknowledge |-> 5, triage |-> 0, escalate |-> 0]]

\* Different rows of two entities, one of them twice, with the forest, the autoencoder
\* and the rules against it; tables longer than a batch and logs longer than a
\* window, out of order.
Scored(e, decision, error, rule) ==
    [entity |-> e, decision |-> decision, error |-> error, rule |-> rule]
MCRows == {Scored("e1", 30, 2, 20), Scored("e2", 30, 2, 20), Scored("e1", -45, 9, 90)}
MCTables == UNION {{t \in [1 .. n -> MCRows] : IsInjective(t)} : n \in 0 .. 3}
Event(e, at, action) == [entity |-> e, at |-> at, action |-> action]
MCEventLogs ==
    {<<>>,
     <<Event("e1", 3, "b"), Event("e2", 1, "a"), Event("e1", 1, "a"), Event("e1", 2, "a"),
       Event("e2", 2, "a")>>,
     <<Event("e2", 4, "x"), Event("e2", 1, "a"), Event("e1", 1, "a"), Event("e2", 3, "b"),
       Event("e2", 2, "a")>>}
MCSurprise(s, action) == CASE action = "a" -> 1 [] action = "b" -> 3 [] action = "<UNK>" -> 5

Init ==
    /\ part \in {"ingestion", "detection", "patterns", "correlation", "reports",
                "migrations", "webhooks", "deadlines", "health", "records",
                "listing", "ensemble", "console"}
    /\ IngestionInit
    /\ DetectionInit
    /\ PatternInit
    /\ CorrelationInit
    /\ ReportsInit
    /\ MigrationsInit /\ (part = "migrations" \/ DOMAIN mapping = {})
    /\ WebhooksInit
    /\ DeadlinesInit
    /\ HealthInit
    /\ RecordsInit
    /\ ListingInit
    /\ EnsembleInit
    /\ ConsoleInit

Next ==
    /\ UNCHANGED part
    /\ IF part = "ingestion" THEN IngestionNext ELSE UNCHANGED ingestionVars
    /\ IF part = "detection" THEN DetectionNext ELSE UNCHANGED detectionVars
    /\ IF part = "patterns" THEN PatternNext ELSE UNCHANGED patternVars
    /\ IF part = "correlation" THEN CorrelationNext ELSE UNCHANGED correlationVars
    /\ IF part = "reports" THEN ReportsNext ELSE UNCHANGED reportVars
    /\ IF part = "migrations" THEN MigrationsNext ELSE UNCHANGED migrationVars
    /\ IF part = "webhooks" THEN WebhooksNext ELSE UNCHANGED webhookVars
    /\ IF part = "deadlines" THEN DeadlinesNext ELSE UNCHANGED deadlineVars
    /\ IF part = "health" THEN HealthNext ELSE UNCHANGED healthVars
    /\ IF part = "records" THEN RecordsNext ELSE UNCHANGED recordVars
    /\ IF part = "listing" THEN ListingNext ELSE UNCHANGED listingVars
    /\ IF part = "ensemble" THEN EnsembleNext ELSE UNCHANGED ensembleVars
    /\ IF part = "console" THEN ConsoleNext ELSE UNCHANGED consoleVars

=============================================================================
