----------------------------- MODULE ScoringCycle -----------------------------
(***************************************************************************)
(* ThreatEngine.run_scoring_cycle, the alerts table it fills, and the       *)
(* cached statistics of that table.                                         *)
(*                                                                          *)
(* Cycles overlap: the scheduler runs one every five minutes and two        *)
(* endpoints run one on request. A cycle scores each entity and five-minute *)
(* window of its logs, stores one row per result above the threshold,       *)
(* correlates what it stored, and announces the loud alerts. Announcing     *)
(* calls index_alert, which RAGPipeline does not have: the AttributeError   *)
(* ends the cycle there.                                                    *)
(*                                                                          *)
(* A row keeps what the properties tell apart: not its score but its level, *)
(* whether it is loud (above the announcement threshold) and whether threat *)
(* intelligence raised it; not its status but whether that is "open". A     *)
(* cycle takes less than the correlator's fifteen minutes, so its alerts    *)
(* are one cluster. The contexts do not name theirs "id", so the ids an     *)
(* incident carries are made up and name no row; the cluster it was made    *)
(* from is kept beside them as history. The statistics are a function of    *)
(* the open rows, and the set of their ids stands for them; that the query  *)
(* stops at the newest 10000 rows is left out.                              *)
(***************************************************************************)
EXTENDS ThreatScore, FiniteSets

CONSTANTS
    Cycles,      \* cycles that can be in flight
    Entities,    \* entity keys
    Windows,     \* the windows the logs of one cycle fall in
    Alerts,      \* bound: alert ids (uuid4, never reused)
    MadeUpIds,   \* bound: ids the correlator makes up (uuid4, never reused)
    BaseScores,  \* percentages the ensemble may return above the threshold
    Readers,     \* requests to GET /api/alerts/stats that can be in flight
    MaxFaults,   \* bound: failed awaits and restarts, together
    NoAlert, NoStats

ASSUME ScoringAssumption ==
    /\ BaseScores \subseteq {s \in Percent : s > Threshold}
    /\ MadeUpIds \intersect Alerts = {}
    /\ MaxFaults \in Nat

VARIABLES
    soc_alerts,  \* table: id -> row, or NoAlert
    pc,          \* where each cycle is
    todo,        \* results above the threshold a cycle has still to store
    mine,        \* alerts_to_store: what a cycle has stored
    incidents,   \* the incidents sent to the webhooks
    announced,   \* alerts broadcast to the browsers
    alert_stats, \* the cached statistics, or NoStats
    reading,     \* rows a statistics request has read and not yet cached
    faults

vars == <<soc_alerts, pc, todo, mine, incidents, announced, alert_stats,
          reading, faults>>

cycleVars == <<pc, todo, mine, incidents, announced>>
statsVars == <<alert_stats, reading>>

-----------------------------------------------------------------------------

Levels == {"low", "medium", "high", "critical"}

Results == Entities \X Windows

Row == [entity_key : Entities, suppressed : BOOLEAN, intel : BOOLEAN,
        threat_level : Levels, loud : BOOLEAN, open : BOOLEAN]

ASSUME NoAlertAssumption == NoAlert \notin Row

Stored == {a \in Alerts : soc_alerts[a] # NoAlert}

OpenRows == {a \in Stored : soc_alerts[a].open}

\* What an incident carries, and (history) the alerts it was made from.
Incident == [alert_ids : SUBSET MadeUpIds, cluster : SUBSET Alerts]

\* Bound: a cycle starts only if there are ids for all its results.
IdsSuffice(results) ==
    LET pending == {p \in Cycles \X Results : p[2] \in todo[p[1]]}
    IN  Cardinality(Stored) + Cardinality(pending) + Cardinality(results)
            <= Cardinality(Alerts)

TypeOK ==
    /\ soc_alerts \in [Alerts -> Row \union {NoAlert}]
    /\ pc \in [Cycles -> {"idle", "score", "announce"}]
    /\ todo \in [Cycles -> SUBSET Results]
    /\ mine \in [Cycles -> SUBSET Alerts]
    /\ incidents \in SUBSET Incident
    /\ announced \in SUBSET Alerts
    /\ alert_stats \in (SUBSET Alerts) \union {NoStats}
    /\ reading \in [Readers -> (SUBSET Alerts) \union {NoStats}]
    /\ faults \in 0 .. MaxFaults

Init ==
    /\ soc_alerts = [a \in Alerts |-> NoAlert]
    /\ pc = [c \in Cycles |-> "idle"]
    /\ todo = [c \in Cycles |-> {}]
    /\ mine = [c \in Cycles |-> {}]
    /\ incidents = {}
    /\ announced = {}
    /\ alert_stats = NoStats
    /\ reading = [q \in Readers |-> NoStats]
    /\ faults = 0

-----------------------------------------------------------------------------
(* One cycle *)

\* The logs are fetched and scored: some results are above the threshold. A
\* cycle with none changes nothing that is modelled here.
Start(c) ==
    /\ pc[c] = "idle"
    /\ \E results \in SUBSET Results :
        /\ results # {}
        /\ IdsSuffice(results)
        /\ todo' = [todo EXCEPT ![c] = results]
    /\ pc' = [pc EXCEPT ![c] = "score"]
    /\ UNCHANGED <<soc_alerts, mine, incidents, announced, faults>>
    /\ UNCHANGED statsVars

\* What becomes of a score: suppressed or not by the analysts' feedback, at
\* some time of day, with some threat intelligence.
Assess(base, suppressed, severity, boost) ==
    LET score == FinalScore(base, suppressed, severity, boost)
    IN  [suppressed |-> suppressed, intel |-> boost > 0,
         threat_level |-> Level(score), loud |-> Loud(score)]

Assessments == {Assess(base, suppressed, severity, boost) :
                    base \in BaseScores, suppressed \in BOOLEAN,
                    severity \in Severities, boost \in Boosts}

NewRow(entity, x) ==
    [entity_key |-> entity, suppressed |-> x.suppressed, intel |-> x.intel,
     threat_level |-> x.threat_level, loud |-> x.loud, open |-> TRUE]

\* One result is adjusted and its row inserted, under a fresh id.
StoreAlert(c, r, a) ==
    /\ pc[c] = "score"
    /\ r \in todo[c]
    /\ a \notin Stored
    /\ \E x \in Assessments :
        soc_alerts' = [soc_alerts EXCEPT ![a] = NewRow(r[1], x)]
    /\ todo' = [todo EXCEPT ![c] = @ \ {r}]
    /\ mine' = [mine EXCEPT ![c] = @ \union {a}]
    /\ UNCHANGED <<pc, incidents, announced, faults>>
    /\ UNCHANGED statsVars

\* The contexts carry no host_id and no user_name, so the alerts of a cycle
\* are one group.
Groups(c) == {mine[c]}

\* Two alerts, or a critical one, make an incident.
IsIncident(cluster) ==
    \/ Cardinality(cluster) >= 2
    \/ \E a \in cluster : soc_alerts[a].threat_level = "critical"

\* As many ids as the cluster has alerts, which no incident has had.
FreshIds(cluster) ==
    {ids \in SUBSET (MadeUpIds \ UNION {i.alert_ids : i \in incidents}) :
        Cardinality(ids) = Cardinality(cluster)}

\* Incidents go out to the webhooks; storing and broadcasting them fails.
Correlate(c) ==
    /\ pc[c] = "score"
    /\ todo[c] = {}
    /\ \E ids \in [{g \in Groups(c) : IsIncident(g)} -> SUBSET MadeUpIds] :
        /\ \A g \in DOMAIN ids : ids[g] \in FreshIds(g)
        /\ incidents' = incidents \union
                {[alert_ids |-> ids[g], cluster |-> g] : g \in DOMAIN ids}
    /\ pc' = [pc EXCEPT ![c] = "announce"]
    /\ UNCHANGED <<soc_alerts, todo, mine, announced, faults>>
    /\ UNCHANGED statsVars

\* Mutant: the list of stored alerts is kept from one cycle to the next.
AnnounceKeepsList(c) ==
    /\ pc[c] = "announce"
    /\ alert_stats' = IF \E a \in mine[c] : soc_alerts[a].loud
                      THEN alert_stats ELSE NoStats
    /\ pc' = [pc EXCEPT ![c] = "idle"]
    /\ UNCHANGED <<soc_alerts, todo, mine, incidents, announced, reading, faults>>

\* Quiet alerts are passed over; the first loud one ends the cycle before it
\* is broadcast and before the statistics are dropped.
Announce(c) ==
    /\ pc[c] = "announce"
    /\ alert_stats' = IF \E a \in mine[c] : soc_alerts[a].loud
                      THEN alert_stats ELSE NoStats
    /\ pc' = [pc EXCEPT ![c] = "idle"]
    /\ mine' = [mine EXCEPT ![c] = {}]
    /\ UNCHANGED <<soc_alerts, todo, incidents, announced, reading, faults>>

\* A call raises: the rows stored so far stay.
Abort(c) ==
    /\ pc[c] = "score"
    /\ faults < MaxFaults
    /\ faults' = faults + 1
    /\ pc' = [pc EXCEPT ![c] = "idle"]
    /\ todo' = [todo EXCEPT ![c] = {}]
    /\ mine' = [mine EXCEPT ![c] = {}]
    /\ UNCHANGED <<soc_alerts, incidents, announced>>
    /\ UNCHANGED statsVars

-----------------------------------------------------------------------------
(* The endpoints on the table *)

\* PATCH /api/alerts/{id}/status. It leaves the cached statistics alone.
UpdateStatus(a, open) ==
    /\ a \in Stored
    /\ soc_alerts' = [soc_alerts EXCEPT ![a].open = open]
    /\ UNCHANGED faults
    /\ UNCHANGED cycleVars /\ UNCHANGED statsVars

\* GET /api/alerts/stats on a miss: the rows are read here ...
ReadStats(q) ==
    /\ reading[q] = NoStats
    /\ alert_stats = NoStats
    /\ reading' = [reading EXCEPT ![q] = OpenRows]
    /\ UNCHANGED <<soc_alerts, alert_stats, faults>>
    /\ UNCHANGED cycleVars

\* ... and the result is cached after the database connection is closed.
CacheStats(q) ==
    /\ reading[q] # NoStats
    /\ alert_stats' = reading[q]
    /\ reading' = [reading EXCEPT ![q] = NoStats]
    /\ UNCHANGED <<soc_alerts, faults>>
    /\ UNCHANGED cycleVars

\* Mutant: the entry is set without a lifetime.
ExpireNever == FALSE

\* Sixty seconds later the entry has expired.
ExpireStats ==
    /\ alert_stats # NoStats
    /\ alert_stats' = NoStats
    /\ UNCHANGED <<soc_alerts, reading, faults>>
    /\ UNCHANGED cycleVars

-----------------------------------------------------------------------------

\* The process dies and starts again: the table survives.
Restart ==
    /\ faults < MaxFaults
    /\ faults' = faults + 1
    /\ pc' = [c \in Cycles |-> "idle"]
    /\ todo' = [c \in Cycles |-> {}]
    /\ mine' = [c \in Cycles |-> {}]
    /\ alert_stats' = NoStats
    /\ reading' = [q \in Readers |-> NoStats]
    /\ UNCHANGED <<soc_alerts, incidents, announced>>

CycleStep(c) ==
    \/ \E r \in Results, a \in Alerts : StoreAlert(c, r, a)
    \/ Correlate(c)
    \/ Announce(c)
    \/ Abort(c)

Next ==
    \/ \E c \in Cycles : Start(c) \/ CycleStep(c)
    \/ \E a \in Alerts, open \in BOOLEAN : UpdateStatus(a, open)
    \/ \E q \in Readers : ReadStats(q) \/ CacheStats(q)
    \/ ExpireStats
    \/ Restart

\* A call that is awaited returns or raises, and time passes; nothing obliges
\* anyone to start a cycle, ask for statistics or change a status.
Fairness ==
    /\ \A c \in Cycles : WF_vars(CycleStep(c))
    /\ \A q \in Readers : WF_vars(CacheStats(q))
    /\ WF_vars(ExpireStats)

Spec == Init /\ [][Next]_vars

FairSpec == Spec /\ Fairness

-----------------------------------------------------------------------------
(* Properties *)

\* Suppression holds through the steps that come after it: no off-hours
\* multiplier and no threat intelligence lifts a suppressed result to a level
\* that pages anyone, and the multiplier alone never makes it loud again.
SuppressionHolds ==
    \A a \in Stored : soc_alerts[a].suppressed =>
        /\ soc_alerts[a].threat_level \in {"low", "medium"}
        /\ soc_alerts[a].loud => soc_alerts[a].intel

\* What an incident tells the webhooks counts alerts that are in the table:
\* as many as the ids it carries, two of them or a critical one, and none that
\* another incident counts. Cycles that run beside it, fail or are cut off by
\* a restart change nothing about that.
IncidentsCountAlerts ==
    \A i \in incidents :
        /\ i.cluster \subseteq Stored
        /\ Cardinality(i.alert_ids) = Cardinality(i.cluster)
        /\ IsIncident(i.cluster)
        /\ \A j \in incidents \ {i} : i.cluster \intersect j.cluster = {}

\* Whatever raced with the cycles, the statistics catch up with the table: a
\* cached entry that misses an open alert goes away.
StatsCatchUp ==
    \A a \in Alerts :
        (alert_stats # NoStats /\ a \in OpenRows \ alert_stats)
            ~> (alert_stats = NoStats \/ a \notin OpenRows \ alert_stats)

\* Alerts are correlated by host and user: an incident is about one entity.
IncidentOfOneEntity ==
    \A i \in incidents : \A a, b \in i.cluster :
        soc_alerts[a].entity_key = soc_alerts[b].entity_key

\* New alerts are pushed to the browsers: every one above the announcement
\* threshold is broadcast.
LoudIsAnnounced ==
    \A a \in Alerts :
        (a \in Stored /\ soc_alerts[a].loud) ~> (a \in announced)

=============================================================================
