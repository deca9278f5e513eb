------------------------------ MODULE Correlation ------------------------------
(***************************************************************************)
(* AlertCorrelator.correlate: the alerts of each entity, in order of time, *)
(* are cut into clusters that span at most TimeWindow minutes, the next    *)
(* one starting at the first alert past that; a cluster becomes an         *)
(* incident if it has MinAlerts alerts or a score of 0.8 in it. More       *)
(* alerts can be merged into an incident later; nothing keeps the scores   *)
(* it was made of, so its mean is only approximated then. Scores are       *)
(* thousandths. Alerts are known by name, as those handed over by the      *)
(* tests are; the contexts of a scoring cycle have no id and get made-up   *)
(* ones (see ScoringCycle). merge_incidents is called by tests only. A     *)
(* step is a round of the loop over an entity's alerts.                    *)
(***************************************************************************)
EXTENDS Naturals, Sequences, FiniteSets, FiniteSetsExt, Functions, SequencesExt

CONSTANTS
    CorrelatedEntities,
    TimeWindow,     \* 15
    MinAlerts,      \* 2
    AlertKinds,     \* what alerts are like: [threat_score, log_type, mitre_tactic]
    CorrelationEnd, \* bound
    MaxBatch        \* bound: alerts of a cycle

VARIABLES
    batch,          \* the alerts handed over, each with its place in the list
    clusters        \* of each entity: its alerts so far, cut, the last cluster open

correlationVars == <<batch, clusters>>

\* Two alerts within the window make an incident.
ASSUME CorrelationAssumption ==
    /\ TimeWindow \in Nat
    /\ MinAlerts \in 1 .. 2
    /\ AlertKinds \subseteq [threat_score : 0 .. 1000, log_type : STRING, mitre_tactic : STRING]

-----------------------------------------------------------------------------

\* The sort is stable.
Before(a, b) == a.at < b.at \/ (a.at = b.at /\ a.place < b.place)

Group(e) == {a \in batch : a.entity = e}
Clustered(cut) == UNION {ToSet(c) : c \in ToSet(cut)}
Left(e) == Group(e) \ Clustered(clusters[e])

\* Mutant: the window is measured from the last alert of the cluster.
JoinsLast(cluster, a) == a.at - Last(cluster).at < TimeWindow

Joins(cluster, a) == a.at - Head(cluster).at <= TimeWindow

PutInCluster(cut, a) ==
    IF cut # <<>> /\ Joins(Last(cut), a)
    THEN [cut EXCEPT ![Len(cut)] = Append(@, a)]
    ELSE Append(cut, <<a>>)

IsIncident(cluster) ==
    Len(cluster) >= MinAlerts \/ \E a \in ToSet(cluster) : a.kind.threat_score >= 800

\* determine_attack_stage
StageOf == [reconnaissance |-> "reconnaissance",
            initial_access |-> "initial_access", execution |-> "initial_access",
            persistence |-> "persistence", privilege_escalation |-> "persistence",
            lateral_movement |-> "lateral_movement", discovery |-> "lateral_movement",
            collection |-> "exfiltration", exfiltration |-> "exfiltration"]

AttackStage(tactics) ==
    LET stages == {StageOf[t] : t \in tactics \intersect DOMAIN StageOf}
    IN  CASE stages = {} -> "unknown"
          [] Cardinality(stages) = 1 -> CHOOSE stage \in stages : TRUE
          [] Cardinality(stages) > 1 -> "multi_stage"

ThreatScoreOf(i) ==
    Min({1000, (5 * i.max + 3 * i.mean) \div 10
                   + IF Cardinality(i.log_types) >= 2 THEN 200 ELSE 0})

LevelOf(score) ==
    CASE score >= 800 -> "critical"
      [] score >= 600 /\ score < 800 -> "high"
      [] score >= 400 /\ score < 600 -> "medium"
      [] score < 400 -> "low"

Assessed(i) ==
    [entity |-> i.entity, alerts |-> i.alerts,
     started_at |-> i.started_at, last_seen |-> i.last_seen,
     max |-> i.max, mean |-> i.mean, log_types |-> i.log_types, tactics |-> i.tactics,
     threat_level |-> LevelOf(ThreatScoreOf(i)), attack_stage |-> AttackStage(i.tactics),
     is_multi_stage |-> Cardinality(i.tactics) >= 3]

Scores(alerts) == {a.kind.threat_score : a \in alerts}
Mean(alerts) == SumFunction([a \in alerts |-> a.kind.threat_score]) \div Cardinality(alerts)
LogTypesOf(alerts) == {a.kind.log_type : a \in alerts}
TacticsOf(alerts) == {a.kind.mitre_tactic : a \in alerts} \ {"none"}

\* _create_incident_from_cluster
Incident(e, alerts) ==
    Assessed([entity |-> e, alerts |-> alerts,
              started_at |-> Min({a.at : a \in alerts}),
              last_seen |-> Max({a.at : a \in alerts}),
              max |-> Max(Scores(alerts)), mean |-> Mean(alerts),
              log_types |-> LogTypesOf(alerts), tactics |-> TacticsOf(alerts)])

\* Those of the entities whose alerts are all in clusters.
Incidents == UNION {{Incident(e, ToSet(c)) : c \in {d \in ToSet(clusters[e]) : IsIncident(d)}} :
                       e \in {f \in CorrelatedEntities : Left(f) = {}}}

\* Mutant: the highest score is that of the new alerts.
MergedMaxOfNew(i, alerts) == Max(Scores(alerts))

MergedMax(i, alerts) == Max({i.max} \union Scores(alerts))

\* merge_incidents
Merge(i, alerts) ==
    Assessed([entity |-> i.entity, alerts |-> i.alerts \union alerts,
              started_at |-> Min({i.started_at, i.last_seen} \union {a.at : a \in alerts}),
              last_seen |-> Max({i.started_at, i.last_seen} \union {a.at : a \in alerts}),
              max |-> MergedMax(i, alerts), mean |-> (i.mean + Mean(alerts)) \div 2,
              log_types |-> i.log_types \union LogTypesOf(alerts),
              tactics |-> i.tactics \union TacticsOf(alerts)])

-----------------------------------------------------------------------------

\* One more alert is handed over; they come in no order.
HandOver(e, at, kind) ==
    /\ \A f \in CorrelatedEntities : clusters[f] = <<>>
    /\ Cardinality(batch) < MaxBatch
    /\ batch' = batch \union {[entity |-> e, at |-> at, kind |-> kind,
                               place |-> Cardinality(batch)]}
    /\ UNCHANGED clusters

\* The entity's next alert in order of time, once no other is half done.
Cluster(e) ==
    /\ \A f \in CorrelatedEntities \ {e} : clusters[f] = <<>> \/ Left(f) = {}
    /\ \E a \in Left(e) :
          /\ \A b \in Left(e) \ {a} : Before(a, b)
          /\ clusters' = [clusters EXCEPT ![e] = PutInCluster(@, a)]
    /\ UNCHANGED batch

CorrelationInit ==
    /\ batch = {}
    /\ clusters = [e \in CorrelatedEntities |-> <<>>]

CorrelationNext ==
    \/ \E e \in CorrelatedEntities, at \in 0 .. CorrelationEnd, kind \in AlertKinds :
          HandOver(e, at, kind)
    \/ \E e \in CorrelatedEntities : Cluster(e)

CorrelationSpec == CorrelationInit /\ [][CorrelationNext]_correlationVars

-----------------------------------------------------------------------------
(* Properties *)

\* Wherever the cuts fall, of two alerts of an entity within the window at
\* least one is in an incident, no alert is in two, none that scores 0.8 is in
\* none, and incidents of an entity neither overlap nor span more than the
\* window.
CutsHideNothing ==
    /\ \A e \in CorrelatedEntities : Left(e) = {} =>
          /\ \A a, b \in Group(e) :
                a # b /\ a.at <= b.at /\ b.at - a.at <= TimeWindow =>
                    \E i \in Incidents : {a, b} \intersect i.alerts # {}
          /\ \A a \in Group(e) :
                a.kind.threat_score >= 800 => \E i \in Incidents : a \in i.alerts
    /\ \A i, j \in Incidents :
          i # j => /\ i.alerts \intersect j.alerts = {}
                   /\ i.entity = j.entity => i.last_seen < j.started_at
                                             \/ j.last_seen < i.started_at
    /\ \A i \in Incidents : i.last_seen - i.started_at <= TimeWindow

Facts(i) == <<i.alerts, i.started_at, i.last_seen, i.max, i.log_types,
              i.attack_stage, i.is_multi_stage>>

\* Alerts merged into an incident later, in one step or in two, leave it as if
\* they had all been there when it was made, but for the mean and what follows
\* from it; and however many weak ones are merged into it, an incident that has
\* seen a score of 0.8 is never low.
MergesLoseNothing ==
    \A e \in CorrelatedEntities :
        LET own == Group(e)
        IN  \A first \in (SUBSET own) \ {{}} : \A second \in (SUBSET (own \ first)) \ {{}} :
                LET merged == Merge(Incident(e, first), second)
                    rest == own \ (first \union second)
                IN  /\ Facts(merged) = Facts(Incident(e, first \union second))
                    /\ rest # {} => Facts(Merge(merged, rest)) = Facts(Incident(e, own))
                    /\ merged.max >= 800 => merged.threat_level # "low"

\* Neither cutting the time line nor merging loses what the alerts tell.
IncidentsKeepAlerts == CutsHideNothing /\ MergesLoseNothing

=============================================================================
