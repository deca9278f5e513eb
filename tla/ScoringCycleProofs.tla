-------------------------- MODULE ScoringCycleProofs --------------------------
(***************************************************************************)
(* Proofs about ScoringCycle, for any number of cycles, entities, windows,  *)
(* ids and requests, any base scores and any number of faults.              *)
(***************************************************************************)
EXTENDS ScoringCycle, TLAPS

-----------------------------------------------------------------------------
(* The arithmetic of one assessment *)

\* Every base score is a percentage.
LEMMA BaseIsPercent ==
    ASSUME NEW base \in BaseScores
    PROVE  base \in Int /\ 0 <= base /\ base <= 100
BY ScoringAssumption DEF Percent

\* What threat intelligence can add or take away.
LEMMA BoostRange ==
    ASSUME NEW boost \in Boosts
    PROVE  boost \in Int /\ -10 <= boost /\ boost <= 35
<1>1. PICK ip \in {0, 10}, process \in {-10, 0, 15}, domain \in {0, 10} :
            boost = ip + process + domain
  BY DEF Boosts
<1> QED BY <1>1

\* The multiplier at most doubles what it is applied to.
LEMMA Multiplied ==
    ASSUME NEW p \in Int, 0 <= p, NEW severity \in Severities
    PROVE  p * severity \in Int /\ 0 <= p * severity /\ p * severity <= 20 * p
<1>1. /\ p * 10 <= 20 * p /\ p * 13 <= 20 * p /\ p * 15 <= 20 * p
      /\ p * 18 <= 20 * p /\ p * 20 <= 20 * p
      /\ 0 <= p * 10 /\ 0 <= p * 13 /\ 0 <= p * 15 /\ 0 <= p * 18 /\ 0 <= p * 20
  OBVIOUS
<1> QED BY <1>1 DEF Severities

\* The score after suppression and time of day lies between nothing and one.
LEMMA TemperedRange ==
    ASSUME NEW base \in Int, 0 <= base, NEW severity \in Severities,
           NEW suppressed \in BOOLEAN
    PROVE  /\ Tempered(base, suppressed, severity) \in Int
           /\ 0 <= Tempered(base, suppressed, severity)
           /\ Tempered(base, suppressed, severity) <= One
<1>1. PICK s \in {1, 10} : s = Suppression(suppressed)
  BY DEF Suppression
<1>2. base * s \in Int /\ 0 <= base * s
  BY <1>1
<1>3. PICK q : q = base * s * severity
  OBVIOUS
<1>4. q \in Int /\ 0 <= q
  BY <1>2, <1>3, Multiplied
<1>5. PICK t : t = SmallerOf(One, q)
  OBVIOUS
<1>6. Tempered(base, suppressed, severity) = t
  BY <1>1, <1>3, <1>5 DEF Tempered
<1>7. t \in Int /\ 0 <= t /\ t <= One
  BY <1>4, <1>5 DEF SmallerOf, One
<1> QED BY <1>6, <1>7

\* The score of a suppressed result is at most a fifth.
LEMMA DiscountedRange ==
    ASSUME NEW base \in Int, 0 <= base, base <= 100, NEW severity \in Severities
    PROVE  /\ SmallerOf(One, base * 1 * severity) \in Int
           /\ SmallerOf(One, base * 1 * severity) <= 2000
<1>1. PICK q : q = base * 1 * severity
  OBVIOUS
<1>2. q \in Int /\ 0 <= q /\ q <= 2000
  BY <1>1, Multiplied
<1> QED BY <1>1, <1>2 DEF SmallerOf, One

\* A final score lies between nothing and one; threat intelligence adds at
\* most what it is worth.
LEMMA AdjustRange ==
    ASSUME NEW before \in Int, 0 <= before, before <= One,
           NEW boost \in Int, boost <= 35
    PROVE  /\ Adjust(before, boost) \in Int
           /\ 0 <= Adjust(before, boost) /\ Adjust(before, boost) <= One
           /\ Adjust(before, boost) <= before + 3500
           /\ boost <= 0 => Adjust(before, boost) <= before
BY DEF Adjust, SmallerOf, LargerOf, One

\* Every score has one of the four levels, and one below six tenths has one
\* of the lower two.
LEMMA LevelRange ==
    ASSUME NEW score \in Int
    PROVE  /\ Level(score) \in Levels
           /\ score < 6000 => Level(score) \in {"low", "medium"}
<1>1. CASE score >= 8000
  BY <1>1 DEF Level, Levels
<1>2. CASE score >= 6000 /\ score < 8000
  BY <1>2 DEF Level, Levels
<1>3. CASE score >= 4000 /\ score < 6000
  BY <1>3 DEF Level, Levels
<1>4. CASE score < 4000
  BY <1>4 DEF Level, Levels
<1> QED BY <1>1, <1>2, <1>3, <1>4

\* Threat intelligence alone takes a score of at most a fifth neither to a
\* high level nor, unless it adds something, past the announcement threshold.
LEMMA LowScoreQuiet ==
    ASSUME NEW before \in Int, 0 <= before, before <= 2000,
           NEW boost \in Int, boost <= 35
    PROVE  /\ Level(Adjust(before, boost)) \in {"low", "medium"}
           /\ Loud(Adjust(before, boost)) => boost > 0
<1>1. /\ Adjust(before, boost) \in Int
      /\ Adjust(before, boost) <= before + 3500
      /\ boost <= 0 => Adjust(before, boost) <= before
  BY AdjustRange DEF One
<1>2. Adjust(before, boost) < 6000
  BY <1>1
<1>3. Loud(Adjust(before, boost)) => boost > 0
  BY <1>1 DEF Loud, Threshold
<1> QED BY <1>1, <1>2, <1>3, LevelRange

Assessment == [suppressed : BOOLEAN, intel : BOOLEAN, threat_level : Levels,
               loud : BOOLEAN]

\* An assessment that is suppressed stays quiet.
Quiet(x) ==
    x.suppressed =>
        /\ x.threat_level \in {"low", "medium"}
        /\ x.loud => x.intel

\* No time of day and no threat intelligence makes a suppressed result loud
\* or gives it a high level.
LEMMA AssessmentsQuiet ==
    ASSUME NEW x \in Assessments
    PROVE  x \in Assessment /\ Quiet(x)
<1>1. PICK base \in BaseScores, suppressed \in BOOLEAN,
           severity \in Severities, boost \in Boosts :
              x = Assess(base, suppressed, severity, boost)
  BY DEF Assessments
<1>2. PICK before : before = Tempered(base, suppressed, severity)
  OBVIOUS
<1>3. PICK score : score = Adjust(before, boost)
  OBVIOUS
<1>4. x = [suppressed |-> suppressed, intel |-> boost > 0,
           threat_level |-> Level(score), loud |-> Loud(score)]
  BY <1>1, <1>2, <1>3, Zenon DEF Assess, FinalScore
<1>5. boost \in Int /\ boost <= 35
  BY BoostRange
<1>6. base \in Int /\ 0 <= base /\ base <= 100
  BY BaseIsPercent
<1>7. before \in Int /\ 0 <= before /\ before <= One
  BY <1>2, <1>6, TemperedRange, Zenon
<1>8. score \in Int
  BY <1>3, <1>5, <1>7, AdjustRange
<1>9. Level(score) \in Levels
  BY <1>8, LevelRange
<1>10. (boost > 0) \in BOOLEAN /\ Loud(score) \in BOOLEAN
  BY <1>5, <1>8 DEF Loud
<1>11. ASSUME suppressed
       PROVE  Level(score) \in {"low", "medium"} /\ (Loud(score) => boost > 0)
  <2>1. before = SmallerOf(One, base * 1 * severity)
    BY <1>2, <1>11, Zenon DEF Tempered, Suppression
  <2>2. before <= 2000
    BY <1>6, <2>1, DiscountedRange
  <2> QED BY <1>3, <1>5, <1>7, <2>2, LowScoreQuiet
<1>12. x \in Assessment
  BY <1>4, <1>9, <1>10, Zenon DEF Assessment
<1>13. Quiet(x)
  BY <1>4, <1>11, Zenon DEF Quiet
<1> QED BY <1>12, <1>13

-----------------------------------------------------------------------------
(* The type invariant *)

\* The row of an assessment, under any entity key.
LEMMA NewRowType ==
    ASSUME NEW r \in Results, NEW x \in Assessments
    PROVE  /\ NewRow(r[1], x) \in Row
           /\ NewRow(r[1], x).suppressed = x.suppressed
           /\ NewRow(r[1], x).intel = x.intel
           /\ NewRow(r[1], x).threat_level = x.threat_level
           /\ NewRow(r[1], x).loud = x.loud
<1>1. x \in Assessment
  BY AssessmentsQuiet
<1>2. r[1] \in Entities
  BY DEF Results
<1> QED BY <1>1, <1>2 DEF NewRow, Row, Assessment

\* Correlating adds at most one incident, made of what the cycle stored, with
\* one id for each of its alerts.
LEMMA OneIncident ==
    ASSUME NEW c \in Cycles, Correlate(c)
    PROVE  \/ incidents' = incidents
           \/ \E ids \in SUBSET MadeUpIds :
                /\ IsIncident(mine[c])
                /\ Cardinality(ids) = Cardinality(mine[c])
                /\ incidents' = incidents
                        \union {[alert_ids |-> ids, cluster |-> mine[c]]}
<1> DEFINE made == {g \in Groups(c) : IsIncident(g)}
<1>1. PICK ids \in [made -> SUBSET MadeUpIds] :
        /\ \A g \in DOMAIN ids : ids[g] \in FreshIds(g)
        /\ incidents' = incidents \union
                {[alert_ids |-> ids[g], cluster |-> g] : g \in DOMAIN ids}
  BY DEF Correlate
<1>2. DOMAIN ids = made
  OBVIOUS
<1>3. CASE IsIncident(mine[c])
  <2>1. made = {mine[c]}
    BY <1>3 DEF Groups
  <2>2. /\ ids[mine[c]] \in SUBSET MadeUpIds
        /\ Cardinality(ids[mine[c]]) = Cardinality(mine[c])
    BY <1>1, <1>2, <2>1 DEF FreshIds
  <2>3. incidents' = incidents
                \union {[alert_ids |-> ids[mine[c]], cluster |-> mine[c]]}
    BY <1>1, <1>2, <2>1
  <2> QED BY <1>3, <2>2, <2>3
<1>4. CASE ~IsIncident(mine[c])
  <2>1. made = {}
    BY <1>4 DEF Groups
  <2> QED BY <1>1, <1>2, <2>1
<1> QED BY <1>3, <1>4

LEMMA TypeStep == TypeOK /\ [Next]_vars => TypeOK'
<1> SUFFICES ASSUME TypeOK, [Next]_vars
             PROVE  TypeOK'
  OBVIOUS
<1> USE DEF cycleVars, statsVars
<1>1. ASSUME NEW c \in Cycles, Start(c)
      PROVE  TypeOK'
  BY <1>1 DEF TypeOK, Start
<1>2. ASSUME NEW c \in Cycles, NEW r \in Results, NEW a \in Alerts,
             StoreAlert(c, r, a)
      PROVE  TypeOK'
  <2>1. PICK x \in Assessments :
            soc_alerts' = [soc_alerts EXCEPT ![a] = NewRow(r[1], x)]
    BY <1>2 DEF StoreAlert
  <2>2. soc_alerts' \in [Alerts -> Row \union {NoAlert}]
    BY <2>1, NewRowType DEF TypeOK
  <2> QED BY <1>2, <2>2 DEF TypeOK, StoreAlert
<1>3. ASSUME NEW c \in Cycles, Correlate(c)
      PROVE  TypeOK'
  <2>1. incidents' \in SUBSET Incident
    BY <1>3, OneIncident DEF TypeOK, Incident
  <2> QED BY <1>3, <2>1 DEF TypeOK, Correlate
<1>4. ASSUME NEW c \in Cycles, Announce(c)
      PROVE  TypeOK'
  BY <1>4 DEF TypeOK, Announce
<1>5. ASSUME NEW c \in Cycles, Abort(c)
      PROVE  TypeOK'
  BY <1>5, ScoringAssumption DEF TypeOK, Abort
<1>6. ASSUME NEW a \in Alerts, NEW open \in BOOLEAN, UpdateStatus(a, open)
      PROVE  TypeOK'
  <2>1. soc_alerts[a] \in Row
    BY <1>6 DEF TypeOK, UpdateStatus, Stored
  <2>2. [soc_alerts[a] EXCEPT !.open = open] \in Row
    BY <2>1 DEF Row
  <2> QED BY <1>6, <2>2 DEF TypeOK, UpdateStatus
<1>7. ASSUME NEW q \in Readers, ReadStats(q)
      PROVE  TypeOK'
  BY <1>7 DEF TypeOK, ReadStats, OpenRows, Stored
<1>8. ASSUME NEW q \in Readers, CacheStats(q)
      PROVE  TypeOK'
  BY <1>8 DEF TypeOK, CacheStats
<1>9. CASE ExpireStats
  BY <1>9 DEF TypeOK, ExpireStats
<1>10. CASE Restart
  BY <1>10, ScoringAssumption DEF TypeOK, Restart
<1>11. CASE UNCHANGED vars
  BY <1>11 DEF TypeOK, vars
<1> QED
  BY <1>1, <1>2, <1>3, <1>4, <1>5, <1>6, <1>7, <1>8, <1>9, <1>10, <1>11
     DEF Next, CycleStep

\* Type correctness: every row has one of the four levels, whatever score it
\* was given.
THEOREM TypeCorrect == Spec => []TypeOK
<1>1. Init => TypeOK
  BY ScoringAssumption DEF Init, TypeOK
<1> QED BY <1>1, TypeStep, PTL DEF Spec

-----------------------------------------------------------------------------
(* Suppression *)

\* What a step can do to the table: nothing, insert one row under a fresh id,
\* or change whether one row is open.
LEMMA RowSteps ==
    ASSUME TypeOK, [Next]_vars
    PROVE  \/ soc_alerts' = soc_alerts
           \/ \E a \in Alerts \ Stored, r \in Results, x \in Assessments :
                soc_alerts' = [soc_alerts EXCEPT ![a] = NewRow(r[1], x)]
           \/ \E a \in Stored, open \in BOOLEAN :
                soc_alerts' = [soc_alerts EXCEPT ![a].open = open]
<1>1. ASSUME NEW c \in Cycles, NEW r \in Results, NEW a \in Alerts,
             StoreAlert(c, r, a)
      PROVE  \E b \in Alerts \ Stored, t \in Results, x \in Assessments :
                soc_alerts' = [soc_alerts EXCEPT ![b] = NewRow(t[1], x)]
  BY <1>1 DEF StoreAlert
<1>2. ASSUME NEW a \in Alerts, NEW open \in BOOLEAN, UpdateStatus(a, open)
      PROVE  \E b \in Stored, o \in BOOLEAN :
                soc_alerts' = [soc_alerts EXCEPT ![b].open = o]
  BY <1>2 DEF UpdateStatus
<1>3. ASSUME NEW c \in Cycles,
             Start(c) \/ Correlate(c) \/ Announce(c) \/ Abort(c)
      PROVE  soc_alerts' = soc_alerts
  BY <1>3 DEF Start, Correlate, Announce, Abort
<1>4. ASSUME NEW q \in Readers, ReadStats(q) \/ CacheStats(q)
      PROVE  soc_alerts' = soc_alerts
  BY <1>4 DEF ReadStats, CacheStats
<1>5. ASSUME ExpireStats \/ Restart \/ UNCHANGED vars
      PROVE  soc_alerts' = soc_alerts
  BY <1>5 DEF ExpireStats, Restart, vars
<1> QED
  BY <1>1, <1>2, <1>3, <1>4, <1>5 DEF Next, CycleStep

\* A stored row stays, and nothing but its status changes.
LEMMA RowsStay ==
    ASSUME TypeOK, [Next]_vars, NEW a \in Stored
    PROVE  /\ a \in Stored'
           /\ soc_alerts'[a].suppressed = soc_alerts[a].suppressed
           /\ soc_alerts'[a].intel = soc_alerts[a].intel
           /\ soc_alerts'[a].threat_level = soc_alerts[a].threat_level
           /\ soc_alerts'[a].loud = soc_alerts[a].loud
<1>1. soc_alerts[a] \in Row /\ a \in Alerts
  BY DEF TypeOK, Stored
<1>2. TypeOK'
  BY TypeStep
<1>3. CASE soc_alerts' = soc_alerts
  BY <1>3 DEF Stored
<1>4. ASSUME NEW b \in Alerts \ Stored, NEW r \in Results,
             NEW x \in Assessments,
             soc_alerts' = [soc_alerts EXCEPT ![b] = NewRow(r[1], x)]
      PROVE  soc_alerts'[a] = soc_alerts[a]
  BY <1>1, <1>4 DEF TypeOK
<1>5. ASSUME NEW b \in Stored, NEW open \in BOOLEAN,
             soc_alerts' = [soc_alerts EXCEPT ![b].open = open]
      PROVE  soc_alerts'[a] \in {soc_alerts[a],
                                 [soc_alerts[a] EXCEPT !.open = open]}
  BY <1>1, <1>5 DEF TypeOK
<1>6. ASSUME NEW open \in BOOLEAN
      PROVE  LET row == [soc_alerts[a] EXCEPT !.open = open]
             IN  /\ row \in Row
                 /\ row.suppressed = soc_alerts[a].suppressed
                 /\ row.intel = soc_alerts[a].intel
                 /\ row.threat_level = soc_alerts[a].threat_level
                 /\ row.loud = soc_alerts[a].loud
  BY <1>1, <1>6 DEF Row
<1>7. \/ soc_alerts'[a] = soc_alerts[a]
      \/ \E open \in BOOLEAN :
            soc_alerts'[a] = [soc_alerts[a] EXCEPT !.open = open]
  BY <1>3, <1>4, <1>5, RowSteps
<1> QED BY <1>1, <1>6, <1>7, NoAlertAssumption DEF Stored

\* Suppression holds: a suppressed result never gets a level above medium, and
\* only threat intelligence makes it loud.
THEOREM SuppressionSurvives == Spec => []SuppressionHolds
<1>1. Init => SuppressionHolds
  BY DEF Init, SuppressionHolds, Stored
<1>2. TypeOK /\ SuppressionHolds /\ [Next]_vars => SuppressionHolds'
  <2> SUFFICES ASSUME TypeOK, SuppressionHolds, [Next]_vars,
                      NEW a \in Stored'
               PROVE  Quiet(soc_alerts'[a])
    BY DEF SuppressionHolds, Quiet
  <2>1. CASE a \in Stored
    BY <2>1, RowsStay DEF SuppressionHolds, Quiet
  <2>2. CASE a \notin Stored
    <3>1. PICK r \in Results, x \in Assessments :
              soc_alerts' = [soc_alerts EXCEPT ![a] = NewRow(r[1], x)]
      BY <2>2, RowSteps DEF TypeOK, Stored
    <3>2. soc_alerts'[a] = NewRow(r[1], x)
      BY <3>1 DEF TypeOK, Stored
    <3> QED BY <3>2, AssessmentsQuiet, NewRowType DEF Quiet
  <2> QED BY <2>1, <2>2
<1> QED BY <1>1, <1>2, TypeCorrect, PTL DEF Spec

-----------------------------------------------------------------------------
(* Incidents *)

\* The alerts cycles hold are stored, and no alert is held by two of them; a
\* cycle between runs holds none.
HeldAlerts ==
    /\ \A c \in Cycles : mine[c] \subseteq Stored
    /\ \A c, d \in Cycles : c # d => mine[c] \intersect mine[d] = {}
    /\ \A c \in Cycles : pc[c] = "idle" => mine[c] = {}

\* What a cycle has yet to correlate is in no incident.
Uncorrelated ==
    \A c \in Cycles : pc[c] = "score" =>
        \A i \in incidents : i.cluster \intersect mine[c] = {}

EvidenceInv == HeldAlerts /\ Uncorrelated /\ IncidentsCountAlerts

\* A step that sends no incident keeps what those sent count.
LEMMA EvidenceKept ==
    ASSUME TypeOK, IncidentsCountAlerts, [Next]_vars, incidents' = incidents
    PROVE  IncidentsCountAlerts'
<1> SUFFICES ASSUME NEW i \in incidents
             PROVE  /\ i.cluster \subseteq Stored'
                    /\ Cardinality(i.alert_ids) = Cardinality(i.cluster)
                    /\ IsIncident(i.cluster)'
                    /\ \A j \in incidents \ {i} :
                            i.cluster \intersect j.cluster = {}
  BY DEF IncidentsCountAlerts
<1>1. /\ i.cluster \subseteq Stored
      /\ Cardinality(i.alert_ids) = Cardinality(i.cluster)
      /\ IsIncident(i.cluster)
      /\ \A j \in incidents \ {i} : i.cluster \intersect j.cluster = {}
  BY DEF IncidentsCountAlerts
<1>2. \A a \in i.cluster :
            /\ a \in Stored'
            /\ soc_alerts'[a].threat_level = soc_alerts[a].threat_level
  BY <1>1, RowsStay
<1>3. IsIncident(i.cluster)'
  BY <1>1, <1>2 DEF IsIncident
<1> QED BY <1>1, <1>2, <1>3

\* A step that lets no cycle hold more keeps what is known of what they hold.
LEMMA HeldKept ==
    ASSUME TypeOK, EvidenceInv, [Next]_vars, incidents' = incidents,
           \A c \in Cycles :
              /\ mine'[c] = mine[c] \/ mine'[c] = {}
              /\ pc'[c] = "score" => pc[c] = "score" \/ mine'[c] = {}
              /\ pc'[c] = "idle" => pc[c] = "idle" \/ mine'[c] = {}
    PROVE  EvidenceInv'
<1>1. \A a \in Stored : a \in Stored'
  BY RowsStay
<1>2. \A c \in Cycles : mine'[c] \subseteq mine[c]
  OBVIOUS
<1>3. HeldAlerts'
  BY <1>1, <1>2 DEF EvidenceInv, HeldAlerts
<1>4. Uncorrelated'
  BY <1>2 DEF EvidenceInv, Uncorrelated
<1> QED BY <1>3, <1>4, EvidenceKept DEF EvidenceInv

LEMMA EvidenceStep == TypeOK /\ EvidenceInv /\ [Next]_vars => EvidenceInv'
<1> SUFFICES ASSUME TypeOK, EvidenceInv, [Next]_vars
             PROVE  EvidenceInv'
  OBVIOUS
<1> USE DEF cycleVars, statsVars
<1>1. ASSUME NEW c \in Cycles, Start(c)
      PROVE  EvidenceInv'
  BY <1>1, HeldKept DEF Start, TypeOK, EvidenceInv, HeldAlerts
<1>2. ASSUME NEW c \in Cycles, NEW r \in Results, NEW a \in Alerts,
             StoreAlert(c, r, a)
      PROVE  EvidenceInv'
  <2>1. /\ a \notin Stored /\ a \in Stored'
        /\ \A b \in Stored : b \in Stored'
    <3>1. PICK x \in Assessments :
              soc_alerts' = [soc_alerts EXCEPT ![a] = NewRow(r[1], x)]
      BY <1>2 DEF StoreAlert
    <3>2. soc_alerts'[a] # NoAlert
      BY <3>1, NewRowType, NoAlertAssumption DEF TypeOK
    <3> QED BY <1>2, <3>2, RowsStay DEF StoreAlert, Stored
  <2>2. /\ mine' = [mine EXCEPT ![c] = @ \union {a}]
        /\ pc' = pc /\ incidents' = incidents /\ pc[c] = "score"
    BY <1>2 DEF StoreAlert
  <2>3. \A d \in Cycles : mine'[d] = IF d = c THEN mine[c] \union {a}
                                            ELSE mine[d]
    BY <2>2 DEF TypeOK
  <2>4. \A d \in Cycles : a \notin mine[d]
    BY <2>1 DEF EvidenceInv, HeldAlerts
  <2>5. HeldAlerts'
    BY <2>1, <2>2, <2>3, <2>4 DEF EvidenceInv, HeldAlerts
  <2>6. \A i \in incidents : a \notin i.cluster
    BY <2>1 DEF EvidenceInv, IncidentsCountAlerts
  <2>7. Uncorrelated'
    BY <2>2, <2>3, <2>6 DEF EvidenceInv, Uncorrelated
  <2> QED BY <2>2, <2>5, <2>7, EvidenceKept DEF EvidenceInv
<1>3. ASSUME NEW c \in Cycles, Correlate(c)
      PROVE  EvidenceInv'
  <2>1. /\ pc[c] = "score" /\ pc' = [pc EXCEPT ![c] = "announce"]
        /\ soc_alerts' = soc_alerts /\ mine' = mine
    BY <1>3 DEF Correlate
  <2>2. \A i \in incidents' :
            \/ i \in incidents
            \/ /\ i.cluster = mine[c] /\ IsIncident(mine[c])
               /\ Cardinality(i.alert_ids) = Cardinality(i.cluster)
               /\ incidents' = incidents \union {i}
    BY <1>3, OneIncident
  <2>3. HeldAlerts'
    BY <2>1 DEF EvidenceInv, HeldAlerts, TypeOK, Stored
  <2>4. Uncorrelated'
    BY <2>1, <2>2 DEF EvidenceInv, Uncorrelated, HeldAlerts, TypeOK
  <2>5. \A i \in incidents : i.cluster \intersect mine[c] = {}
    BY <2>1 DEF EvidenceInv, Uncorrelated
  <2>6. ASSUME NEW i \in incidents'
        PROVE  /\ i.cluster \subseteq Stored' /\ IsIncident(i.cluster)'
               /\ Cardinality(i.alert_ids) = Cardinality(i.cluster)
               /\ \A j \in incidents' \ {i} :
                        i.cluster \intersect j.cluster = {}
    <3>1. Stored' = Stored /\ (IsIncident(i.cluster)' <=> IsIncident(i.cluster))
      BY <2>1 DEF Stored, IsIncident
    <3>2. CASE i \in incidents
      <4>1. \A j \in incidents' \ {i} : i.cluster \intersect j.cluster = {}
        BY <2>2, <2>5, <3>2 DEF EvidenceInv, IncidentsCountAlerts
      <4> QED
        BY <3>1, <3>2, <4>1 DEF EvidenceInv, IncidentsCountAlerts
    <3>3. CASE i \notin incidents
      BY <2>2, <2>5, <3>1, <3>3 DEF EvidenceInv, HeldAlerts
    <3> QED BY <3>2, <3>3
  <2>7. IncidentsCountAlerts'
    BY <2>6 DEF IncidentsCountAlerts
  <2> QED BY <2>3, <2>4, <2>7 DEF EvidenceInv
<1>4. ASSUME NEW c \in Cycles, Announce(c)
      PROVE  EvidenceInv'
  BY <1>4, HeldKept DEF Announce, TypeOK
<1>5. ASSUME NEW c \in Cycles, Abort(c)
      PROVE  EvidenceInv'
  BY <1>5, HeldKept DEF Abort, TypeOK
<1>6. ASSUME NEW a \in Alerts, NEW open \in BOOLEAN, UpdateStatus(a, open)
      PROVE  EvidenceInv'
  BY <1>6, HeldKept DEF UpdateStatus
<1>7. ASSUME NEW q \in Readers, ReadStats(q) \/ CacheStats(q)
      PROVE  EvidenceInv'
  BY <1>7, HeldKept DEF ReadStats, CacheStats
<1>8. CASE ExpireStats
  BY <1>8, HeldKept DEF ExpireStats
<1>9. CASE Restart
  BY <1>9, HeldKept DEF Restart
<1>10. CASE UNCHANGED vars
  BY <1>10, HeldKept DEF vars
<1> QED
  BY <1>1, <1>2, <1>3, <1>4, <1>5, <1>6, <1>7, <1>8, <1>9, <1>10
     DEF Next, CycleStep

\* Every incident counts alerts that are in the table, as many as the ids it
\* carries, and shares none with another, however cycles overlap, fail or are
\* cut off.
THEOREM IncidentCountsHold == Spec => []IncidentsCountAlerts
<1>1. Init => EvidenceInv
  BY DEF Init, EvidenceInv, HeldAlerts, Uncorrelated, IncidentsCountAlerts,
         Stored
<1>2. EvidenceInv => IncidentsCountAlerts
  BY DEF EvidenceInv
<1> QED BY <1>1, <1>2, EvidenceStep, TypeCorrect, PTL DEF Spec

=============================================================================
