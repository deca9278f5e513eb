---------------------- MODULE FeedbackSuppressionProofs ----------------------
(***************************************************************************)
(* Theorems about FeedbackSuppression: its type invariant, that suppression *)
(* always rests on stored feedback, and what a refresh and a startup        *)
(* install, for every set of alerts, entities, rules, requests and cycles   *)
(* and every number of failures and restarts.                               *)
(***************************************************************************)
EXTENDS FeedbackSuppression, TLAPS

-----------------------------------------------------------------------------
(* The list that is built *)

\* The list built from a set of patterns suppresses those pairs and no other,
\* and never carries the ALL marker.
LEMMA NewMapPairs ==
    ASSUME NEW P \in SUBSET Pairs
    PROVE  /\ NewMap(P) \in [Entities -> SUBSET (Rules \union {ALL})]
           /\ \A e \in Entities : ALL \notin NewMap(P)[e]
           /\ {p \in Pairs : p[2] \in NewMap(P)[p[1]]} = P
<1> DEFINE rulesFor(e) == {r \in Rules : <<e, r>> \in P}
<1>1. ASSUME NEW e \in Entities
      PROVE  NewMap(P)[e] = rulesFor(e)
  <2>1. CASE \E p \in P : p[1] = e
    <3>1. PICK p \in P : p[1] = e
      BY <2>1
    <3>2. p[2] \in rulesFor(e)
      BY <3>1 DEF Pairs
    <3> QED
      BY <2>1, <3>2 DEF NewMap
  <2>2. CASE ~\E p \in P : p[1] = e
    <3>1. rulesFor(e) = {}
      BY <2>2
    <3> QED
      BY <2>2, <3>1 DEF NewMap
  <2> QED
    BY <2>1, <2>2
<1>2. NewMap(P) \in [Entities -> SUBSET (Rules \union {ALL})]
  <2>1. NewMap(P) = [e \in Entities |-> NewMap(P)[e]]
    BY DEF NewMap
  <2> QED
    BY <1>1, <2>1
<1>3. \A e \in Entities : ALL \notin NewMap(P)[e]
  BY <1>1, DistinctValues
<1>4. {p \in Pairs : p[2] \in NewMap(P)[p[1]]} = P
  <2>1. ASSUME NEW p \in Pairs
        PROVE  p[2] \in NewMap(P)[p[1]] <=> p \in P
    <3>1. p[1] \in Entities /\ p[2] \in Rules /\ p = <<p[1], p[2]>>
      BY DEF Pairs
    <3> QED
      BY <1>1, <3>1
  <2> QED
    BY <2>1
<1> QED
  BY <1>2, <1>3, <1>4

\* What a feedback row contributes is a set of pairs.
LEMMA PairsOfType ==
    ASSUME TypeOK, NEW f
    PROVE  PairsOf(f) \in SUBSET Pairs
<1>1. CASE f.alert_id \in StoredAlerts
  <2>1. soc_alerts[f.alert_id] \in Result
    BY <1>1 DEF TypeOK, StoredAlerts
  <2> QED
    BY <1>1, <2>1 DEF PairsOf, Result, Pairs
<1>2. CASE f.alert_id \notin StoredAlerts
  BY <1>2 DEF PairsOf
<1> QED
  BY <1>1, <1>2

\* A listing returns labels.
LEMMA FPRowsType == TypeOK => FPRows \in SUBSET Feedback
BY DEF TypeOK, FPRows

\* Install puts exactly its patterns in force.
LEMMA InstallEffect ==
    ASSUME TypeOK, NEW w \in Refreshers, NEW P \in SUBSET Pairs, Install(w, P)
    PROVE  /\ Enforced' = P
           /\ \A e \in Entities : ALL \notin suppressed_entities'[e]
<1>1. suppressed_entities' = NewMap(P)
  BY DEF Install
<1>2. Enforced' = {p \in Pairs : p[2] \in suppressed_entities'[p[1]]}
  BY DEF Enforced, Pairs
<1> QED
  BY <1>1, <1>2, NewMapPairs

\* What is listed after an insert: the new label if it is a false positive,
\* and nothing that was not listed before.
LEMMA NewestType ==
    ASSUME TypeOK, NEW label \in Feedback
    PROVE  NewestAfter(label) \in [1 .. FPLimit -> Feedback \union {NoLabel}]
<1>1. \A i \in 1 .. FPLimit : i # 1 => i - 1 \in 1 .. FPLimit
  BY LimitPositive
<1> QED
  BY <1>1 DEF NewestAfter, TypeOK

\* A refresh that ends keeps every variable in its type.
LEMMA InstallType ==
    ASSUME TypeOK, NEW w \in Refreshers, NEW P \in SUBSET Pairs, Install(w, P),
           pc[w] # "idle"
    PROVE  /\ suppressed_entities' \in [Entities -> SUBSET (Rules \union {ALL})]
           /\ pc' \in [Refreshers -> {"idle", "list", "lookup"}]
           /\ request' \in [Analysts -> Feedback \union {NoRequest}]
           /\ saved' \in [Analysts -> BOOLEAN]
           /\ rows' \in [Refreshers -> SUBSET Feedback]
           /\ patterns' \in [Refreshers -> SUBSET Pairs]
           /\ acked' \in SUBSET Feedback
           /\ missed' \in SUBSET Analysts
           /\ \A v \in Analysts : pc'[v] # "idle" => request'[v] \in Feedback
<1>1. suppressed_entities' \in [Entities -> SUBSET (Rules \union {ALL})]
  BY NewMapPairs DEF Install
<1>2. CASE w \in Analysts
  <2>1. acked' \in SUBSET Feedback
    <3>1. CASE saved[w] /\ request[w] \in FPRows
      BY <1>2, <3>1, FPRowsType DEF TypeOK, Install
    <3>2. CASE ~(saved[w] /\ request[w] \in FPRows)
      BY <1>2, <3>2 DEF TypeOK, Install
    <3> QED
      BY <3>1, <3>2
  <2>2. \A v \in Analysts : pc'[v] # "idle" => request'[v] \in Feedback
    BY <1>2 DEF TypeOK, Install, Refreshers
  <2> QED
    BY <1>1, <1>2, <2>1, <2>2 DEF TypeOK, Install, Refreshers
<1>3. CASE w \notin Analysts
  BY <1>1, <1>3 DEF TypeOK, Install, Refreshers
<1> QED
  BY <1>2, <1>3

-----------------------------------------------------------------------------
(* The type invariant *)

LEMMA TypeStep == TypeOK /\ [Next]_vars => TypeOK'
<1> SUFFICES ASSUME TypeOK, [Next]_vars
             PROVE  TypeOK'
  OBVIOUS
<1>1. ASSUME NEW w \in Analysts, NEW a \in Alerts \union UnknownAlerts,
             NEW l \in Labels, SubmitFeedback(w, a, l)
      PROVE  TypeOK'
  <2>1. [alert_id |-> a, label |-> l] \in Feedback
    BY DEF Feedback
  <2>2. w \in Refreshers
    BY DEF Refreshers
  <2>3. /\ soc_feedback' \in SUBSET Feedback
        /\ newest' \in [1 .. FPLimit -> Feedback \union {NoLabel}]
        /\ acked' \in SUBSET Feedback
        /\ saved' \in [Analysts -> BOOLEAN]
        /\ faults' \in 0 .. MaxFaults
    <3>1. CASE Fault /\ UNCHANGED <<soc_feedback, newest, acked, saved>>
      BY <3>1, FaultBound DEF Fault, TypeOK
    <3>2. CASE /\ soc_feedback' = soc_feedback
                                    \union {[alert_id |-> a, label |-> l]}
               /\ newest' = NewestAfter([alert_id |-> a, label |-> l])
               /\ acked' = acked \intersect FPRows'
               /\ saved' = [saved EXCEPT ![w] = TRUE]
               /\ UNCHANGED faults
      BY <2>1, <3>2, NewestType DEF TypeOK
    <3> QED
      BY <1>1, <3>1, <3>2 DEF SubmitFeedback
  <2>4. /\ request' \in [Analysts -> Feedback \union {NoRequest}]
        /\ pc' \in [Refreshers -> {"idle", "list", "lookup"}]
        /\ \A v \in Analysts : pc'[v] # "idle" => request'[v] \in Feedback
    BY <1>1, <2>1, <2>2 DEF SubmitFeedback, TypeOK, Refreshers
  <2> QED
    BY <1>1, <2>3, <2>4 DEF SubmitFeedback, TypeOK
<1>2. ASSUME NEW w \in Refreshers, ListFeedback(w)
      PROVE  TypeOK'
  <2>1. CASE Install(w, {})
    BY <1>2, <2>1, InstallType DEF ListFeedback, TypeOK
  <2>2. CASE ~Install(w, {})
    <3>1. missed' \in SUBSET Analysts
      BY <1>2, <2>2 DEF ListFeedback, NoteMissed, TypeOK
    <3> QED
      BY <1>2, <2>2, <3>1, FPRowsType DEF ListFeedback, TypeOK, Refreshers
  <2> QED
    BY <2>1, <2>2
<1>3. ASSUME NEW w \in Refreshers, NEW f \in Feedback, LookupAlert(w, f)
      PROVE  TypeOK'
  <2> DEFINE found == patterns[w] \union PairsOf(f)
  <2>1. found \in SUBSET Pairs
    BY PairsOfType DEF TypeOK
  <2> HIDE DEF found
  <2>2. CASE rows[w] = {f} /\ Install(w, found)
    BY <1>3, <2>1, <2>2, InstallType DEF LookupAlert, TypeOK
  <2>3. CASE rows' = [rows EXCEPT ![w] = @ \ {f}]
             /\ patterns' = [patterns EXCEPT ![w] = found]
             /\ UNCHANGED <<suppressed_entities, pc, acked, missed, request,
                             saved>>
    BY <1>3, <2>1, <2>3 DEF LookupAlert, TypeOK
  <2> QED
    BY <1>3, <2>2, <2>3 DEF LookupAlert, found
<1>4. ASSUME NEW w \in Refreshers, RefreshFails(w)
      PROVE  TypeOK'
  BY <1>4, InstallType, FaultBound DEF RefreshFails, Fault, TypeOK
<1>5. ASSUME NEW c \in Cycles, NEW e \in Entities, NEW triggered \in SUBSET Rules,
             ScoreResult(c, e, triggered)
      PROVE  TypeOK'
  <2>1. ShouldSuppress(e, triggered) \in BOOLEAN
    BY DEF ShouldSuppress
  <2>2. [entity_key |-> e, triggered_rules |-> triggered,
         suppressed |-> ShouldSuppress(e, triggered)] \in Result
    BY <2>1 DEF Result
  <2> QED
    BY <1>5, <2>2 DEF ScoreResult, refreshVars, TypeOK
<1>6. ASSUME NEW c \in Cycles, NEW a \in Alerts, StoreAlert(c, a)
      PROVE  TypeOK'
  BY <1>6 DEF StoreAlert, refreshVars, TypeOK
<1>7. ASSUME NEW c \in Cycles, StoreFails(c)
      PROVE  TypeOK'
  BY <1>7, FaultBound DEF StoreFails, Fault, refreshVars, TypeOK
<1>8. CASE Restart
  BY <1>8, FaultBound, DistinctValues DEF Restart, Fault, TypeOK, Refreshers
<1>9. CASE UNCHANGED vars
  BY <1>9 DEF vars, TypeOK
<1> QED
  BY <1>1, <1>2, <1>3, <1>4, <1>5, <1>6, <1>7, <1>8, <1>9 DEF Next, RefreshStep

LEMMA TypeInit == Init => TypeOK
BY FaultBound, DistinctValues DEF Init, TypeOK, Refreshers

\* Every variable keeps its type: tables, list, snapshots and decisions.
THEOREM TypeCorrect == Spec => []TypeOK
BY TypeInit, TypeStep, PTL DEF Spec

-----------------------------------------------------------------------------
(* Suppression rests on stored feedback *)

\* Some stored FP row covers a rule of this result.
Covered(e, triggered) == \E r \in triggered : <<e, r>> \in Labelled

RowsAreFP == \A v \in Refreshers : rows[v] \subseteq StoredFP

FoundAreLabelled == \A v \in Refreshers : patterns[v] \subseteq Labelled

\* What a listing returns is stored, and it returns something if it can.
ListedAreStored ==
    /\ FPRows \subseteq StoredFP
    /\ FPRows = {} => StoredFP = {}

NoMarker == \A e \in Entities : ALL \notin suppressed_entities[e]

DecisionsCovered ==
    \A c \in Cycles :
        cycle[c] # NoResult /\ cycle[c].suppressed =>
            Covered(cycle[c].entity_key, cycle[c].triggered_rules)

\* The inductive invariant behind both properties: what refreshers carry and
\* what cycles decided stays covered, because the two tables only grow.
JustifiedInv ==
    /\ ListedAreStored
    /\ RowsAreFP
    /\ FoundAreLabelled
    /\ NoMarker
    /\ DecisionsCovered
    /\ SuppressionJustified
    /\ SuppressedByAnotherAlert

\* Rows are never changed or removed: neither labels nor stored alerts.
LEMMA TablesGrow ==
    ASSUME TypeOK, [Next]_vars
    PROVE  /\ soc_feedback \subseteq soc_feedback'
           /\ \A a \in StoredAlerts : soc_alerts'[a] = soc_alerts[a]
<1>1. ASSUME NEW w \in Analysts, NEW a \in Alerts \union UnknownAlerts,
             NEW l \in Labels, SubmitFeedback(w, a, l)
      PROVE  soc_feedback \subseteq soc_feedback' /\ soc_alerts' = soc_alerts
  BY <1>1 DEF SubmitFeedback
<1>2. ASSUME NEW w \in Refreshers, RefreshStep(w)
      PROVE  soc_feedback \subseteq soc_feedback' /\ soc_alerts' = soc_alerts
  BY <1>2 DEF RefreshStep, ListFeedback, LookupAlert, RefreshFails
<1>3. ASSUME NEW c \in Cycles, NEW e \in Entities, NEW triggered \in SUBSET Rules,
             ScoreResult(c, e, triggered)
      PROVE  soc_feedback \subseteq soc_feedback' /\ soc_alerts' = soc_alerts
  BY <1>3 DEF ScoreResult
<1>4. ASSUME NEW c \in Cycles, NEW a \in Alerts, StoreAlert(c, a)
      PROVE  /\ soc_feedback \subseteq soc_feedback'
             /\ \A b \in StoredAlerts : soc_alerts'[b] = soc_alerts[b]
  BY <1>4 DEF StoreAlert, StoredAlerts, TypeOK
<1>5. ASSUME NEW c \in Cycles, StoreFails(c)
      PROVE  soc_feedback \subseteq soc_feedback' /\ soc_alerts' = soc_alerts
  BY <1>5 DEF StoreFails
<1>6. CASE Restart
  BY <1>6 DEF Restart
<1>7. CASE UNCHANGED vars
  BY <1>7 DEF vars
<1> QED
  BY <1>1, <1>2, <1>3, <1>4, <1>5, <1>6, <1>7 DEF Next

\* So what a row contributes, and all that was labelled, only grows too.
LEMMA LabelledGrows ==
    ASSUME TypeOK, [Next]_vars
    PROVE  /\ StoredAlerts \subseteq StoredAlerts'
           /\ StoredFP \subseteq StoredFP'
           /\ \A f : PairsOf(f) \subseteq PairsOf(f)'
           /\ Labelled \subseteq Labelled'
<1>1. StoredAlerts \subseteq StoredAlerts'
  BY TablesGrow DEF StoredAlerts
<1>2. StoredFP \subseteq StoredFP'
  BY TablesGrow DEF StoredFP
<1>3. ASSUME NEW f
      PROVE  PairsOf(f) \subseteq PairsOf(f)'
  BY <1>1, TablesGrow DEF PairsOf
<1>4. Labelled \subseteq Labelled'
  BY <1>2, <1>3 DEF Labelled
<1> QED
  BY <1>1, <1>2, <1>3, <1>4

\* After an insert a listing returns the new false positive and some of what
\* it returned before; every other step leaves the listing alone.
LEMMA ListedAfterInsert ==
    ASSUME TypeOK, NEW label \in Feedback, newest' = NewestAfter(label)
    PROVE  /\ label.label = "FP" => label \in FPRows'
           /\ FPRows' \subseteq FPRows
                               \union (IF label.label = "FP" THEN {label} ELSE {})
           /\ label.label # "FP" => FPRows' = FPRows
<1>1. CASE label.label = "FP"
  <2>1. newest' = [i \in 1 .. FPLimit |-> IF i = 1 THEN label ELSE newest[i - 1]]
    BY <1>1 DEF NewestAfter
  <2>2. 1 \in 1 .. FPLimit /\ newest'[1] = label
    BY <2>1, LimitPositive
  <2>3. label # NoLabel
    BY DistinctValues DEF Feedback
  <2>4. ASSUME NEW i \in 1 .. FPLimit
        PROVE  newest'[i] = label \/ \E j \in 1 .. FPLimit : newest'[i] = newest[j]
    <3>1. CASE i = 1
      BY <2>2, <3>1
    <3>2. CASE i # 1
      <4>1. i - 1 \in 1 .. FPLimit
        BY <3>2, LimitPositive
      <4>2. newest'[i] = newest[i - 1]
        BY <2>1, <3>2
      <4> QED
        BY <4>1, <4>2
    <3> QED
      BY <3>1, <3>2
  <2>5. label \in FPRows'
    BY <2>2, <2>3 DEF FPRows
  <2>6. ASSUME NEW g \in FPRows'
        PROVE  g \in FPRows \union {label}
    <3>1. PICK i \in 1 .. FPLimit : g = newest'[i] /\ g # NoLabel
      BY DEF FPRows
    <3> QED
      BY <2>4, <3>1 DEF FPRows
  <2> QED
    BY <1>1, <2>5, <2>6
<1>2. CASE label.label # "FP"
  <2>1. newest' = newest
    BY <1>2 DEF NewestAfter
  <2> QED
    BY <1>2, <2>1 DEF FPRows
<1> QED
  BY <1>1, <1>2

LEMMA ListedFixed == UNCHANGED newest => FPRows' = FPRows
BY DEF FPRows

LEMMA ListedStep ==
    ASSUME TypeOK, ListedAreStored, [Next]_vars
    PROVE  ListedAreStored'
<1>1. ASSUME NEW w \in Analysts, NEW a \in Alerts \union UnknownAlerts,
             NEW l \in Labels, SubmitFeedback(w, a, l)
      PROVE  ListedAreStored'
  <2> DEFINE label == [alert_id |-> a, label |-> l]
  <2>1. label \in Feedback
    BY DEF Feedback
  <2>2. CASE soc_feedback' = soc_feedback \union {label}
             /\ newest' = NewestAfter(label)
    <3>1. label.label = "FP" => StoredFP' = StoredFP \union {label}
      BY <2>2 DEF StoredFP
    <3>2. label.label # "FP" => StoredFP' = StoredFP
      BY <2>2 DEF StoredFP
    <3> HIDE DEF label
    <3> QED
      BY <2>1, <2>2, <3>1, <3>2, ListedAfterInsert DEF ListedAreStored
  <2>3. CASE UNCHANGED <<soc_feedback, newest>>
    BY <2>3, ListedFixed DEF ListedAreStored, StoredFP
  <2> QED
    BY <1>1, <2>2, <2>3 DEF SubmitFeedback
<1>2. CASE UNCHANGED <<soc_feedback, newest>>
  BY <1>2, ListedFixed DEF ListedAreStored, StoredFP
<1> QED
  BY <1>1, <1>2 DEF Next, RefreshStep, ListFeedback, LookupAlert, RefreshFails,
                    ScoreResult, StoreAlert, StoreFails, Restart, vars

\* A refresh that installs labelled patterns keeps the list justified.
LEMMA InstallJustified ==
    ASSUME TypeOK, NEW w \in Refreshers, NEW P \in SUBSET Pairs, Install(w, P),
           P \subseteq Labelled, Labelled \subseteq Labelled',
           StoredFP \subseteq StoredFP', RowsAreFP, FoundAreLabelled
    PROVE  RowsAreFP' /\ FoundAreLabelled' /\ NoMarker' /\ SuppressionJustified'
<1>1. SuppressionJustified' /\ NoMarker'
  BY InstallEffect DEF SuppressionJustified, NoMarker
<1>2. \A v \in Refreshers : rows'[v] \subseteq rows[v]
                            /\ patterns'[v] \subseteq patterns[v]
  BY DEF Install, TypeOK
<1>3. RowsAreFP'
  BY <1>2 DEF RowsAreFP
<1>4. FoundAreLabelled'
  BY <1>2 DEF FoundAreLabelled
<1> QED
  BY <1>1, <1>3, <1>4

\* A suppressed result is one whose entity and rule are on the list.
LEMMA SuppressDecision ==
    ASSUME NoMarker, SuppressionJustified,
           NEW e \in Entities, NEW triggered \in SUBSET Rules,
           ShouldSuppress(e, triggered)
    PROVE  Covered(e, triggered)
<1>1. PICK r \in triggered : r \in suppressed_entities[e]
  BY DEF NoMarker, ShouldSuppress
<1>2. <<e, r>> \in Enforced
  BY <1>1 DEF Enforced, Pairs
<1> QED
  BY <1>1, <1>2 DEF Covered, SuppressionJustified

\* What is already covered, and every alert already stored, stays so.
LEMMA CoveredStays ==
    ASSUME TypeOK, [Next]_vars, JustifiedInv
    PROVE  /\ cycle' = cycle => DecisionsCovered'
           /\ soc_alerts' = soc_alerts => SuppressedByAnotherAlert'
           /\ UNCHANGED suppressed_entities => SuppressionJustified' /\ NoMarker'
           /\ UNCHANGED rows => RowsAreFP'
           /\ UNCHANGED patterns => FoundAreLabelled'
<1>1. cycle' = cycle => DecisionsCovered'
  BY LabelledGrows DEF JustifiedInv, DecisionsCovered, Covered
<1>2. soc_alerts' = soc_alerts => SuppressedByAnotherAlert'
  <2> SUFFICES ASSUME soc_alerts' = soc_alerts,
                      NEW a \in StoredAlerts, soc_alerts[a].suppressed
               PROVE  (\E f \in StoredFP :
                        /\ f.alert_id # a
                        /\ \E r \in soc_alerts[a].triggered_rules :
                            <<soc_alerts[a].entity_key, r>> \in PairsOf(f))'
    BY DEF SuppressedByAnotherAlert, StoredAlerts
  <2>1. PICK f \in StoredFP :
            /\ f.alert_id # a
            /\ \E r \in soc_alerts[a].triggered_rules :
                <<soc_alerts[a].entity_key, r>> \in PairsOf(f)
    BY DEF JustifiedInv, SuppressedByAnotherAlert
  <2>2. f \in StoredFP' /\ PairsOf(f) \subseteq PairsOf(f)'
    BY LabelledGrows
  <2> QED
    BY <2>1, <2>2
<1>3. UNCHANGED suppressed_entities => SuppressionJustified' /\ NoMarker'
  BY LabelledGrows DEF JustifiedInv, SuppressionJustified, NoMarker, Enforced, Pairs
<1>4. UNCHANGED rows => RowsAreFP'
  BY LabelledGrows DEF JustifiedInv, RowsAreFP
<1>5. UNCHANGED patterns => FoundAreLabelled'
  BY LabelledGrows DEF JustifiedInv, FoundAreLabelled
<1> QED
  BY <1>1, <1>2, <1>3, <1>4, <1>5

LEMMA JustifiedStep == TypeOK /\ JustifiedInv /\ [Next]_vars => JustifiedInv'
<1> SUFFICES ASSUME TypeOK, JustifiedInv, [Next]_vars
             PROVE  JustifiedInv'
  OBVIOUS
<1> USE LabelledGrows, CoveredStays, ListedStep
<1>1. ASSUME NEW w \in Analysts, NEW a \in Alerts \union UnknownAlerts,
             NEW l \in Labels, SubmitFeedback(w, a, l)
      PROVE  JustifiedInv'
  BY <1>1 DEF SubmitFeedback, JustifiedInv
<1>2. ASSUME NEW w \in Refreshers, ListFeedback(w)
      PROVE  JustifiedInv'
  <2>1. CASE Install(w, {})
    BY <1>2, <2>1, InstallJustified DEF ListFeedback, JustifiedInv
  <2>2. CASE ~Install(w, {})
    <3>1. RowsAreFP'
      BY <1>2, <2>2
      DEF ListFeedback, JustifiedInv, ListedAreStored, RowsAreFP, TypeOK
    <3> QED
      BY <1>2, <2>2, <3>1 DEF ListFeedback, JustifiedInv
  <2> QED
    BY <2>1, <2>2
<1>3. ASSUME NEW w \in Refreshers, NEW f \in Feedback, LookupAlert(w, f)
      PROVE  JustifiedInv'
  <2> DEFINE found == patterns[w] \union PairsOf(f)
  <2>1. found \in SUBSET Pairs
    BY PairsOfType DEF TypeOK
  <2>2. found \subseteq Labelled
    BY <1>3 DEF LookupAlert, JustifiedInv, RowsAreFP, FoundAreLabelled, Labelled
  <2> HIDE DEF found
  <2>3. CASE Install(w, found)
    BY <1>3, <2>1, <2>2, <2>3, InstallJustified DEF LookupAlert, JustifiedInv
  <2>4. CASE rows' = [rows EXCEPT ![w] = @ \ {f}]
             /\ patterns' = [patterns EXCEPT ![w] = found]
             /\ UNCHANGED <<suppressed_entities, pc, acked, missed, request,
                             saved>>
    <3>1. RowsAreFP'
      BY <2>4 DEF JustifiedInv, RowsAreFP, TypeOK
    <3>2. FoundAreLabelled'
      BY <2>2, <2>4 DEF JustifiedInv, FoundAreLabelled, TypeOK
    <3> QED
      BY <1>3, <2>4, <3>1, <3>2 DEF LookupAlert, JustifiedInv
  <2> QED
    BY <1>3, <2>3, <2>4 DEF LookupAlert, found
<1>4. ASSUME NEW w \in Refreshers, RefreshFails(w)
      PROVE  JustifiedInv'
  BY <1>4, InstallJustified DEF RefreshFails, JustifiedInv
<1>5. ASSUME NEW c \in Cycles, NEW e \in Entities, NEW triggered \in SUBSET Rules,
             ScoreResult(c, e, triggered)
      PROVE  JustifiedInv'
  <2>1. ShouldSuppress(e, triggered) => Covered(e, triggered)
    BY SuppressDecision DEF JustifiedInv
  <2>2. DecisionsCovered'
    <3>1. \A d \in Cycles : d # c => cycle'[d] = cycle[d]
      BY <1>5 DEF ScoreResult, TypeOK
    <3>2. cycle'[c] = [entity_key |-> e, triggered_rules |-> triggered,
                       suppressed |-> ShouldSuppress(e, triggered)]
      BY <1>5 DEF ScoreResult, TypeOK
    <3> QED
      BY <2>1, <3>1, <3>2 DEF JustifiedInv, DecisionsCovered, Covered
  <2> QED
    BY <1>5, <2>2 DEF ScoreResult, refreshVars, JustifiedInv
<1>6. ASSUME NEW c \in Cycles, NEW a \in Alerts, StoreAlert(c, a)
      PROVE  JustifiedInv'
  <2>1. DecisionsCovered'
    BY <1>6 DEF StoreAlert, JustifiedInv, DecisionsCovered, Covered, TypeOK
  <2>2. SuppressedByAnotherAlert'
    <3> SUFFICES ASSUME NEW b \in StoredAlerts', soc_alerts'[b].suppressed
                 PROVE  \E f \in StoredFP' :
                            /\ f.alert_id # b
                            /\ \E r \in soc_alerts'[b].triggered_rules :
                                <<soc_alerts'[b].entity_key, r>> \in PairsOf(f)'
      BY DEF SuppressedByAnotherAlert
    <3>1. CASE b = a
      <4>1. soc_alerts'[b] = cycle[c] /\ b \notin StoredAlerts
        BY <1>6, <3>1 DEF StoreAlert, StoredAlerts, TypeOK
      <4>2. PICK r \in cycle[c].triggered_rules :
                <<cycle[c].entity_key, r>> \in Labelled
        BY <1>6, <4>1 DEF StoreAlert, JustifiedInv, DecisionsCovered, Covered
      <4>3. PICK f \in StoredFP : <<cycle[c].entity_key, r>> \in PairsOf(f)
        BY <4>2 DEF Labelled
      <4>4. f.alert_id # b
        BY <4>1, <4>3 DEF PairsOf
      <4> QED
        BY <4>1, <4>2, <4>3, <4>4
    <3>2. CASE b # a
      <4>1. b \in StoredAlerts /\ soc_alerts'[b] = soc_alerts[b]
        BY <1>6, <3>2 DEF StoreAlert, StoredAlerts, TypeOK
      <4>2. PICK f \in StoredFP :
                /\ f.alert_id # b
                /\ \E r \in soc_alerts[b].triggered_rules :
                    <<soc_alerts[b].entity_key, r>> \in PairsOf(f)
        BY <4>1 DEF JustifiedInv, SuppressedByAnotherAlert
      <4> QED
        BY <4>1, <4>2
    <3> QED
      BY <3>1, <3>2
  <2> QED
    BY <1>6, <2>1, <2>2 DEF StoreAlert, refreshVars, JustifiedInv
<1>7. ASSUME NEW c \in Cycles, StoreFails(c)
      PROVE  JustifiedInv'
  <2>1. DecisionsCovered'
    BY <1>7 DEF StoreFails, JustifiedInv, DecisionsCovered, Covered, TypeOK
  <2> QED
    BY <1>7, <2>1 DEF StoreFails, refreshVars, JustifiedInv
<1>8. CASE Restart
  <2>1. DecisionsCovered' /\ RowsAreFP' /\ FoundAreLabelled' /\ NoMarker'
    BY <1>8 DEF Restart, DecisionsCovered, RowsAreFP, FoundAreLabelled, NoMarker
  <2>2. SuppressionJustified'
    BY <1>8 DEF Restart, SuppressionJustified, Enforced, Pairs
  <2> QED
    BY <1>8, <2>1, <2>2 DEF Restart, JustifiedInv
<1>9. CASE UNCHANGED vars
  BY <1>9 DEF vars, JustifiedInv
<1> QED
  BY <1>1, <1>2, <1>3, <1>4, <1>5, <1>6, <1>7, <1>8, <1>9 DEF Next, RefreshStep

LEMMA JustifiedInit == Init => JustifiedInv
<1> SUFFICES ASSUME Init
             PROVE  JustifiedInv
  OBVIOUS
<1>1. RowsAreFP /\ FoundAreLabelled /\ NoMarker /\ DecisionsCovered
  BY DEF Init, RowsAreFP, FoundAreLabelled, NoMarker, DecisionsCovered
<1>4. ListedAreStored
  BY DEF Init, ListedAreStored, FPRows, StoredFP
<1>2. SuppressionJustified
  BY DEF Init, SuppressionJustified, Enforced, Pairs
<1>3. SuppressedByAnotherAlert
  BY DEF Init, SuppressedByAnotherAlert, StoredAlerts
<1> QED
  BY <1>1, <1>2, <1>3, <1>4 DEF JustifiedInv

LEMMA JustifiedAlways == Spec => []JustifiedInv
<1>1. Spec => []TypeOK
  BY TypeCorrect
<1> QED
  BY <1>1, JustifiedInit, JustifiedStep, PTL DEF Spec

\* Nothing is suppressed that no stored false-positive label names, whatever
\* refreshes overlap, fail or are cut off by a restart.
THEOREM NeverUnjustified == Spec => []SuppressionJustified
<1>1. JustifiedInv => SuppressionJustified
  BY DEF JustifiedInv
<1> QED
  BY <1>1, JustifiedAlways, PTL

\* An alert is never stored as suppressed because of feedback about itself:
\* a different alert of the entity was labelled and shares a rule with it.
THEOREM SuppressionNeedsAnotherAlert == Spec => []SuppressedByAnotherAlert
<1>1. JustifiedInv => SuppressedByAnotherAlert
  BY DEF JustifiedInv
<1> QED
  BY <1>1, JustifiedAlways, PTL

-----------------------------------------------------------------------------
(* What a refresh installs *)

\* The pairs refresher v will have found at the end of its loop.
Remaining(v) == patterns[v] \union UNION {PairsOf(f) : f \in rows[v]}

\* A label names an alert that was stored before it, or none at all.
LabelsNameStored ==
    \A f \in soc_feedback : f.alert_id \in StoredAlerts \union UnknownAlerts

\* A request that was saved is in the table, and its loop will reach it if
\* its listing returned it.
OwnLabelCarried ==
    \A w \in Analysts :
        /\ saved[w] => pc[w] # "idle"
        /\ saved[w] /\ request[w].label = "FP" =>
            /\ request[w] \in StoredFP
            /\ pc[w] = "lookup" /\ w \notin missed =>
                    PairsOf(request[w]) \subseteq Remaining(w)

\* During startup no cycle holds a result, and the loop finds just what the
\* listing reports.
BootCarriesAll ==
    pc[Boot] # "idle" =>
        /\ \A c \in Cycles : cycle[c] = NoResult
        /\ pc[Boot] = "lookup" => Remaining(Boot) = Reported
        /\ pc[Boot] = "list" => patterns[Boot] = {}

CarryInv ==
    /\ LabelsNameStored
    /\ acked \subseteq FPRows
    /\ OwnLabelCarried
    /\ BootCarriesAll

\* What a stored label contributes is settled when it is stored.
LEMMA ContributionFixed ==
    ASSUME TypeOK, [Next]_vars, LabelsNameStored, NEW f \in soc_feedback
    PROVE  PairsOf(f)' = PairsOf(f)
<1>1. CASE f.alert_id \in StoredAlerts
  BY <1>1, TablesGrow, LabelledGrows DEF PairsOf
<1>2. CASE f.alert_id \in UnknownAlerts
  BY <1>2, DistinctValues DEF PairsOf, StoredAlerts
<1> QED
  BY <1>1, <1>2 DEF LabelsNameStored

\* A label stored in a step names an alert stored before that step.
LEMMA LabelsStayNamed ==
    ASSUME TypeOK, [Next]_vars, LabelsNameStored
    PROVE  LabelsNameStored'
<1>1. StoredAlerts \subseteq StoredAlerts'
  BY LabelledGrows
<1>2. ASSUME NEW w \in Analysts, NEW a \in Alerts \union UnknownAlerts,
             NEW l \in Labels, SubmitFeedback(w, a, l)
      PROVE  LabelsNameStored'
  <2>1. \A f \in soc_feedback' : f \in soc_feedback \/ f.alert_id = a
    BY <1>2 DEF SubmitFeedback
  <2>2. a \in StoredAlerts \union UnknownAlerts
    BY <1>2 DEF SubmitFeedback
  <2> QED
    BY <1>1, <2>1, <2>2 DEF LabelsNameStored
<1>3. CASE UNCHANGED soc_feedback
  BY <1>1, <1>3 DEF LabelsNameStored
<1> QED
  BY <1>2, <1>3 DEF Next, RefreshStep, ListFeedback, LookupAlert, RefreshFails,
                    ScoreResult, StoreAlert, StoreFails, Restart, vars

\* One row looked up moves its pairs from the rows to the patterns.
LEMMA LookupKeeps ==
    ASSUME TypeOK, NEW w \in Refreshers, NEW f \in rows[w],
           rows' = [rows EXCEPT ![w] = @ \ {f}],
           patterns' = [patterns EXCEPT ![w] = patterns[w] \union PairsOf(f)],
           soc_alerts' = soc_alerts
    PROVE  \A v \in Refreshers : Remaining(v)' = Remaining(v)
<1>1. \A g : PairsOf(g)' = PairsOf(g)
  BY DEF PairsOf, StoredAlerts
<1>2. ASSUME NEW v \in Refreshers
      PROVE  Remaining(v)' = Remaining(v)
  <2>1. CASE v = w
    <3>1. /\ rows'[v] = rows[v] \ {f}
          /\ patterns'[v] = patterns[v] \union PairsOf(f)
      BY <2>1 DEF TypeOK
    <3>2. Remaining(v)' = patterns'[v] \union UNION {PairsOf(g)' : g \in rows'[v]}
      BY DEF Remaining
    <3> QED
      BY <1>1, <2>1, <3>1, <3>2 DEF Remaining
  <2>2. CASE v # w
    <3>1. rows'[v] = rows[v] /\ patterns'[v] = patterns[v]
      BY <2>2 DEF TypeOK
    <3> QED
      BY <1>1, <3>1 DEF Remaining
  <2> QED
    BY <2>1, <2>2
<1> QED
  BY <1>2

\* A refresher that a step does not move keeps what it has left to find.
LEMMA RemainingFixed ==
    ASSUME TypeOK, [Next]_vars, LabelsNameStored, RowsAreFP,
           NEW v \in Refreshers, rows'[v] = rows[v], patterns'[v] = patterns[v]
    PROVE  Remaining(v)' = Remaining(v)
<1>1. \A f \in rows[v] : PairsOf(f)' = PairsOf(f)
  BY ContributionFixed DEF RowsAreFP, StoredFP
<1>2. Remaining(v)' = patterns'[v] \union UNION {PairsOf(f)' : f \in rows'[v]}
  BY DEF Remaining
<1> QED
  BY <1>1, <1>2 DEF Remaining

\* The same for a request that a step does not move.
LEMMA OwnLabelStays ==
    ASSUME TypeOK, [Next]_vars, RowsAreFP, CarryInv, NEW v \in Analysts,
           pc'[v] = pc[v], saved'[v] = saved[v], request'[v] = request[v],
           rows'[v] = rows[v], patterns'[v] = patterns[v],
           v \in missed => v \in missed'
    PROVE  /\ saved'[v] => pc'[v] # "idle"
           /\ saved'[v] /\ request'[v].label = "FP" =>
                /\ request'[v] \in StoredFP'
                /\ pc'[v] = "lookup" /\ v \notin missed' =>
                        PairsOf(request[v])' \subseteq Remaining(v)'
<1>1. v \in Refreshers
  BY DEF Refreshers
<1>2. Remaining(v)' = Remaining(v)
  BY <1>1, RemainingFixed DEF CarryInv
<1>3. StoredFP \subseteq StoredFP'
  BY LabelledGrows
<1>4. ASSUME request[v] \in StoredFP
      PROVE  PairsOf(request[v])' = PairsOf(request[v])
  <2>1. request[v] \in soc_feedback
    BY <1>4 DEF StoredFP
  <2> QED
    BY <2>1, TablesGrow, LabelledGrows, DistinctValues
    DEF PairsOf, StoredAlerts, CarryInv, LabelsNameStored
<1> QED
  BY <1>2, <1>3, <1>4 DEF CarryInv, OwnLabelCarried

\* And for a startup that a step does not move.
LEMMA BootStays ==
    ASSUME TypeOK, [Next]_vars, ListedAreStored, RowsAreFP, CarryInv,
           pc'[Boot] = pc[Boot],
           pc[Boot] # "idle" =>
                /\ rows'[Boot] = rows[Boot] /\ patterns'[Boot] = patterns[Boot]
                /\ newest' = newest /\ cycle' = cycle
    PROVE  BootCarriesAll'
<1> SUFFICES ASSUME pc[Boot] # "idle"
             PROVE  /\ \A c \in Cycles : cycle'[c] = NoResult
                    /\ pc[Boot] = "lookup" => Remaining(Boot)' = Reported'
                    /\ pc[Boot] = "list" => patterns'[Boot] = {}
  BY DEF BootCarriesAll
<1>1. Remaining(Boot)' = Remaining(Boot)
  BY RemainingFixed DEF CarryInv, Refreshers
<1>2. FPRows' = FPRows
  BY ListedFixed
<1>3. \A f \in FPRows : PairsOf(f)' = PairsOf(f)
  BY ContributionFixed DEF CarryInv, ListedAreStored, StoredFP
<1>4. Reported' = Reported
  BY <1>2, <1>3 DEF Reported
<1> QED
  BY <1>1, <1>4 DEF CarryInv, BootCarriesAll

\* The end of a refresh, successful or not.
LEMMA InstallCarries ==
    ASSUME TypeOK, [Next]_vars, ListedAreStored, RowsAreFP, CarryInv,
           NEW w \in Refreshers, NEW P, Install(w, P),
           UNCHANGED <<soc_alerts, soc_feedback, newest, cycle>>
    PROVE  CarryInv'
<1>1. LabelsNameStored'
  BY LabelsStayNamed DEF CarryInv
<1>2. acked' \subseteq FPRows'
  BY ListedFixed DEF Install, CarryInv
<1>3. OwnLabelCarried'
  <2> SUFFICES ASSUME NEW v \in Analysts
               PROVE  /\ saved'[v] => pc'[v] # "idle"
                      /\ saved'[v] /\ request'[v].label = "FP" =>
                            /\ request'[v] \in StoredFP'
                            /\ pc'[v] = "lookup" /\ v \notin missed' =>
                                PairsOf(request[v])' \subseteq Remaining(v)'
    BY DEF OwnLabelCarried
  <2>1. CASE v = w
    BY <2>1 DEF Install, TypeOK
  <2>2. CASE v # w
    BY <2>2, OwnLabelStays DEF Install, TypeOK, Refreshers
  <2> QED
    BY <2>1, <2>2
<1>4. BootCarriesAll'
  <2>1. CASE w = Boot
    BY <2>1 DEF Install, TypeOK, BootCarriesAll, Refreshers
  <2>2. CASE w # Boot
    BY <2>2, BootStays DEF Install, TypeOK, Refreshers
  <2> QED
    BY <2>1, <2>2
<1> QED
  BY <1>1, <1>2, <1>3, <1>4 DEF CarryInv

LEMMA CarryStep ==
    TypeOK /\ JustifiedInv /\ CarryInv /\ [Next]_vars => CarryInv'
<1> SUFFICES ASSUME TypeOK, JustifiedInv, CarryInv, [Next]_vars
             PROVE  CarryInv'
  OBVIOUS
<1>1. RowsAreFP /\ ListedAreStored
  BY DEF JustifiedInv
<1>2. LabelsNameStored'
  BY LabelsStayNamed DEF CarryInv
<1>3. UNCHANGED <<acked, newest>> => acked' \subseteq FPRows'
  BY ListedFixed DEF CarryInv
<1>4. UNCHANGED <<pc, saved, request, rows, patterns, missed>> => OwnLabelCarried'
  BY <1>1, OwnLabelStays DEF OwnLabelCarried
<1>5. ASSUME NEW w \in Analysts, NEW a \in Alerts \union UnknownAlerts,
             NEW l \in Labels, SubmitFeedback(w, a, l)
      PROVE  CarryInv'
  <2>1. /\ pc[Boot] = "idle" /\ pc'[Boot] = "idle"
        /\ w \in Refreshers /\ Boot # w
    BY <1>5, DistinctValues DEF SubmitFeedback, Serving, TypeOK, Refreshers
  <2>2. BootCarriesAll'
    BY <2>1 DEF BootCarriesAll
  <2>3. ASSUME NEW v \in Analysts
        PROVE  /\ saved'[v] => pc'[v] # "idle"
               /\ saved'[v] /\ request'[v].label = "FP" =>
                    /\ request'[v] \in StoredFP'
                    /\ pc'[v] = "lookup" /\ v \notin missed' =>
                            PairsOf(request[v])' \subseteq Remaining(v)'
    <3>1. CASE v = w
      <4>1. pc'[v] = "list" /\ request'[v] = [alert_id |-> a, label |-> l]
        BY <1>5, <2>1, <3>1 DEF SubmitFeedback, TypeOK
      <4>2. saved'[v] => request'[v] \in soc_feedback'
        BY <1>5, <3>1, <4>1 DEF SubmitFeedback, TypeOK, CarryInv, OwnLabelCarried
      <4> QED
        BY <4>1, <4>2 DEF StoredFP
    <3>2. CASE v # w
      <4>1. /\ pc'[v] = pc[v] /\ saved'[v] = saved[v]
            /\ request'[v] = request[v]
            /\ rows'[v] = rows[v] /\ patterns'[v] = patterns[v]
            /\ missed' = missed
        BY <1>5, <2>1, <3>2 DEF SubmitFeedback, TypeOK, Refreshers
      <4> QED
        BY <1>1, <4>1, OwnLabelStays
    <3> QED
      BY <3>1, <3>2
  <2>4. OwnLabelCarried'
    BY <2>3 DEF OwnLabelCarried
  <2>5. acked' \subseteq FPRows'
    BY <1>3, <1>5 DEF SubmitFeedback
  <2> QED
    BY <1>2, <2>2, <2>4, <2>5 DEF CarryInv
<1>6. ASSUME NEW w \in Refreshers, ListFeedback(w)
      PROVE  CarryInv'
  <2>1. CASE Install(w, {})
    BY <1>1, <1>6, <2>1, InstallCarries DEF ListFeedback
  <2>2. CASE ~Install(w, {})
    <3>1. /\ rows' = [rows EXCEPT ![w] = FPRows]
          /\ pc' = [pc EXCEPT ![w] = "lookup"]
          /\ pc[w] = "list"
          /\ UNCHANGED <<patterns, acked, request, saved>>
          /\ UNCHANGED <<soc_alerts, soc_feedback, newest, cycle>>
          /\ NoteMissed(w)
      BY <1>6, <2>2 DEF ListFeedback
    <3>2. /\ FPRows' = FPRows /\ StoredFP' = StoredFP
          /\ \A f : PairsOf(f)' = PairsOf(f)
      BY <3>1, ListedFixed DEF StoredFP, PairsOf, StoredAlerts
    <3>3. UNION {PairsOf(f)' : f \in rows'[w]} \subseteq Remaining(w)'
      BY DEF Remaining
    <3>4. rows'[w] = FPRows
      BY <3>1 DEF TypeOK
    <3>5. OwnLabelCarried'
      <4> SUFFICES ASSUME NEW v \in Analysts
                   PROVE  /\ saved'[v] => pc'[v] # "idle"
                          /\ saved'[v] /\ request'[v].label = "FP" =>
                                /\ request'[v] \in StoredFP'
                                /\ pc'[v] = "lookup" /\ v \notin missed' =>
                                    PairsOf(request[v])' \subseteq Remaining(v)'
        BY DEF OwnLabelCarried
      <4>1. CASE v = w
        <5>1. pc'[v] = "lookup"
          BY <3>1, <4>1 DEF TypeOK
        <5>2. v \notin missed' => request[v] \in rows'[w]
          BY <3>1, <3>4, <4>1 DEF NoteMissed
        <5>3. PairsOf(request[v])' = PairsOf(request[v])
          BY <3>1 DEF PairsOf, StoredAlerts
        <5>4. saved'[v] /\ request'[v].label = "FP" => request'[v] \in StoredFP'
          BY <3>1, <3>2 DEF CarryInv, OwnLabelCarried
        <5> QED
          BY <3>1, <3>2, <3>3, <4>1, <5>1, <5>2, <5>3, <5>4
      <4>2. CASE v # w
        <5>1. v \in missed => v \in missed'
          BY <3>1 DEF NoteMissed
        <5> QED
          BY <1>1, <3>1, <4>2, <5>1, OwnLabelStays DEF TypeOK, Refreshers
      <4> QED
        BY <4>1, <4>2
    <3>6. BootCarriesAll'
      <4>1. CASE w = Boot
        <5>1. Reported' = UNION {PairsOf(f)' : f \in FPRows'}
          BY DEF Reported
        <5>2. /\ \A c \in Cycles : cycle[c] = NoResult
              /\ patterns'[w] = {}
          BY <3>1, <4>1 DEF CarryInv, BootCarriesAll
        <5>3. Remaining(w)' = UNION {PairsOf(f)' : f \in rows'[w]}
          BY <5>2 DEF Remaining
        <5>4. Remaining(w)' = Reported'
          BY <3>2, <3>4, <5>1, <5>3
        <5>5. pc'[w] = "lookup"
          BY <3>1 DEF TypeOK
        <5> QED
          BY <3>1, <4>1, <5>2, <5>4, <5>5 DEF BootCarriesAll
      <4>2. CASE w # Boot
        BY <1>1, <3>1, <4>2, BootStays DEF TypeOK, Refreshers
      <4> QED
        BY <4>1, <4>2
    <3> QED
      BY <1>2, <1>3, <3>1, <3>5, <3>6 DEF CarryInv
  <2> QED
    BY <2>1, <2>2
<1>7. ASSUME NEW w \in Refreshers, NEW f \in Feedback, LookupAlert(w, f)
      PROVE  CarryInv'
  <2> DEFINE found == patterns[w] \union PairsOf(f)
  <2>1. CASE Install(w, found)
    BY <1>1, <1>7, <2>1, InstallCarries DEF LookupAlert
  <2>2. CASE rows' = [rows EXCEPT ![w] = @ \ {f}]
             /\ patterns' = [patterns EXCEPT ![w] = found]
             /\ UNCHANGED <<suppressed_entities, pc, acked, missed, request,
                             saved>>
    <3>1. UNCHANGED <<soc_alerts, soc_feedback, newest, cycle>> /\ f \in rows[w]
      BY <1>7 DEF LookupAlert
    <3>2. \A v \in Refreshers : Remaining(v)' = Remaining(v)
      BY <2>2, <3>1, LookupKeeps
    <3>3. FPRows' = FPRows /\ Reported' = Reported /\ StoredFP' = StoredFP
      BY <3>1, ListedFixed DEF StoredFP, Reported, PairsOf, StoredAlerts
    <3>4. OwnLabelCarried'
      <4> SUFFICES ASSUME NEW v \in Analysts
                   PROVE  /\ saved'[v] => pc'[v] # "idle"
                          /\ saved'[v] /\ request'[v].label = "FP" =>
                                /\ request'[v] \in StoredFP'
                                /\ pc'[v] = "lookup" /\ v \notin missed' =>
                                    PairsOf(request[v])' \subseteq Remaining(v)'
        BY DEF OwnLabelCarried
      <4>1. PairsOf(request[v])' = PairsOf(request[v])
        BY <2>2, <3>1 DEF PairsOf, StoredAlerts
      <4> QED
        BY <2>2, <3>2, <3>3, <4>1 DEF CarryInv, OwnLabelCarried, Refreshers
    <3>5. BootCarriesAll'
      <4>1. pc[Boot] = "list" => patterns'[Boot] = patterns[Boot]
        BY <1>7, <2>2 DEF LookupAlert, TypeOK, Refreshers
      <4>2. Boot \in Refreshers
        BY DEF Refreshers
      <4> QED
        BY <2>2, <3>1, <3>2, <3>3, <4>1, <4>2 DEF CarryInv, BootCarriesAll
    <3> QED
      BY <1>2, <1>3, <2>2, <3>1, <3>4, <3>5 DEF CarryInv
  <2> QED
    BY <1>7, <2>1, <2>2 DEF LookupAlert
<1>8. ASSUME NEW w \in Refreshers, RefreshFails(w)
      PROVE  CarryInv'
  BY <1>1, <1>8, InstallCarries DEF RefreshFails
<1>9. ASSUME NEW c \in Cycles, NEW e \in Entities, NEW triggered \in SUBSET Rules,
             ScoreResult(c, e, triggered)
      PROVE  CarryInv'
  <2>1. pc[Boot] = "idle"
    BY <1>9 DEF ScoreResult, Serving
  <2> QED
    BY <1>2, <1>3, <1>4, <1>9, <2>1
    DEF ScoreResult, refreshVars, CarryInv, BootCarriesAll
<1>10. ASSUME NEW c \in Cycles, cycle[c] # NoResult,
              UNCHANGED refreshVars, UNCHANGED newest
       PROVE  CarryInv'
  <2>1. pc[Boot] = "idle"
    BY <1>10 DEF CarryInv, BootCarriesAll
  <2> QED
    BY <1>2, <1>3, <1>4, <1>10, <2>1 DEF refreshVars, CarryInv, BootCarriesAll
<1>11. CASE Restart
  <2>1. OwnLabelCarried'
    BY <1>11 DEF Restart, OwnLabelCarried
  <2>2. pc'[Boot] = "list" /\ patterns'[Boot] = {}
    BY <1>11 DEF Restart, Refreshers
  <2>3. BootCarriesAll'
    BY <1>11, <2>2 DEF Restart, BootCarriesAll
  <2> QED
    BY <1>2, <1>3, <1>11, <2>1, <2>3 DEF Restart, CarryInv
<1>12. CASE UNCHANGED vars
  BY <1>1, <1>2, <1>3, <1>4, <1>12, BootStays DEF vars, CarryInv
<1> QED
  BY <1>5, <1>6, <1>7, <1>8, <1>9, <1>10, <1>11, <1>12
  DEF Next, RefreshStep, StoreAlert, StoreFails

LEMMA CarryInit == Init => CarryInv
BY DEF Init, CarryInv, LabelsNameStored, OwnLabelCarried, BootCarriesAll,
       Refreshers

LEMMA CarryAlways == Spec => []CarryInv
BY TypeCorrect, JustifiedAlways, CarryInit, CarryStep, PTL DEF Spec

-----------------------------------------------------------------------------
(* The end of a refresh that did not fail *)

\* It was a listing with no FP row, or the lookup of the last row; what it
\* puts in force is then all that the refresher had left to find.
LEMMA FinishInstalls ==
    ASSUME TypeOK, [Next]_vars, NEW w \in Refreshers,
           pc[w] # "idle", pc'[w] = "idle", faults' = faults
    PROVE  /\ UNCHANGED <<soc_alerts, soc_feedback, newest>>
           /\ \/ pc[w] = "list" /\ FPRows = {} /\ Install(w, {}) /\ Enforced' = {}
              \/ /\ pc[w] = "lookup"
                 /\ Install(w, Remaining(w))
                 /\ Enforced' = Remaining(w)
<1>1. faults \in Nat /\ ~Fault
  BY FaultBound DEF TypeOK, Fault
<1>2. ~Restart /\ \A v \in Refreshers : ~RefreshFails(v)
  BY <1>1 DEF Restart, RefreshFails
<1>3. pc' # pc
  OBVIOUS
<1>4. \A c \in Cycles, e \in Entities, triggered \in SUBSET Rules :
        ~ScoreResult(c, e, triggered)
  BY <1>3 DEF ScoreResult, refreshVars
<1>5. \A c \in Cycles : ~StoreFails(c) /\ \A a \in Alerts : ~StoreAlert(c, a)
  BY <1>3 DEF StoreFails, StoreAlert, refreshVars
<1>6. \A v \in Analysts, a \in Alerts \union UnknownAlerts, l \in Labels :
        ~SubmitFeedback(v, a, l)
  BY DEF SubmitFeedback, TypeOK, Refreshers
<1>7. PICK v \in Refreshers :
        ListFeedback(v) \/ \E f \in Feedback : LookupAlert(v, f)
  BY <1>2, <1>3, <1>4, <1>5, <1>6 DEF Next, RefreshStep, vars
<1>8. v = w
  BY <1>7 DEF ListFeedback, LookupAlert, Install, TypeOK
<1>9. CASE ListFeedback(v)
  <2>1. Install(w, {}) /\ FPRows = {} /\ pc[w] = "list"
    BY <1>8, <1>9 DEF ListFeedback, TypeOK
  <2>2. Enforced' = {}
    BY <2>1, InstallEffect
  <2> QED
    BY <1>9, <2>1, <2>2 DEF ListFeedback
<1>10. ASSUME NEW f \in Feedback, LookupAlert(v, f)
       PROVE  /\ UNCHANGED <<soc_alerts, soc_feedback, newest>>
              /\ pc[w] = "lookup" /\ Install(w, Remaining(w))
              /\ Enforced' = Remaining(w)
  <2>1. rows[w] = {f} /\ Install(w, patterns[w] \union PairsOf(f))
    BY <1>8, <1>10 DEF LookupAlert, TypeOK
  <2>2. Remaining(w) = patterns[w] \union PairsOf(f)
    BY <2>1 DEF Remaining
  <2>3. Remaining(w) \in SUBSET Pairs
    BY <2>2, PairsOfType DEF TypeOK
  <2> QED
    BY <1>8, <1>10, <2>1, <2>2, <2>3, InstallEffect DEF LookupAlert
<1> QED
  BY <1>7, <1>9, <1>10

\* An analyst whose refresh did not fail finds the label of the request in
\* force when it is answered, whatever other requests were doing, unless they
\* stored FPLimit newer labels before this one was listed.
THEOREM OwnLabelAlwaysInForce == Spec => OwnLabelInForce
<1>1. TypeOK /\ JustifiedInv /\ CarryInv /\ [Next]_vars =>
        [\A w \in Analysts :
            /\ pc[w] \in {"list", "lookup"}
            /\ pc'[w] = "idle"
            /\ faults' = faults
            /\ saved[w]
            /\ request[w].label = "FP"
            /\ w \notin missed
            => PairsOf(request[w]) \subseteq Enforced']_vars
  <2> SUFFICES ASSUME TypeOK, JustifiedInv, CarryInv, [Next]_vars,
                      NEW w \in Analysts,
                      pc[w] \in {"list", "lookup"}, pc'[w] = "idle",
                      faults' = faults, saved[w], request[w].label = "FP",
                      w \notin missed
               PROVE  PairsOf(request[w]) \subseteq Enforced'
    OBVIOUS
  <2>1. w \in Refreshers /\ pc[w] # "idle"
    BY DEF Refreshers
  <2>2. /\ FPRows # {}
        /\ pc[w] = "lookup" => PairsOf(request[w]) \subseteq Remaining(w)
    BY DEF CarryInv, OwnLabelCarried, JustifiedInv, ListedAreStored
  <2> QED
    BY <2>1, <2>2, FinishInstalls
<1> QED
  BY <1>1, TypeCorrect, JustifiedAlways, CarryAlways, PTL DEF Spec, OwnLabelInForce

\* A startup that did not fail restores exactly what the tables imply.
THEOREM BootAlwaysRestores == Spec => BootRestores
<1>1. TypeOK /\ JustifiedInv /\ CarryInv /\ [Next]_vars =>
        [/\ pc[Boot] # "idle"
         /\ pc'[Boot] = "idle"
         /\ faults' = faults
         => Enforced' = Reported']_vars
  <2> SUFFICES ASSUME TypeOK, JustifiedInv, CarryInv, [Next]_vars,
                      pc[Boot] # "idle", pc'[Boot] = "idle", faults' = faults
               PROVE  Enforced' = Reported'
    OBVIOUS
  <2>1. Boot \in Refreshers
    BY DEF Refreshers
  <2>2. /\ UNCHANGED <<soc_alerts, newest>>
        /\ \/ FPRows = {} /\ Enforced' = {}
           \/ pc[Boot] = "lookup" /\ Enforced' = Remaining(Boot)
    BY <2>1, FinishInstalls
  <2>3. Reported' = Reported
    BY <2>2, ListedFixed DEF Reported, PairsOf, StoredAlerts
  <2>4. CASE FPRows = {} /\ Enforced' = {}
    BY <2>3, <2>4 DEF Reported
  <2>5. CASE pc[Boot] = "lookup" /\ Enforced' = Remaining(Boot)
    <3>1. Reported \subseteq Remaining(Boot)
      BY <2>5 DEF CarryInv, BootCarriesAll
    <3>2. Remaining(Boot) \subseteq Reported
      BY <2>5 DEF CarryInv, BootCarriesAll
    <3> QED
      BY <2>3, <2>5, <3>1, <3>2
  <2> QED
    BY <2>2, <2>4, <2>5
<1> QED
  BY <1>1, TypeCorrect, JustifiedAlways, CarryAlways, PTL DEF Spec, BootRestores

-----------------------------------------------------------------------------
(* One request at a time and no failures *)

\* No running loop misses a report, and what was acknowledged is in force.
SerialInv ==
    /\ \A v \in Refreshers : pc[v] = "lookup" => Reported \subseteq Remaining(v)
    /\ AcknowledgedEnforced

LEMMA SerialStep ==
    ASSUME NEW w, Analysts = {w}, MaxFaults = 0,
           TypeOK, JustifiedInv, CarryInv, CarryInv', SerialInv, [Next]_vars
    PROVE  SerialInv'
<1>1. RowsAreFP /\ ListedAreStored /\ LabelsNameStored
  BY DEF JustifiedInv, CarryInv
<1>2. ~Fault
  BY DEF TypeOK, Fault
<1>3. UNCHANGED newest => Reported' = Reported
  <2> SUFFICES ASSUME UNCHANGED newest
               PROVE  Reported' = Reported
    OBVIOUS
  <2>1. FPRows' = FPRows
    BY ListedFixed
  <2>2. \A f \in FPRows : PairsOf(f)' = PairsOf(f)
    BY <1>1, ContributionFixed DEF ListedAreStored, StoredFP
  <2> QED
    BY <2>1, <2>2 DEF Reported
<1>4. acked' \subseteq acked /\ UNCHANGED suppressed_entities
        => AcknowledgedEnforced'
  <2> SUFFICES ASSUME acked' \subseteq acked, UNCHANGED suppressed_entities,
                      NEW f \in acked
               PROVE  PairsOf(f)' \subseteq Enforced'
    BY DEF AcknowledgedEnforced
  <2>1. PairsOf(f)' = PairsOf(f)
    BY <1>1, ContributionFixed DEF CarryInv, ListedAreStored, StoredFP
  <2>2. Enforced' = Enforced
    BY DEF Enforced, Pairs
  <2> QED
    BY <2>1, <2>2 DEF SerialInv, AcknowledgedEnforced
<1>5. UNCHANGED <<newest, pc, rows, patterns>> =>
        \A v \in Refreshers : pc'[v] = "lookup" => Reported' \subseteq Remaining(v)'
  BY <1>1, <1>3, RemainingFixed DEF SerialInv
<1>6. ASSUME NEW v \in Refreshers, NEW P, Install(v, P), pc[v] # "idle",
             faults' = faults
      PROVE  SerialInv'
  <2>1. pc'[v] = "idle"
    BY <1>6 DEF Install, TypeOK
  <2>2. /\ UNCHANGED <<soc_alerts, newest>>
        /\ Reported \subseteq Enforced'
    BY <1>6, <2>1, FinishInstalls DEF Reported, SerialInv
  <2>3. AcknowledgedEnforced'
    <3> SUFFICES ASSUME NEW f \in acked'
                 PROVE  PairsOf(f)' \subseteq Enforced'
      BY DEF AcknowledgedEnforced
    <3>1. f \in FPRows'
      BY DEF CarryInv
    <3>2. PairsOf(f)' \subseteq Reported'
      BY <3>1 DEF Reported
    <3> QED
      BY <1>3, <2>2, <3>2
  <2>4. ASSUME NEW u \in Refreshers, pc'[u] = "lookup"
        PROVE  Reported' \subseteq Remaining(u)'
    <3>1. u # v
      BY <2>1, <2>4
    <3>2. pc[u] = "lookup" /\ rows'[u] = rows[u] /\ patterns'[u] = patterns[u]
      BY <1>6, <2>4, <3>1 DEF Install, TypeOK
    <3> QED
      BY <1>1, <1>3, <2>2, <3>2, RemainingFixed DEF SerialInv
  <2> QED
    BY <2>3, <2>4 DEF SerialInv
<1>7. ASSUME NEW v \in Analysts, NEW a \in Alerts \union UnknownAlerts,
             NEW l \in Labels, SubmitFeedback(v, a, l)
      PROVE  SerialInv'
  <2>1. \A u \in Refreshers : u = v \/ u = Boot
    BY DEF Refreshers
  <2>2. pc'[v] = "list" /\ (Boot # v => pc'[Boot] = "idle")
    BY <1>7 DEF SubmitFeedback, Serving, TypeOK, Refreshers
  <2>3. acked' \subseteq acked /\ UNCHANGED suppressed_entities
    BY <1>7 DEF SubmitFeedback
  <2> QED
    BY <1>4, <2>1, <2>2, <2>3, DistinctValues DEF SerialInv
<1>8. ASSUME NEW v \in Refreshers, ListFeedback(v)
      PROVE  SerialInv'
  <2>1. CASE Install(v, {})
    BY <1>6, <1>8, <2>1 DEF ListFeedback
  <2>2. CASE ~Install(v, {})
    <3>1. /\ rows' = [rows EXCEPT ![v] = FPRows]
          /\ pc' = [pc EXCEPT ![v] = "lookup"]
          /\ UNCHANGED <<suppressed_entities, patterns, acked>>
          /\ UNCHANGED <<soc_alerts, newest>>
      BY <1>8, <2>2 DEF ListFeedback
    <3>2. FPRows' = FPRows /\ \A f : PairsOf(f)' = PairsOf(f)
      BY <3>1, ListedFixed DEF PairsOf, StoredAlerts
    <3>3. ASSUME NEW u \in Refreshers, pc'[u] = "lookup"
          PROVE  Reported' \subseteq Remaining(u)'
      <4>1. CASE u = v
        <5>1. rows'[u] = FPRows'
          BY <3>1, <3>2, <4>1 DEF TypeOK
        <5> QED
          BY <5>1 DEF Remaining, Reported
      <4>2. CASE u # v
        <5>1. /\ pc[u] = "lookup" /\ rows'[u] = rows[u]
              /\ patterns'[u] = patterns[u]
          BY <3>1, <3>3, <4>2 DEF TypeOK
        <5> QED
          BY <1>1, <1>3, <3>1, <5>1, RemainingFixed DEF SerialInv
      <4> QED
        BY <4>1, <4>2
    <3> QED
      BY <1>4, <3>1, <3>3 DEF SerialInv
  <2> QED
    BY <2>1, <2>2
<1>9. ASSUME NEW v \in Refreshers, NEW f \in Feedback, LookupAlert(v, f)
      PROVE  SerialInv'
  <2> DEFINE found == patterns[v] \union PairsOf(f)
  <2>1. CASE Install(v, found)
    BY <1>6, <1>9, <2>1 DEF LookupAlert
  <2>2. CASE rows' = [rows EXCEPT ![v] = @ \ {f}]
             /\ patterns' = [patterns EXCEPT ![v] = found]
             /\ UNCHANGED <<suppressed_entities, pc, acked, missed, request,
                             saved>>
    <3>1. UNCHANGED <<soc_alerts, newest>> /\ f \in rows[v]
      BY <1>9 DEF LookupAlert
    <3>2. \A u \in Refreshers : Remaining(u)' = Remaining(u)
      BY <2>2, <3>1, LookupKeeps
    <3> QED
      BY <1>3, <1>4, <2>2, <3>1, <3>2 DEF SerialInv
  <2> QED
    BY <1>9, <2>1, <2>2 DEF LookupAlert
<1>10. CASE /\ UNCHANGED <<newest, suppressed_entities>>
            /\ UNCHANGED refreshVars
  BY <1>4, <1>5, <1>10 DEF refreshVars, SerialInv
<1> QED
  BY <1>2, <1>7, <1>8, <1>9, <1>10
  DEF Next, RefreshStep, RefreshFails, Restart, ScoreResult, StoreAlert,
      StoreFails, vars, refreshVars

\* With one request at a time and no failures, every false positive that was
\* acknowledged stays in force until FPLimit newer ones have displaced it.
THEOREM SerialAcknowledged ==
    ASSUME NEW w, Analysts = {w}, MaxFaults = 0
    PROVE  Spec => []AcknowledgedEnforced
<1>1. Init => SerialInv
  BY DEF Init, SerialInv, AcknowledgedEnforced, Refreshers
<1>2. TypeOK /\ JustifiedInv /\ CarryInv /\ CarryInv' /\ SerialInv
        /\ [Next]_vars => SerialInv'
  BY SerialStep
<1>3. SerialInv => AcknowledgedEnforced
  BY DEF SerialInv
<1> QED
  BY <1>1, <1>2, <1>3, TypeCorrect, JustifiedAlways, CarryAlways, PTL DEF Spec

=============================================================================
