------------------------- MODULE FeedbackSuppression -------------------------
(***************************************************************************)
(* Analyst feedback and false-positive suppression.                        *)
(*                                                                         *)
(* POST /api/feedback stores a label and then rebuilds the in-memory       *)
(* suppression list from the SQLite store: a snapshot of the FP rows, one  *)
(* awaited alert lookup per row, and an assignment of the whole list.      *)
(* Other requests, the scoring cycles and a restart run at every await.    *)
(* The scoring cycle consults the list for each result and stores the      *)
(* alert it decided on some awaits later.                                  *)
(*                                                                         *)
(* A refresh lists only the newest FPLimit rows labelled FP. soc_feedback  *)
(* is the set of all labels ever stored (the list ignores how often one    *)
(* was given); newest holds the rows a listing returns, each row counting. *)
(* created_at is read right before the insert, so rows are ordered by      *)
(* their inserts. The refresh statistics are left out.                     *)
(***************************************************************************)
EXTENDS Naturals

CONSTANTS
    Alerts,        \* ids an alert can be stored under (uuid4, never reused)
    Entities,      \* entity keys, "host|user"
    Rules,         \* ids of the deterministic rules
    Labels,        \* labels an analyst can give, "FP" one of them
    Analysts,      \* requests to POST /api/feedback that can be in flight
    Boot,          \* the refresh init_threat_engine awaits during startup
    Cycles,        \* scoring cycles that can be in flight
    ALL,           \* the marker that suppresses every rule of an entity
    UnknownAlerts, \* alert ids that name no row of soc_alerts
    NoAlert, NoRequest, NoResult, NoLabel,
    FPLimit,       \* FP rows a refresh lists at most (10000 in the code)
    MaxFaults      \* bound: failed database calls and restarts, together

ASSUME DistinctValues ==
    /\ Boot \notin Analysts
    /\ UnknownAlerts \intersect Alerts = {}
    /\ ALL \notin Rules
    /\ "FP" \in Labels
    /\ NoAlert \notin [entity_key : Entities, triggered_rules : SUBSET Rules,
                        suppressed : BOOLEAN]
    /\ NoResult \notin [entity_key : Entities, triggered_rules : SUBSET Rules,
                         suppressed : BOOLEAN]
    /\ NoLabel \notin [alert_id : Alerts \union UnknownAlerts, label : Labels]

ASSUME FaultBound == MaxFaults \in Nat

ASSUME LimitPositive == FPLimit \in Nat \ {0}

VARIABLES
    soc_alerts,           \* table: id -> row, or NoAlert
    soc_feedback,         \* table: the stored labels
    newest,               \* its FPLimit newest FP rows, 1 the newest
    suppressed_entities,  \* the suppressor's list: entity -> rules
    pc,                   \* where each refresher is
    request,              \* the label an analyst's request carries
    saved,                \* did that request's insert succeed
    rows,                 \* FP rows of the snapshot still to look up
    patterns,             \* (entity, rule) pairs found so far
    cycle,                \* result a cycle has decided on but not stored
    acked,                \* history: FP labels answered with status "success"
                          \* whose row a listing still returns
    missed,               \* history: requests whose row had left the newest
                          \* FPLimit when their refresh listed them
    faults

vars == <<soc_alerts, soc_feedback, newest, suppressed_entities, pc, request,
          saved, rows, patterns, cycle, acked, missed, faults>>

refreshVars == <<pc, request, saved, rows, patterns, acked, missed>>

-----------------------------------------------------------------------------

Refreshers == Analysts \union {Boot}

Feedback == [alert_id : Alerts \union UnknownAlerts, label : Labels]

Result == [entity_key : Entities, triggered_rules : SUBSET Rules,
           suppressed : BOOLEAN]

Pairs == Entities \X Rules

StoredAlerts == {a \in Alerts : soc_alerts[a] # NoAlert}

\* Every label that was ever stored as a false positive.
StoredFP == {f \in soc_feedback : f.label = "FP"}

\* What list_feedback(label="FP", limit=FPLimit) returns.
FPRows == {newest[i] : i \in 1 .. FPLimit} \ {NoLabel}

\* Mutant: a rule-less alert contributes the ALL marker as if it were a rule.
PairsOfMarksAll(f) ==
    IF f.alert_id \in StoredAlerts
    THEN {soc_alerts[f.alert_id].entity_key}
            \X (IF soc_alerts[f.alert_id].triggered_rules = {} THEN {ALL}
                ELSE soc_alerts[f.alert_id].triggered_rules)
    ELSE {}

\* The patterns one FP row contributes: none if its alert is not stored.
PairsOf(f) ==
    IF f.alert_id \in StoredAlerts
    THEN {soc_alerts[f.alert_id].entity_key}
            \X soc_alerts[f.alert_id].triggered_rules
    ELSE {}

\* The patterns get_fp_suppression_patterns finds when nothing interferes;
\* GET /api/feedback/suppressed reports them.
Reported == UNION {PairsOf(f) : f \in FPRows}

\* The patterns of all false positives ever labelled, listed or not.
Labelled == UNION {PairsOf(f) : f \in StoredFP}

\* Mutant: each rule of an entity replaces the one found before it.
NewMapLastRule(P) ==
    [e \in Entities |-> LET rulesFor == {r \in Rules : <<e, r>> \in P}
                       IN  IF rulesFor = {} THEN {}
                           ELSE {CHOOSE r \in rulesFor : TRUE}]

\* The list refresh_suppression_list builds from a set of patterns.
NewMap(P) ==
    LET rulesFor(e) == {r \in Rules : <<e, r>> \in P}
    IN  [e \in Entities |->
            IF \E p \in P : p[1] = e
            THEN IF rulesFor(e) = {} THEN {ALL} ELSE rulesFor(e)
            ELSE {}]

\* The pairs the list in memory suppresses.
Enforced == {p \in Pairs : p[2] \in suppressed_entities[p[1]]}

\* Mutant: an entity on the list is suppressed whatever rules fired.
ShouldSuppressEntity(e, triggered) == suppressed_entities[e] # {}

ShouldSuppress(e, triggered) ==
    \/ ALL \in suppressed_entities[e]
    \/ triggered \intersect suppressed_entities[e] # {}

\* The application serves requests once startup's refresh is done.
Serving == pc[Boot] = "idle"

-----------------------------------------------------------------------------

TypeOK ==
    /\ soc_alerts \in [Alerts -> Result \union {NoAlert}]
    /\ soc_feedback \in SUBSET Feedback
    /\ newest \in [1 .. FPLimit -> Feedback \union {NoLabel}]
    /\ suppressed_entities \in [Entities -> SUBSET (Rules \union {ALL})]
    /\ pc \in [Refreshers -> {"idle", "list", "lookup"}]
    /\ request \in [Analysts -> Feedback \union {NoRequest}]
    /\ saved \in [Analysts -> BOOLEAN]
    /\ rows \in [Refreshers -> SUBSET Feedback]
    /\ patterns \in [Refreshers -> SUBSET Pairs]
    /\ cycle \in [Cycles -> Result \union {NoResult}]
    /\ acked \in SUBSET Feedback
    /\ missed \in SUBSET Analysts
    /\ faults \in 0 .. MaxFaults
    /\ \A w \in Analysts : pc[w] # "idle" => request[w] \in Feedback

\* A new installation, its first startup about to refresh the empty list.
Init ==
    /\ soc_alerts = [a \in Alerts |-> NoAlert]
    /\ soc_feedback = {}
    /\ newest = [i \in 1 .. FPLimit |-> NoLabel]
    /\ suppressed_entities = [e \in Entities |-> {}]
    /\ pc = [w \in Refreshers |-> IF w = Boot THEN "list" ELSE "idle"]
    /\ request = [w \in Analysts |-> NoRequest]
    /\ saved = [w \in Analysts |-> FALSE]
    /\ rows = [w \in Refreshers |-> {}]
    /\ patterns = [w \in Refreshers |-> {}]
    /\ cycle = [c \in Cycles |-> NoResult]
    /\ acked = {}
    /\ missed = {}
    /\ faults = 0

Fault ==
    /\ faults < MaxFaults
    /\ faults' = faults + 1

-----------------------------------------------------------------------------
(* POST /api/feedback *)

\* A new FP row goes in front of the newest; the row past the limit is then
\* listed no more, though it stays stored.
NewestAfter(label) ==
    IF label.label = "FP"
    THEN [i \in 1 .. FPLimit |-> IF i = 1 THEN label ELSE newest[i - 1]]
    ELSE newest

\* The id is not checked: a label may name an alert that is not stored. The
\* request has read nothing before its insert commits, so it arrives here.
SubmitFeedback(w, a, l) ==
    /\ Serving
    /\ pc[w] = "idle"
    /\ a \in StoredAlerts \union UnknownAlerts
    /\ request' = [request EXCEPT ![w] = [alert_id |-> a, label |-> l]]
    /\ pc' = [pc EXCEPT ![w] = "list"]
    /\ \/ /\ soc_feedback' = soc_feedback \union {[alert_id |-> a, label |-> l]}
          /\ newest' = NewestAfter([alert_id |-> a, label |-> l])
          /\ acked' = acked \intersect FPRows'
          /\ saved' = [saved EXCEPT ![w] = TRUE]
          /\ UNCHANGED faults
       \/ \* submit_feedback answers "error"; the handler refreshes all the same
          /\ Fault
          /\ UNCHANGED <<soc_feedback, newest, acked, saved>>
    /\ UNCHANGED <<soc_alerts, suppressed_entities, rows, patterns, cycle,
                   missed>>

-----------------------------------------------------------------------------
(* refresh_suppression_list, for a request or at startup *)

\* The assignment of the list and the answer: no await lies between them.
Install(w, P) ==
    /\ suppressed_entities' = NewMap(P)
    /\ pc' = [pc EXCEPT ![w] = "idle"]
    /\ rows' = [rows EXCEPT ![w] = {}]
    /\ patterns' = [patterns EXCEPT ![w] = {}]
    /\ IF w \in Analysts
       THEN /\ acked' = IF saved[w] /\ request[w] \in FPRows
                       THEN acked \union {request[w]} ELSE acked
            /\ missed' = missed \ {w}
            /\ request' = [request EXCEPT ![w] = NoRequest]
            /\ saved' = [saved EXCEPT ![w] = FALSE]
       ELSE UNCHANGED <<acked, missed, request, saved>>

\* The bookkeeping of a listing: did it return the request's own row?
NoteMissed(w) ==
    missed' = IF w \in Analysts /\ request[w] \notin FPRows
              THEN missed \union {w} ELSE missed

\* Mutant: the listing is not restricted to FP labels.
ListAnyLabel(w) ==
    /\ pc[w] = "list"
    /\ \/ /\ soc_feedback = {}
          /\ Install(w, {})
       \/ /\ soc_feedback # {}
          /\ rows' = [rows EXCEPT ![w] = soc_feedback]
          /\ pc' = [pc EXCEPT ![w] = "lookup"]
          /\ NoteMissed(w)
          /\ UNCHANGED <<suppressed_entities, patterns, acked, request, saved>>
    /\ UNCHANGED <<soc_alerts, soc_feedback, newest, cycle, faults>>

ListFeedback(w) ==
    /\ pc[w] = "list"
    /\ \/ /\ FPRows = {}
          /\ Install(w, {})
       \/ /\ FPRows # {}
          /\ rows' = [rows EXCEPT ![w] = FPRows]
          /\ pc' = [pc EXCEPT ![w] = "lookup"]
          /\ NoteMissed(w)
          /\ UNCHANGED <<suppressed_entities, patterns, acked, request, saved>>
    /\ UNCHANGED <<soc_alerts, soc_feedback, newest, cycle, faults>>

\* Mutant: the list is installed before the last row is counted.
LookupSkipsLast(w, f) ==
    /\ pc[w] = "lookup"
    /\ f \in rows[w]
    /\ \/ /\ rows[w] = {f}
          /\ Install(w, patterns[w])
       \/ /\ rows[w] # {f}
          /\ rows' = [rows EXCEPT ![w] = @ \ {f}]
          /\ patterns' = [patterns EXCEPT ![w] = @ \union PairsOf(f)]
          /\ UNCHANGED <<suppressed_entities, pc, acked, missed, request, saved>>
    /\ UNCHANGED <<soc_alerts, soc_feedback, newest, cycle, faults>>

\* Mutant: a row whose alert is not stored is tried again.
LookupRetriesMissing(w, f) ==
    /\ pc[w] = "lookup"
    /\ f \in rows[w]
    /\ IF f.alert_id \in UnknownAlerts
       THEN UNCHANGED <<rows, patterns, suppressed_entities, pc, acked,
                        missed, request, saved>>
       ELSE \/ /\ rows[w] = {f}
               /\ Install(w, patterns[w] \union PairsOf(f))
            \/ /\ rows[w] # {f}
               /\ rows' = [rows EXCEPT ![w] = @ \ {f}]
               /\ patterns' = [patterns EXCEPT ![w] = @ \union PairsOf(f)]
               /\ UNCHANGED <<suppressed_entities, pc, acked, missed, request, saved>>
    /\ UNCHANGED <<soc_alerts, soc_feedback, newest, cycle, faults>>

LookupAlert(w, f) ==
    /\ pc[w] = "lookup"
    /\ f \in rows[w]
    /\ LET found == patterns[w] \union PairsOf(f)
       IN  \/ /\ rows[w] = {f}
              /\ Install(w, found)
           \/ /\ rows[w] # {f}
              /\ rows' = [rows EXCEPT ![w] = @ \ {f}]
              /\ patterns' = [patterns EXCEPT ![w] = found]
              /\ UNCHANGED <<suppressed_entities, pc, acked, missed, request, saved>>
    /\ UNCHANGED <<soc_alerts, soc_feedback, newest, cycle, faults>>

\* Any database error ends the collection with no patterns, and the list is
\* replaced by the empty one.
RefreshFails(w) ==
    /\ pc[w] \in {"list", "lookup"}
    /\ Fault
    /\ Install(w, {})
    /\ UNCHANGED <<soc_alerts, soc_feedback, newest, cycle>>

-----------------------------------------------------------------------------
(* ThreatEngine.run_scoring_cycle, as far as suppression goes *)

\* One result above the threshold: the decision is taken here ...
ScoreResult(c, e, triggered) ==
    /\ Serving
    /\ cycle[c] = NoResult
    /\ cycle' = [cycle EXCEPT ![c] =
                    [entity_key |-> e, triggered_rules |-> triggered,
                     suppressed |-> ShouldSuppress(e, triggered)]]
    /\ UNCHANGED <<soc_alerts, soc_feedback, newest, suppressed_entities,
                   faults>>
    /\ UNCHANGED refreshVars

\* ... and stored after the awaits on baselines, under a fresh id.
StoreAlert(c, a) ==
    /\ cycle[c] # NoResult
    /\ soc_alerts[a] = NoAlert
    /\ soc_alerts' = [soc_alerts EXCEPT ![a] = cycle[c]]
    /\ cycle' = [cycle EXCEPT ![c] = NoResult]
    /\ UNCHANGED <<soc_feedback, newest, suppressed_entities, faults>>
    /\ UNCHANGED refreshVars

\* An exception in the insert ends the cycle.
StoreFails(c) ==
    /\ cycle[c] # NoResult
    /\ Fault
    /\ cycle' = [cycle EXCEPT ![c] = NoResult]
    /\ UNCHANGED <<soc_alerts, soc_feedback, newest, suppressed_entities>>
    /\ UNCHANGED refreshVars

-----------------------------------------------------------------------------

\* The process dies at any point; the two tables survive and startup begins.
Restart ==
    /\ Fault
    /\ suppressed_entities' = [e \in Entities |-> {}]
    /\ pc' = [w \in Refreshers |-> IF w = Boot THEN "list" ELSE "idle"]
    /\ request' = [w \in Analysts |-> NoRequest]
    /\ saved' = [w \in Analysts |-> FALSE]
    /\ rows' = [w \in Refreshers |-> {}]
    /\ patterns' = [w \in Refreshers |-> {}]
    /\ cycle' = [c \in Cycles |-> NoResult]
    /\ missed' = {}
    /\ UNCHANGED <<soc_alerts, soc_feedback, newest, acked>>

RefreshStep(w) ==
    \/ ListFeedback(w)
    \/ \E f \in Feedback : LookupAlert(w, f)
    \/ RefreshFails(w)

Next ==
    \/ \E w \in Analysts, a \in Alerts \union UnknownAlerts, l \in Labels :
            SubmitFeedback(w, a, l)
    \/ \E w \in Refreshers : RefreshStep(w)
    \/ \E c \in Cycles, e \in Entities, triggered \in SUBSET Rules :
            ScoreResult(c, e, triggered)
    \/ \E c \in Cycles, a \in Alerts : StoreAlert(c, a)
    \/ \E c \in Cycles : StoreFails(c)
    \/ Restart

\* A database call that was awaited returns or raises; nothing obliges an
\* analyst to post, a cycle to find something, or anything to fail.
Fairness == \A w \in Refreshers : WF_vars(RefreshStep(w))

Spec == Init /\ [][Next]_vars

FairSpec == Spec /\ Fairness

-----------------------------------------------------------------------------
(* Properties *)

\* The list never suppresses a rule of an entity that no analyst labelled a
\* false positive: every pair in force is the pattern of a stored FP row (the
\* row may have left the newest FPLimit since it was listed), whatever
\* refreshes overlapped, failed or were cut off by a restart.
SuppressionJustified == Enforced \subseteq Labelled

\* An alert stored as suppressed was suppressed on the strength of feedback
\* about a different alert of the same entity that shares a rule with it.
SuppressedByAnotherAlert ==
    \A a \in StoredAlerts :
        soc_alerts[a].suppressed =>
            \E f \in StoredFP :
                /\ f.alert_id # a
                /\ \E r \in soc_alerts[a].triggered_rules :
                        <<soc_alerts[a].entity_key, r>> \in PairsOf(f)

\* What the feedback page reports as suppressed is what scoring suppresses:
\* every FP label that was answered with success and that a listing still
\* returns is in force (one that FPLimit newer rows displaced need not be).
AcknowledgedEnforced ==
    \A f \in acked : PairsOf(f) \subseteq Enforced

\* A refresh that did not fail leaves its own request's label in force,
\* unless FPLimit newer rows were stored before it listed them.
OwnLabelInForce ==
    [][\A w \in Analysts :
            /\ pc[w] \in {"list", "lookup"}
            /\ pc'[w] = "idle"
            /\ faults' = faults
            /\ saved[w]
            /\ request[w].label = "FP"
            /\ w \notin missed
            => PairsOf(request[w]) \subseteq Enforced']_vars

\* A startup that did not fail restores exactly what the newest FPLimit rows
\* of the store imply: no label among them is lost, and none is invented.
BootRestores ==
    [][/\ pc[Boot] # "idle"
       /\ pc'[Boot] = "idle"
       /\ faults' = faults
       => Enforced' = Reported']_vars

\* Every request and every startup finishes its refresh (or the process
\* restarts): the loop over the snapshot cannot run forever.
RefreshEnds == \A w \in Refreshers : pc[w] # "idle" ~> pc[w] = "idle"

=============================================================================
