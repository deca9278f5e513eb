------------------------------- MODULE Deadlines -------------------------------
(***************************************************************************)
(* SLATracker and its job. Every Interval the job reads the alerts that    *)
(* nobody has closed, works out their three deadlines, and broadcasts a    *)
(* warning for each alert with a deadline that is pending and near. The    *)
(* tracker keeps nothing: what was done in time is told from the status.   *)
(* Its searches have a size and no order, and an alert that it cannot work *)
(* out empties the whole answer. The index it reads, soc-alerts, is        *)
(* written by others: external.                                            *)
(***************************************************************************)
EXTENDS Naturals, FiniteSets, FiniteSetsExt

CONSTANTS
    SlaAlerts,
    Limits,         \* SLA_DEFINITIONS: level -> deadline -> time allowed, 0 for none
    Interval,       \* the job's: 5 minutes
    Warning,        \* warning_minutes: 10
    Day,            \* how far back the dashboard looks
    SearchSize,     \* size of the job's search: 500
    DashboardSize,  \* size of the dashboard's search: 1000
    ListedBreaches, \* the breached alerts that it lists: 10
    MaxMissed,      \* bound: runs of the job that fail or are skipped
    MaxActs,        \* bound: changes of an alert
    LastArrival,    \* bound: the last time an alert comes in
    LastMoment      \* bound

DeadlineNames == {"acknowledge", "triage", "escalate"}

ASSUME DeadlinesAssumption ==
    /\ IsFiniteSet(SlaAlerts) /\ IsFiniteSet(DOMAIN Limits)
    /\ \A level \in DOMAIN Limits : Limits[level] \in [DeadlineNames -> Nat]
    /\ Interval \in Nat \ {0} /\ {Day, Warning, SearchSize, DashboardSize, ListedBreaches} \subseteq Nat
    /\ Warning >= Interval
    /\ \A level \in DOMAIN Limits, k \in DeadlineNames :
          Limits[level][k] # 0 => Limits[level][k] >= Warning

VARIABLES
    slaTime,
    jobDue,         \* whether the job is to run at this time
    slaAlert,       \* alert -> [level, created, status, incident_id], or NoAlert
    warned,         \* alert -> when a warning with it was broadcast
    metOnce,        \* history: alert -> deadlines that once needed no warning
    spoilt,         \* history: the times of the job's runs that need not see every alert
    missed, acts

deadlineVars == <<slaTime, jobDue, slaAlert, warned, metOnce, spoilt, missed, acts>>

NoAlert == [absent |-> TRUE]
Tracked == {a \in SlaAlerts : slaAlert[a] # NoAlert}
Closed == {"resolved"}      \* one for the five that the search leaves out
Statuses == {"new", "investigating", "escalated"} \union Closed
NoLevel == "null"           \* compute_sla_status raises: there is no null.lower()

-----------------------------------------------------------------------------

\* compute_sla_status: no explicit times are ever written, so the status tells
\* what was done, and it counts as done in time whenever that was.
MetBy(alert) ==
    (IF alert.status = "new" THEN {} ELSE {"acknowledge"})
        \union (IF alert.status \in Closed THEN {"triage"} ELSE {})
        \union (IF alert.status = "escalated" \/ alert.incident_id THEN {"escalate"} ELSE {})

CannotTell(a) == slaAlert[a].level = NoLevel
Applicable(a) == IF CannotTell(a) THEN {} ELSE {k \in DeadlineNames : Limits[slaAlert[a].level][k] # 0}
DueAt(a, k) == slaAlert[a].created + Limits[slaAlert[a].level][k]

Sla(a, k) ==
    IF k \notin Applicable(a) THEN "not_applicable"
    ELSE IF k \in MetBy(slaAlert[a]) THEN "met"
    ELSE IF slaTime > DueAt(a, k) THEN "breached" ELSE "pending"

\* Of an alert: breached if one of the three is, met if nothing is open.
Overall(a) ==
    LET slas == {Sla(a, k) : k \in DeadlineNames}
    IN  IF "breached" \in slas THEN "breached"
        ELSE IF slas \subseteq {"met", "not_applicable"} THEN "met" ELSE "pending"

\* The hits of a search that finds these alerts: any of them, up to its size.
Hits(found, size) ==
    {hits \in SUBSET found :
        Cardinality(hits) = IF Cardinality(found) > size THEN size ELSE Cardinality(found)}

\* One alert that raises leaves the caller with nothing.
Readable(hits) == \A a \in hits : ~CannotTell(a)

\* get_sla_dashboard: the alerts of the last 24 hours, whatever their status, as
\* the search happens to return them. Of the breached ones it lists the first ten.
Dashboard(hits) ==
    LET breached == {a \in hits : Overall(a) = "breached"}
    IN  [by_level |-> [level \in DOMAIN Limits |-> [overall \in {"met", "breached", "pending"} |->
                          Cardinality({a \in hits : slaAlert[a].level = level
                                                       /\ Overall(a) = overall})]],
         breached |-> Cardinality(breached),
         breached_alerts |-> Hits(breached, ListedBreaches)]

Dashboards ==
    LET recent == {a \in Tracked : slaTime - slaAlert[a].created <= Day}
    IN  {Dashboard(hits) : hits \in {h \in Hits(recent, DashboardSize) : Readable(h)}}

\* Mutant: a deadline is near strictly between the ends of its last minutes.
NearStrictly(a, k) ==
    Sla(a, k) = "pending" /\ DueAt(a, k) < slaTime + Warning /\ slaTime < DueAt(a, k)

Near(a, k) ==
    Sla(a, k) = "pending" /\ DueAt(a, k) <= slaTime + Warning /\ slaTime <= DueAt(a, k)

\* get_alerts_approaching_sla: the search leaves out the closed ones, and the
\* alerts to warn of are among its hits.
Open == {a \in Tracked : slaAlert[a].status \notin Closed}

Approaching(hits) ==
    {a \in hits : Readable(hits) /\ \E k \in DeadlineNames : Near(a, k)}

\* check_sla_breaches_job. A search that fails is an empty one, as is a run that
\* the scheduler skips for being late.
CheckSla ==
    /\ jobDue
    /\ jobDue' = FALSE
    /\ \/ /\ \E hits \in Hits(Open, SearchSize) :
                warned' = [a \in SlaAlerts |->
                              warned[a] \union (IF a \in Approaching(hits) THEN {slaTime} ELSE {})]
          /\ spoilt' = IF Readable(Open) /\ Cardinality(Open) <= SearchSize
                       THEN spoilt ELSE spoilt \union {slaTime}
          /\ UNCHANGED missed
       \/ /\ missed < MaxMissed
          /\ missed' = missed + 1
          /\ spoilt' = spoilt \union {slaTime}
          /\ UNCHANGED warned
    /\ UNCHANGED <<slaTime, slaAlert, metOnce, acts>>

-----------------------------------------------------------------------------
(* The alerts' index and time *)

RaiseAlert(a) ==
    /\ slaTime <= LastArrival
    /\ a \notin Tracked
    /\ \E level \in DOMAIN Limits \union {NoLevel} :
          slaAlert' = [slaAlert EXCEPT ![a] =
                          [level |-> level, created |-> slaTime, status |-> "new",
                           incident_id |-> FALSE]]
    /\ UNCHANGED <<slaTime, jobDue, warned, metOnce, spoilt, missed, acts>>

\* An alert gets another status, or an incident. One that is closed is left out of
\* the search, so nothing of it needs a warning.
ChangeAlert(a) ==
    /\ acts < MaxActs
    /\ a \in Tracked
    /\ \E changed \in {[slaAlert[a] EXCEPT !.status = status] : status \in Statuses}
                        \union {[slaAlert[a] EXCEPT !.incident_id = TRUE]} :
          /\ changed # slaAlert[a]
          /\ slaAlert' = [slaAlert EXCEPT ![a] = changed]
          /\ metOnce' = [metOnce EXCEPT ![a] =
                @ \union (IF changed.status \in Closed THEN DeadlineNames ELSE MetBy(changed))]
    /\ acts' = acts + 1
    /\ UNCHANGED <<slaTime, jobDue, warned, spoilt, missed>>

\* The job runs on time: it takes seconds.
SlaTick ==
    /\ slaTime < LastMoment
    /\ ~jobDue
    /\ slaTime' = slaTime + 1
    /\ jobDue' = (slaTime' % Interval = 0)
    /\ UNCHANGED <<slaAlert, warned, metOnce, spoilt, missed, acts>>

DeadlinesInit ==
    /\ slaTime = 0
    /\ jobDue = FALSE
    /\ slaAlert = [a \in SlaAlerts |-> NoAlert]
    /\ warned = [a \in SlaAlerts |-> {}]
    /\ metOnce = [a \in SlaAlerts |-> {}]
    /\ spoilt = {}
    /\ missed = 0
    /\ acts = 0

DeadlinesNext ==
    \/ CheckSla
    \/ \E a \in SlaAlerts : RaiseAlert(a) \/ ChangeAlert(a)
    \/ SlaTick

DeadlinesSpec == DeadlinesInit /\ [][DeadlinesNext]_deadlineVars

-----------------------------------------------------------------------------
(* Properties *)

\* The job's runs in the last minutes of a deadline.
LastRuns(due) == {t \in due - Warning + 1 .. due : t % Interval = 0}

\* A deadline passes unannounced only if each of the job's runs in its last minutes
\* was spoilt: it failed or was skipped, more alerts were open than its search
\* returns, or one of them could not be worked out. One run that was not is enough:
\* every deadline that was pending until it passed was in a warning that was
\* broadcast while there was time to meet it. And the dashboard, of the alerts its
\* search returns, counts a breached one once and lists no more than ten.
DeadlinesWarned ==
    /\ \A a \in Tracked : \A k \in Applicable(a) \ metOnce[a] :
          slaTime > DueAt(a, k) =>
              \/ \E t \in warned[a] : DueAt(a, k) <= t + Warning /\ t <= DueAt(a, k)
              \/ LastRuns(DueAt(a, k)) # {} /\ LastRuns(DueAt(a, k)) \subseteq spoilt
    /\ \A shown \in Dashboards :
          /\ MapThenSumSet(LAMBDA level : shown.by_level[level]["breached"], DOMAIN Limits)
                = shown.breached
          /\ \A listed \in shown.breached_alerts :
                Cardinality(listed) <= ListedBreaches /\ Cardinality(listed) <= shown.breached

=============================================================================
