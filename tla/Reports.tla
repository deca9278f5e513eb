--------------------------------- MODULE Reports ---------------------------------
(***************************************************************************)
(* The report schedules. An hourly job reads the schedules, makes a report *)
(* of the past Period hours for each that is due, stores it, and then      *)
(* moves the schedule's next_run. Administrators make schedules, and run   *)
(* one at once, meanwhile; a call to the store may fail, and the process   *)
(* may end, between any two writes.                                        *)
(*                                                                         *)
(* A report ends when it is made, which may be long after its job began,   *)
(* while next_run counts from the job's beginning. A report is in the store*)
(* as soon as it is made: nothing reads the reports in between.            *)
(*                                                                         *)
(* The document store is external: the client the application has answers  *)
(* every write and performs none ("kibana"); the one initialize() asks for *)
(* performs them ("native").                                               *)
(***************************************************************************)
EXTENDS Naturals, FiniteSets

CONSTANTS
    ScheduleIds,
    Defaults,       \* those of DEFAULT_SCHEDULES
    Period,         \* FREQ_TO_HOURS of their frequency
    Slots,          \* moments to an hour
    Grace,          \* moments by which the job may start late and is not skipped
    ListedSchedules, \* the size of the listing of schedules
    LastHour,       \* bound
    MaxFailures,    \* bound: calls to the store that raise, and ends of the process
    MaxRunNow       \* bound: reports asked for at once

ASSUME ReportsAssumption ==
    /\ Defaults \subseteq ScheduleIds
    /\ {Period, Slots} \subseteq Nat \ {0}
    /\ {Grace, ListedSchedules} \subseteq Nat

VARIABLES
    client,         \* "unknown", "native" or "kibana"
    moment,         \* the time, Slots to an hour
    jobHour,        \* the next hour in which the job fires
    schedules,      \* id -> [created_at, next_run, runs] or NoSchedule
    reports,        \* the stored reports: schedule, run (when its job began), at, by
    job,            \* the job in flight: [now, todo, stored], or Idle
    failures, asked,
    passedOver,     \* history: schedules that were due and got no report in some hour
    unmoved         \* history: schedules whose report was stored and next_run not moved

reportVars == <<client, moment, jobHour, schedules, reports, job, failures, asked,
                passedOver, unmoved>>

NoSchedule == [absent |-> TRUE]
Idle == [now |-> 0, todo |-> {}, stored |-> {}]
Existing == {s \in ScheduleIds : schedules[s] # NoSchedule}
Length == Period * Slots

\* get_schedules: those with the earliest next_run, active or not, up to its size.
Listings ==
    {shown \in SUBSET Existing :
        /\ Cardinality(shown) <= ListedSchedules
        /\ shown # Existing => Cardinality(shown) = ListedSchedules
        /\ \A s \in shown, t \in Existing \ shown :
              schedules[s].next_run <= schedules[t].next_run}

\* Active, not of the frequency "on_incident", and its next_run is past.
Due == {s \in Existing : schedules[s].runs /\ schedules[s].next_run <= moment}

Made(runs) == [created_at |-> moment, next_run |-> moment + Length, runs |-> runs]

\* A write: it takes, or is answered without effect; or it raises.
Takes == client = "native"
Raises == failures < MaxFailures /\ failures' = failures + 1

-----------------------------------------------------------------------------

\* initialize, with the client main.py hands it: default schedules if the
\* client has indices and there is none. The document store is reached.
Initialize ==
    /\ client = "unknown"
    /\ client' \in {"native", "kibana"}
    /\ schedules' = [s \in ScheduleIds |->
                        IF client' = "native" /\ s \in Defaults THEN Made(TRUE) ELSE NoSchedule]
    /\ UNCHANGED <<moment, jobHour, reports, job, failures, asked, passedOver, unmoved>>

\* POST /reports/schedules, active or not; and, for a store the client only
\* reads, a schedule that something else put there.
CreateSchedule(s) ==
    /\ client # "unknown"
    /\ s \notin Existing
    /\ \E runs \in BOOLEAN : schedules' = [schedules EXCEPT ![s] = Made(runs)]
    /\ UNCHANGED <<client, moment, jobHour, reports, job, failures, asked, passedOver, unmoved>>

\* The scheduler starts the job if it is not later than its grace and the one
\* before has ended: run_scheduled_reports begins, fixes now for all schedules
\* and lists them. When the read raises there are no schedules.
BeginJob ==
    /\ client # "unknown"
    /\ job = Idle
    /\ jobHour * Slots <= moment /\ moment <= jobHour * Slots + Grace
    /\ jobHour' = jobHour + 1
    /\ \/ \E shown \in Listings :
            /\ job' = [now |-> moment, todo |-> Due \intersect shown, stored |-> {}]
            /\ passedOver' = passedOver \union (Due \ shown)
            /\ UNCHANGED failures
       \/ /\ Raises
          /\ passedOver' = passedOver \union Due
          /\ UNCHANGED job
    /\ UNCHANGED <<client, moment, schedules, reports, asked, unmoved>>

\* The job of an hour is skipped: it would start later than its grace, the one
\* before still runs, or the process is down.
SkipJob ==
    /\ jobHour * Slots <= moment
    /\ jobHour' = jobHour + 1
    /\ passedOver' = passedOver \union Due
    /\ UNCHANGED <<client, moment, schedules, reports, job, failures, asked, unmoved>>

Report(s, run, by) == [schedule |-> s, run |-> run, at |-> moment, by |-> by]

\* generate_report, of the time it reads itself, and store_report, in the order of
\* next_run: a search that raises makes a report of nothing, so only the store can
\* stop it; then the schedule stays due.
StoreReport(s) ==
    /\ s \in job.todo
    /\ \A t \in job.todo : schedules[s].next_run <= schedules[t].next_run
    /\ job.stored = {}
    /\ \/ /\ reports' = IF Takes THEN reports \union {Report(s, job.now, "job")} ELSE reports
          /\ job' = [job EXCEPT !.todo = @ \ {s}, !.stored = @ \union {s}]
          /\ UNCHANGED <<failures, passedOver>>
       \/ /\ Raises
          /\ job' = [job EXCEPT !.todo = @ \ {s}]
          /\ passedOver' = passedOver \union {s}
          /\ UNCHANGED reports
    /\ UNCHANGED <<client, moment, jobHour, schedules, asked, unmoved>>

NextRun(s) == job.now + Length

\* Mutant: whatever happened to the report, the schedule moves on.
MovedEvenIfLost(s) == s \in Existing /\ s \notin job.todo /\ schedules[s].next_run <= job.now

\* update_schedule runs for a schedule whose report was stored.
MayMove(s) == s \in job.stored

UpdateSchedule(s) ==
    /\ MayMove(s)
    /\ job' = [job EXCEPT !.stored = @ \ {s}]
    /\ \/ /\ schedules' = IF Takes /\ s \in Existing
                          THEN [schedules EXCEPT ![s].next_run = NextRun(s)] ELSE schedules
          /\ UNCHANGED <<failures, unmoved>>
       \/ /\ Raises
          /\ unmoved' = unmoved \union {s}
          /\ UNCHANGED schedules
    /\ UNCHANGED <<client, moment, jobHour, reports, asked, passedOver>>

\* The last schedule is done.
EndJob ==
    /\ job # Idle
    /\ job.todo = {} /\ job.stored = {}
    /\ job' = Idle
    /\ UNCHANGED <<client, moment, jobHour, schedules, reports, failures, asked,
                   passedOver, unmoved>>

\* POST /reports/schedules/{id}/run-now: of a schedule that is listed it stores a
\* report, and moves last_run only.
RunNow(s) ==
    /\ asked < MaxRunNow
    /\ asked' = asked + 1
    /\ \E shown \in Listings : s \in shown
    /\ reports' = IF Takes THEN reports \union {Report(s, moment, "request")} ELSE reports
    /\ UNCHANGED <<client, moment, jobHour, schedules, job, failures, passedOver, unmoved>>

\* The process ends and is started again: the job in flight is gone.
Restart ==
    /\ client # "unknown"
    /\ Raises
    /\ job' = Idle
    /\ passedOver' = passedOver \union job.todo
    /\ unmoved' = unmoved \union job.stored
    /\ UNCHANGED <<client, moment, jobHour, schedules, reports, asked>>

\* Time passes, while a job runs too; an hour's job begins or is skipped in it.
Pass ==
    /\ moment < LastHour * Slots
    /\ moment + 1 < (jobHour + 1) * Slots
    /\ moment' = moment + 1
    /\ UNCHANGED <<client, jobHour, schedules, reports, job, failures, asked,
                   passedOver, unmoved>>

ReportsInit ==
    /\ client = "unknown"
    /\ moment = 0
    /\ jobHour = 1
    /\ schedules = [s \in ScheduleIds |-> NoSchedule]
    /\ reports = {}
    /\ job = Idle
    /\ failures = 0
    /\ asked = 0
    /\ passedOver = {}
    /\ unmoved = {}

ReportsNext ==
    \/ Initialize \/ BeginJob \/ SkipJob \/ EndJob \/ Restart \/ Pass
    \/ \E s \in ScheduleIds :
          CreateSchedule(s) \/ StoreReport(s) \/ UpdateSchedule(s) \/ RunNow(s)

ReportsSpec == ReportsInit /\ [][ReportsNext]_reportVars

-----------------------------------------------------------------------------
(* Properties *)

ByJob(s) == {r \in reports : r.schedule = s /\ r.by = "job"}

\* A report covers the Length moments up to its time. Of a schedule that was
\* moved each time its report was stored, no later report reaches back beyond the
\* time at which the job of an earlier one began: moments are covered twice only as
\* far as the earlier report was late in its own job. Of a schedule that no hour
\* passed over while it was due, the next job to report on it begins less than an
\* hour and its grace after the period is up. And whatever failed, was skipped, cut
\* off the listing, interrupted, asked for at once or answered without effect,
\* next_run is never ahead of the reports: it is a period after the beginning of a
\* job that stored one, or after the schedule was made.
ReportsTile ==
    /\ \A s \in ScheduleIds \ unmoved : \A r, q \in ByJob(s) :
          r # q /\ r.run <= q.run => r.run + Length <= q.at
    /\ \A s \in ScheduleIds \ passedOver : \A r, q \in ByJob(s) :
          r.run < q.run =>
              \E n \in ByJob(s) : r.run < n.run /\ n.run < r.run + Length + Slots + Grace
    /\ \A s \in Existing :
          \/ schedules[s].next_run = schedules[s].created_at + Length
          \/ \E r \in ByJob(s) : schedules[s].next_run = r.run + Length

=============================================================================
