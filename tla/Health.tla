--------------------------------- MODULE Health ---------------------------------
(***************************************************************************)
(* The deep health check. A report gathers one reading of each component,  *)
(* made while other things go on, and is kept for Keep: the time it counts *)
(* from is when the request that made it began. Requests overlap, so the   *)
(* report that is kept need not be the one that began last.                *)
(***************************************************************************)
EXTENDS Naturals, FiniteSets

CONSTANTS
    HealthRequests,
    Components,     \* the subsystems that are checked, of those below
    Keep,           \* how long a report is given again: 30 seconds
    CheckTime,      \* how long a check takes at most
    StaleRun,       \* how old the last cycle may be: 600 seconds
    MaxFlips,       \* bound: changes of a component's state, and checks that raise
    LastSecond      \* bound

ASSUME HealthAssumption ==
    /\ Components \subseteq {"kibana_proxy", "ml_models", "slm_engine", "rag_pipeline",
                             "ingestion_scheduler", "sqlite_storage"}
    /\ {Keep, CheckTime, StaleRun} \subseteq Nat

VARIABLES
    second,
    inOrder,        \* component -> whether it is as it should be
    last_run,       \* when a cycle last succeeded, 0 for never
    checking,       \* request -> [since, left, told], or NotChecking
    cached_deep_health,     \* [status, since], or NoReport
    served,         \* history: the report answered last, and when
    goodAt,         \* history: component -> when it was last in order
    flips

healthVars == <<second, inOrder, last_run, checking, cached_deep_health, served, goodAt, flips>>

NotChecking == [idle |-> TRUE]
NoReport == [none |-> TRUE]

-----------------------------------------------------------------------------
(* Readings and reports *)

\* What a check that raises makes of it: the assistant is not critical.
WhenRaised(c) == IF c \in {"slm_engine", "rag_pipeline"} THEN "degraded" ELSE "unhealthy"

\* check_elasticsearch: a probe over a second is "degraded", whatever it said.
\* check_scheduler: running, and a cycle lately.
Readings(c) ==
    CASE c = "kibana_proxy" -> {"degraded", IF inOrder[c] THEN "healthy" ELSE "unhealthy"}
      [] c = "ingestion_scheduler" ->
            {IF inOrder[c] /\ last_run # 0 /\ second <= last_run + StaleRun THEN "healthy" ELSE "degraded"}
      [] c = "sqlite_storage" -> {IF inOrder[c] THEN "healthy" ELSE "unhealthy"}
      [] c \in {"ml_models", "slm_engine", "rag_pipeline"} ->
            {IF inOrder[c] THEN "healthy" ELSE "degraded"}

\* run_all_checks: the worst reading.
Worst(told) ==
    IF "unhealthy" \in told THEN "unhealthy"
    ELSE IF "degraded" \in told THEN "degraded" ELSE "healthy"

\* Whether the report that is kept may be given again.
StillKept == cached_deep_health # NoReport /\ second < cached_deep_health.since + Keep

Serve(report) == served' = [status |-> report.status, at |-> second]

\* GET /health/deep
AskHealth(r) ==
    /\ checking[r] = NotChecking
    /\ IF StillKept
       THEN Serve(cached_deep_health) /\ UNCHANGED checking
       ELSE /\ checking' = [checking EXCEPT ![r] = [since |-> second, left |-> Components, told |-> {}]]
            /\ UNCHANGED served
    /\ UNCHANGED <<second, inOrder, last_run, cached_deep_health, goodAt, flips>>

ReadComponent(r, c) ==
    /\ checking[r] # NotChecking
    /\ c \in checking[r].left
    /\ \E reading \in Readings(c) \union {WhenRaised(c)} :
          /\ checking' = [checking EXCEPT ![r].left = @ \ {c}, ![r].told = @ \union {reading}]
          /\ \/ reading \in Readings(c) /\ UNCHANGED flips
             \/ reading \notin Readings(c) /\ flips < MaxFlips /\ flips' = flips + 1
    /\ UNCHANGED <<second, inOrder, last_run, cached_deep_health, served, goodAt>>

\* Mutant: a report is kept from when it was ready.
KeptSinceReady(r) == [status |-> Worst(checking[r].told), since |-> second]

Kept(r) == [status |-> Worst(checking[r].told), since |-> checking[r].since]

AnswerHealth(r) ==
    /\ checking[r] # NotChecking
    /\ checking[r].left = {}
    /\ cached_deep_health' = Kept(r)
    /\ Serve(Kept(r))
    /\ checking' = [checking EXCEPT ![r] = NotChecking]
    /\ UNCHANGED <<second, inOrder, last_run, goodAt, flips>>

-----------------------------------------------------------------------------
(* What is checked *)

\* Kibana, the files, the models, the scheduler come and go.
Flip(c) ==
    /\ flips < MaxFlips
    /\ flips' = flips + 1
    /\ inOrder' = [inOrder EXCEPT ![c] = ~@]
    /\ goodAt' = [goodAt EXCEPT ![c] = second]
    /\ UNCHANGED <<second, last_run, checking, cached_deep_health, served>>

\* run_ingestion_cycle notes that it succeeded; a cycle that fails leaves it.
CycleSucceeds ==
    /\ last_run < second
    /\ last_run' = second
    /\ UNCHANGED <<second, inOrder, checking, cached_deep_health, served, goodAt, flips>>

HealthTick ==
    /\ second < LastSecond
    /\ \A r \in HealthRequests :
          checking[r] # NotChecking => second < checking[r].since + CheckTime
    /\ second' = second + 1
    /\ goodAt' = [c \in Components |-> IF inOrder[c] THEN second' ELSE goodAt[c]]
    /\ UNCHANGED <<inOrder, last_run, checking, cached_deep_health, served, flips>>

HealthInit ==
    /\ second = 1
    /\ inOrder = [c \in Components |-> TRUE]
    /\ last_run = 0
    /\ checking = [r \in HealthRequests |-> NotChecking]
    /\ cached_deep_health = NoReport
    /\ served = [status |-> "none", at |-> 0]
    /\ goodAt = [c \in Components |-> 1]
    /\ flips = 0

HealthNext ==
    \/ \E r \in HealthRequests :
          AskHealth(r) \/ AnswerHealth(r) \/ \E c \in Components : ReadComponent(r, c)
    \/ \E c \in Components : Flip(c)
    \/ CycleSucceeds
    \/ HealthTick

HealthSpec == HealthInit /\ [][HealthNext]_healthVars

-----------------------------------------------------------------------------
(* Properties *)

\* The time from which a reading in an answer may be.
HealthWindow == IF Keep > CheckTime THEN Keep ELSE CheckTime

\* "healthy" is not a thing of the past: every component was in order, and the
\* scheduler's last success no older than it may be, at some moment of the last
\* thirty seconds, also when the answer is a report that another request made,
\* and that replaced one that began later.
HealthyWasWorking ==
    served.status = "healthy" =>
        /\ \A c \in Components : served.at <= goodAt[c] + HealthWindow
        /\ "ingestion_scheduler" \in Components =>
              served.at <= last_run + StaleRun + HealthWindow

=============================================================================
