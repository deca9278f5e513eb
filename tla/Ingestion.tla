------------------------------- MODULE Ingestion -------------------------------
(***************************************************************************)
(* How documents get from the log indices into a scoring cycle.            *)
(*                                                                         *)
(* The scheduler runs a cycle every Window minutes, and a cycle asks each  *)
(* source for the last Window minutes: the windows of successive cycles    *)
(* meet and do not overlap. A fetch that brought nothing, because there    *)
(* was nothing or because the search failed, is remembered, and the source *)
(* is not asked again for Fresh minutes. Requests run the same pipeline at *)
(* any time. A search takes up to SearchTime minutes, its retries          *)
(* included, and its window is that of the moment the server runs it.      *)
(***************************************************************************)
EXTENDS Naturals, FiniteSets, FiniteSetsExt

CONSTANTS
    Sources,        \* SOURCE_PATTERNS
    Network,        \* the source that is normalized as a whole
    Docs,           \* documents that may be written
    SourceOf,       \* the source whose index each is written to
    Malformed,      \* those that cannot be normalized
    Window,         \* since_minutes, and the scheduler's interval: 5
    Fresh,          \* eighty per cent of it: 4
    Size,           \* documents a fetch returns at most: 1000
    SearchTime,     \* three attempts of at most thirty seconds and the waits
    MaxTroubles,    \* bound: pipelines run on request, searches that fail or are late...
    LastMinute      \* bound

ASSUME IngestionAssumption ==
    /\ {Window, Size, LastMinute} \subseteq Nat \ {0}
    /\ {Fresh, SearchTime, MaxTroubles} \subseteq Nat
    /\ SearchTime < Window /\ Fresh <= Window
    /\ Network \in Sources
    /\ SourceOf \in [Docs -> Sources]
    /\ Malformed \subseteq Docs

VARIABLES
    minute, due,    \* the time, and whether the interval job is to fire now
    scheduler,      \* "boot", "running" or "stopped"
    doc,            \* the documents in the indices, and the time they carry
    empty_query_cache,   \* source -> when it last brought nothing, or Never
    fetching,       \* run -> source -> when that search began, or a result
    running,        \* the runs in flight
    used,           \* documents some cycle normalized
    hidden,         \* history: scheduled cycles since a source was last asked
    troubles        \* history: how often something but the quiet schedule happened

ingestionVars == <<minute, due, scheduler, doc, empty_query_cache, fetching, running,
                   used, hidden, troubles>>

Runs == {"scheduled", "requested"}
Never == [never |-> TRUE]

Written == {d \in Docs : doc[d] # Never}

Asking(since) == [asked |-> since]
Brought(docs) == [docs |-> docs]
IsAsking(f) == "asked" \in DOMAIN f

Trouble(happened) ==
    /\ troubles' = troubles + IF happened THEN 1 ELSE 0
    /\ troubles' <= MaxTroubles

-----------------------------------------------------------------------------

\* Mutant: an entry counts as fresh up to and including its last minute, and
\* lives for the whole window.
FreshWholeWindow(s) ==
    /\ empty_query_cache[s] # Never
    /\ minute - empty_query_cache[s].at <= Window

\* The empty answer of a source is recent enough to be given again.
StillEmpty(s) ==
    /\ empty_query_cache[s] # Never
    /\ minute - empty_query_cache[s].at < Fresh

\* fetch_all_sources starts the three fetches at once.
Fetches == [s \in Sources |-> IF StillEmpty(s) THEN Brought({}) ELSE Asking(minute)]

BeginFetches(r) ==
    /\ running' = running \union {r}
    /\ fetching' = [fetching EXCEPT ![r] = Fetches]
    /\ UNCHANGED empty_query_cache

\* The interval job fires.
ScheduledCycle ==
    /\ due
    /\ due' = FALSE
    /\ "scheduled" \notin running
    /\ BeginFetches("scheduled")
    /\ hidden' = [s \in Sources |-> IF StillEmpty(s) THEN hidden[s] + 1 ELSE hidden[s]]
    /\ UNCHANGED <<minute, scheduler, doc, used, troubles>>

\* POST /ingestion/run, /features/run, /alerts/trigger-scoring: at any time.
RequestedCycle ==
    /\ "requested" \notin running
    /\ BeginFetches("requested")
    /\ Trouble(TRUE)
    /\ UNCHANGED <<minute, due, scheduler, doc, used, hidden>>

\* What a search for the last Window minutes returns: the newest Size.
InWindow(s) == {d \in Written : /\ SourceOf[d] = s
                                /\ doc[d].at + Window >= minute
                                /\ doc[d].at <= minute}

Newest(docs) == {d \in docs :
                    Cardinality({e \in docs : doc[e].at > doc[d].at}) < Size}

\* fetch_logs ends: what it brought is noted, when it brought nothing.
EndFetch(r, s, docs) ==
    /\ fetching' = [fetching EXCEPT ![r][s] = Brought(docs)]
    /\ empty_query_cache' =
          [empty_query_cache EXCEPT ![s] = IF docs = {} THEN [at |-> minute] ELSE Never]
    /\ hidden' = [hidden EXCEPT ![s] = 0]

SearchReturns(r, s) ==
    /\ r \in running
    /\ IsAsking(fetching[r][s])
    /\ \E docs \in SUBSET InWindow(s) :
          /\ docs \subseteq Newest(InWindow(s))
          /\ Cardinality(docs) = Min({Size, Cardinality(InWindow(s))})
          /\ EndFetch(r, s, docs)
          /\ Trouble(docs # InWindow(s) \/ minute # fetching[r][s].asked)
    /\ UNCHANGED <<minute, due, scheduler, doc, running, used>>

\* The third attempt fails: fetch_logs takes that for an empty answer.
SearchFails(r, s) ==
    /\ r \in running
    /\ IsAsking(fetching[r][s])
    /\ EndFetch(r, s, {})
    /\ Trouble(TRUE)
    /\ UNCHANGED <<minute, due, scheduler, doc, running, used>>

\* normalize_batch: one malformed network document raises, and the cycle ends
\* with nothing; elsewhere it is skipped.
Normalized(docs) ==
    IF \E d \in docs \intersect Malformed : SourceOf[d] = Network THEN {}
    ELSE docs \ Malformed

\* All three are there: the documents are normalized, and scored by the cycle.
EndFetches(r) ==
    /\ r \in running
    /\ \A s \in Sources : ~IsAsking(fetching[r][s])
    /\ LET docs == UNION {fetching[r][s].docs : s \in Sources}
       IN  /\ used' = used \union Normalized(docs)
           /\ Trouble(\E d \in docs \intersect Malformed : SourceOf[d] = Network)
    /\ running' = running \ {r}
    /\ fetching' = [fetching EXCEPT ![r] = [s \in Sources |-> Brought({})]]
    /\ UNCHANGED <<minute, due, scheduler, doc, empty_query_cache, hidden>>

-----------------------------------------------------------------------------

\* check_connection: cluster health, or after a 404 a search; the scheduler is
\* started if one of them is answered and never tried again.
Boot ==
    /\ scheduler = "boot"
    /\ scheduler' \in {"running", "stopped"}
    /\ Trouble(scheduler' = "stopped")
    /\ UNCHANGED <<minute, due, doc, empty_query_cache, fetching, running, used,
                   hidden>>

\* A document is indexed, and carries that time: Docs arrive without delay.
Write(d) ==
    /\ doc[d] = Never
    /\ doc' = [doc EXCEPT ![d] = [at |-> minute]]
    /\ UNCHANGED <<minute, due, scheduler, empty_query_cache, fetching, running, used,
                   hidden, troubles>>

\* A minute passes. Only searches take time, and the job fires punctually; if
\* the last one is still in flight this one is skipped.
Tick ==
    /\ minute < LastMinute
    /\ scheduler # "boot"
    /\ due => "scheduled" \in running
    /\ \A r \in running : \E s \in Sources : IsAsking(fetching[r][s])
    /\ \A r \in running, s \in Sources :
          IsAsking(fetching[r][s]) => minute < fetching[r][s].asked + SearchTime
    /\ minute' = minute + 1
    /\ due' = (scheduler = "running" /\ minute' % Window = 0)
    /\ UNCHANGED <<scheduler, doc, empty_query_cache, fetching, running, used,
                   hidden, troubles>>

IngestionInit ==
    /\ minute = 0
    /\ due = FALSE
    /\ scheduler = "boot"
    /\ doc = [d \in Docs |-> Never]
    /\ empty_query_cache = [s \in Sources |-> Never]
    /\ fetching = [r \in Runs |-> [s \in Sources |-> Brought({})]]
    /\ running = {}
    /\ used = {}
    /\ hidden = [s \in Sources |-> 0]
    /\ troubles = 0

IngestionNext ==
    \/ Boot
    \/ ScheduledCycle
    \/ RequestedCycle
    \/ \E r \in Runs :
          \/ EndFetches(r)
          \/ \E s \in Sources : SearchReturns(r, s) \/ SearchFails(r, s)
    \/ \E d \in Docs : Write(d)
    \/ Tick

IngestionSpec == IngestionInit /\ [][IngestionNext]_ingestionVars

-----------------------------------------------------------------------------
(* Properties *)

\* As long as every cycle is punctual and every search answered, and malformed
\* documents are only in sources normalized one by one, each well formed
\* document is used by the first cycle after it, although empty answers are
\* remembered and windows only meet. And whatever failed or was asked for in
\* between, a remembered empty answer keeps at most one scheduled cycle in a row
\* from asking a source.
QuietCyclesMissNothing ==
    /\ troubles = 0 /\ running = {} /\ ~due =>
          \A d \in Written \ Malformed :
              doc[d].at < Window * (minute \div Window) => d \in used
    /\ \A s \in Sources : hidden[s] <= 1

=============================================================================
