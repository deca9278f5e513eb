CONSTANTS
    Sources = {"network", "process"}
    Network = "network"
    Docs = {doc1, doc2}
    SourceOf <- MCSourceOf
    Malformed = {doc2}
    Window = 3
    Fresh = 2
    Size = 1
    SearchTime = 2
    MaxTroubles = 2
    LastMinute = 9
    Entities = {e1, e2}
    Ips = {inside, outside}
    External = {outside}
    Ports = {port1, port2}
    BruteAlerts = 1
    ScanPorts = 1
    ScanEvents = 1
    SpreadIps = 1
    BurstAlerts = 1
    MaxEvents = 3
    AlertTimes = {0, 5, 20, 61}
    MaxExtra = 1
    CorrelatedEntities = {h1, h2}
    TimeWindow = 2
    MinAlerts = 2
    AlertKinds <- MCKinds
    CorrelationEnd = 3
    MaxBatch = 3
    ScheduleIds = {s1, s2}
    Defaults = {s1}
    Period = 2
    Slots = 1
    Grace = 0
    ListedSchedules = 1
    LastHour = 5
    MaxFailures = 1
    MaxRunNow = 1
    MaxMishaps = 3
    d1 = d1
    d2 = d2
    WebhookIds = {w1, w2}
    Dispatches = {d1, d2}
    Level <- MCLevel
    MaxEdits = 3
    MaxLost = 1
    SlaAlerts = {alert1, alert2}
    Limits <- MCLimits
    Interval = 2
    Warning = 4
    Day = 6
    SearchSize = 1
    DashboardSize = 1
    ListedBreaches = 1
    MaxMissed = 1
    MaxActs = 1
    LastArrival = 1
    LastMoment = 7
    HealthRequests = {q1, q2}
    Components = {"kibana_proxy", "ingestion_scheduler"}
    Keep = 2
    CheckTime = 2
    StaleRun = 1
    MaxFlips = 1
    LastSecond = 4
    Editors = {r1, r2}
    Tags = {tag1, tag2, tag3}
    MaxTags = 2
    MaxWrites = 4
    LastAlert = 5
    Matching = {1, 2, 4, 5}
    RowLimit = 4
    PageSize = 2
    MaxChanges = 2
    Tables <- MCTables
    EventLogs <- MCEventLogs
    Vocab = {"a", "b"}
    Surprise <- MCSurprise
    SurpriseLimit = 5
    ErrorLimit = 10
    SequenceLen = 2
    BatchSize = 2
    Tokens = {t1, t2}
    NoToken = NoToken
    MaxRetries = 1
    MaxLoads = 2
    MaxEffects = 2
    MaxOutages = 3

INIT Init
NEXT Next

INVARIANTS
    QuietCyclesMissNothing
    ReportedPatternsOccur
    IncidentsKeepAlerts
    ReportsTile
    RecordsAreTrue
    CountsAddUp
    DeadlinesWarned
    HealthyWasWorking
    TagEditsAddUp
    PagesMissNothing
    BatchAgreesWithSingle
    SafeHidesNothing
    SignedInPagesWork

PROPERTY
    EvidenceOnlyAdds

\* Every component reaches its bounds.
CHECK_DEADLOCK FALSE
