\* One request at a time and no failures: what the feedback page reports is
\* what scoring suppresses, and every refresh ends.
SPECIFICATION FairSpec
CONSTANTS
    Alerts = {a1, a2}
    Entities = {e1}
    Rules = {r1, r2}
    Labels = {"FP", "TP"}
    Analysts = {w1}
    Boot = boot
    Cycles = {c1}
    ALL = ALL
    UnknownAlerts = {unknown}
    NoAlert = NoAlert
    NoRequest = NoRequest
    NoResult = NoResult
    NoLabel = NoLabel
    FPLimit = 2
    MaxFaults = 0
INVARIANTS
    AcknowledgedEnforced
PROPERTIES
    RefreshEnds
