\* Two requests in flight and no failures.
SPECIFICATION Spec
CONSTANTS
    Alerts = {a1, a2}
    Entities = {e1}
    Rules = {r1}
    Labels = {"FP", "TP"}
    Analysts = {w1, w2}
    Boot = boot
    Cycles = {c1}
    ALL = ALL
    UnknownAlerts = {unknown}
    NoAlert = NoAlert
    NoRequest = NoRequest
    NoResult = NoResult
    NoLabel = NoLabel
    FPLimit = 2
    MaxFaults = 0
INVARIANTS
    AcknowledgedEnforced
