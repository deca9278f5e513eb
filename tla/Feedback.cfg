\* Two requests in flight, one scoring cycle, one failure or restart.
SPECIFICATION Spec
SYMMETRY Symmetry
CONSTANTS
    Alerts = {a1, a2}
    Entities = {e1}
    Rules = {r1}
    Analysts = {w1, w2}
    Labels = {"FP", "TP"}
    Boot = boot
    Cycles = {c1}
    ALL = ALL
    UnknownAlerts = {}
    NoAlert = NoAlert
    NoRequest = NoRequest
    NoResult = NoResult
    NoLabel = NoLabel
    FPLimit = 2
    MaxFaults = 1
INVARIANTS
    TypeOK
    SuppressionJustified
    SuppressedByAnotherAlert
PROPERTIES
    OwnLabelInForce
    BootRestores
