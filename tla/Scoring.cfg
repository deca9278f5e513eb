\* Two overlapping cycles, two alerts of one entity, one statistics request,
\* one fault.
SPECIFICATION FairSpec
CONSTANTS
    Cycles = {c1, c2}
    Entities = {e1}
    Windows = {w1, w2}
    Alerts = {a1, a2}
    MadeUpIds = {i1, i2, i3}
    BaseScores = {31, 100}
    Readers = {q1}
    MaxFaults = 1
    NoAlert = NoAlert
    NoStats = NoStats
INVARIANTS
    TypeOK
    SuppressionHolds
    IncidentsCountAlerts
PROPERTIES
    StatsCatchUp
