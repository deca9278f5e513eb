\* One cycle at a time on one entity, no faults.
SPECIFICATION FairSpec
CONSTANTS
    Cycles = {c1}
    Entities = {e1}
    Windows = {w1}
    Alerts = {a1, a2}
    MadeUpIds = {i1, i2, i3}
    BaseScores = {31, 100}
    Readers = {q1}
    MaxFaults = 0
    NoAlert = NoAlert
    NoStats = NoStats
PROPERTIES
    LoudIsAnnounced
