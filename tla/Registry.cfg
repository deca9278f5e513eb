\* Three jobs, two faults, one cleanup.
SPECIFICATION FairSpec
CONSTANTS
    Jobs = {j1, j2, j3}
    MaxFaults = 2
    MaxCleanups = 1
INVARIANTS
    TypeOK
    PairsAgree
    UnfittedNeedsCleanup
PROPERTIES
    JobsEnd
CHECK_DEADLOCK FALSE
