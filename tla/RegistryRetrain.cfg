\* Two jobs, nothing fails, nothing is deleted.
SPECIFICATION Spec
CONSTANTS
    Jobs = {j1, j2}
    MaxFaults = 0
    MaxCleanups = 0
INVARIANTS
    RetrainingReloads
CHECK_DEADLOCK FALSE
