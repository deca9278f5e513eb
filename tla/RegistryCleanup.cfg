\* Two jobs, nothing fails, one cleanup.
SPECIFICATION Spec
CONSTANTS
    Jobs = {j1, j2}
    MaxFaults = 0
    MaxCleanups = 1
INVARIANTS
    CleanupKeepsScalers
CHECK_DEADLOCK FALSE
