\* Nothing fails: two jobs at a time suffice.
SPECIFICATION Spec
CONSTANTS
    j1 = j1  j2 = j2
    Jobs = {j1, j2}
    Listener = TRUE
    MakesKeys = FALSE
    MaxRetries = 2
    MaxTxs = 1
    MaxFaults = 0
INVARIANT FinalizesReleases
CHECK_DEADLOCK FALSE
