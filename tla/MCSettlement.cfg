\* Two jobs at a time, one fault besides interrupted refund sweeps.
SPECIFICATION FairSpec
CONSTANTS
    j1 = j1  j2 = j2
    Jobs = {j1, j2}
    Listener = TRUE
    MakesKeys = TRUE
    MaxRetries = 2
    MaxTxs = 2
    MaxFaults = 1
INVARIANTS TypeOK ReleaseIsConfirmed CreditNeedsRelease CreditedOnce
PROPERTIES KeepsOutcome ReleaseIsFinalized
CHECK_DEADLOCK FALSE
