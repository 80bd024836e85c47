\* The same without the listener that posts the chain's events.
SPECIFICATION FairSpec
CONSTANTS
    j1 = j1  j2 = j2
    Jobs = {j1, j2}
    Listener = FALSE
    MakesKeys = FALSE
    MaxRetries = 2
    MaxTxs = 2
    MaxFaults = 1
PROPERTY ReleaseIsFinalized
CHECK_DEADLOCK FALSE
