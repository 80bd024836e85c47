\* Two workers that pay, one withdrawal, a fault and a retry by the admin.
SPECIFICATION FairSpec
CONSTANTS
    driver = driver  i1 = i1  i2 = i2  k1 = k1  k2 = k2  NoRow = NoRow
    Drivers = {driver}
    Ids = {i1}
    DriverOf <- OneDriver
    Amounts = {1}
    Deposits <- Three
    DailyCap = 1
    Workers = {k1, k2}
    Webhook = {k1, k2}
    StatusUrl = TRUE
    OncePerReference = FALSE
    Storable <- Widened
    MaxRetries = 1
    SettleLimit = 1
    MaxFaults = 1
    MaxAdminRetries = 1
INVARIANTS OneDispatcher RequestsAreCounted
PROPERTIES KeepsBook RecordedPayoutCloses
CHECK_DEADLOCK FALSE
