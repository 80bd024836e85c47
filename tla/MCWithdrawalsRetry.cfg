\* An admin retries a dead letter.
SPECIFICATION Spec
CONSTANTS
    driver = driver  i1 = i1  i2 = i2  k1 = k1  k2 = k2  NoRow = NoRow
    Drivers = {driver}
    Ids = {i1}
    DriverOf <- OneDriver
    Amounts = {1}
    Deposits <- Three
    DailyCap = 1
    Workers = {k1}
    Webhook = {k1}
    StatusUrl = TRUE
    OncePerReference = TRUE
    Storable <- Widened
    MaxRetries = 1
    SettleLimit = 2
    MaxFaults = 0
    MaxAdminRetries = 1
PROPERTIES DeadLetterRetriedUnpaid
CHECK_DEADLOCK FALSE
