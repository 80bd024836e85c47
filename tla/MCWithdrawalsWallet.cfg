\* Two withdrawals from one wallet.
SPECIFICATION Spec
CONSTANTS
    driver = driver  i1 = i1  i2 = i2  k1 = k1  k2 = k2  NoRow = NoRow
    Drivers = {driver}
    Ids = {i1, i2}
    DriverOf <- OneDriver
    Amounts = {1, 2}
    Deposits <- Three
    DailyCap = 2
    Workers = {k1}
    Webhook = {k1}
    StatusUrl = FALSE
    OncePerReference = TRUE
    Storable <- Widened
    MaxRetries = 1
    SettleLimit = 1
    MaxFaults = 1
    MaxAdminRetries = 1
INVARIANTS TypeOK ReservedIsOwed NothingMinted WithinDailyCap
SYMMETRY IdSymmetry
CHECK_DEADLOCK FALSE
