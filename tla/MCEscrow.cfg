\* Two slots, each used again, two accounts and two keys.  The owner has code: what
\* it can call from within a payment includes what anybody else could.
SPECIFICATION Spec
CONSTANTS
    owner = owner
    trader = trader
    b1 = b1
    b2 = b2
    k1 = k1
    k2 = k2
    NoAccount = NoAccount
    NoCall = NoCall
    Accounts = {owner, trader}
    Owner = owner
    Contracts = {owner}
    BookingIds = {b1, b2}
    Keys = {k1, k2}
    Signed <- SignedSmall
    Supply = 2
    WithdrawalTimeout = 1
    DisputeTimeout = 1
    MaxBookings = 2
    Horizon = 3
SYMMETRY SlotSymmetry
INVARIANTS TypeOK PaidOnce Solvency OneKeyPerDelivery CommitmentOpensOnce
PROPERTIES DisputeFreezes RecoveryWaitsForLastCredit
