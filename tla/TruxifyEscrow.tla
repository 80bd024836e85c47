---------------------------- MODULE TruxifyEscrow ----------------------------
(***************************************************************************)
(* The escrow contract, blockchain/contracts/TruxifyEscrow.sol.            *)
(*                                                                         *)
(* A customer's payment for a booking is locked in the contract; the owner *)
(* (the backend's relayer wallet) decides where it goes: to the driver, to *)
(* the customer, or split between them.  Nothing is sent when that is      *)
(* decided: the payee's pendingWithdrawals grows, and the payee withdraws. *)
(* After WITHDRAWAL_TIMEOUT the owner may push the amount out instead.     *)
(*                                                                         *)
(* A transaction that runs to its end without an external call is one      *)
(* step, and one that reverts is no step.  withdraw and emergencyRecover   *)
(* call the payee, whose code may call back: the call is a step that opens *)
(* `call`, the payee's re-entrant calls are steps taken while it is open,  *)
(* and the step that ends it either keeps everything or restores the state *)
(* saved when the transaction began (a revert undoes the re-entrant calls  *)
(* too).  The nonReentrant modifier is "call = NoCall".                    *)
(*                                                                         *)
(* Left out: createdAt and the events (written, never read by the          *)
(* contract), setTrustedRelayer with its signature view, and the transfer  *)
(* of ownership that Ownable brings.                                       *)
(***************************************************************************)
EXTENDS Naturals, FiniteSets, Totals

CONSTANTS
    Accounts,           \* addresses, without the zero address
    NoAccount,          \* address(0)
    Owner,              \* the deployer: the backend's relayer wallet
    Contracts,          \* accounts with code: only they can call back
    BookingIds,
    Keys,               \* release idempotency keys
    Signed,             \* the commitments the owner ever signs: a signature
                        \* never expires, so it may be presented at any time
    Supply,             \* all the coin there is
    WithdrawalTimeout,
    DisputeTimeout,
    NoCall,             \* no payee is being called
    MaxBookings,        \* bound: bookings ever created
    Horizon             \* bound: the last block timestamp

Commitments ==
    [customer : Accounts, id : BookingIds, driver : Accounts,
     amount : Nat \ {0}, nonce : Nat]

ASSUME EscrowAssumption ==
    /\ IsFiniteSet(Accounts) /\ NoAccount \notin Accounts
    /\ Owner \in Accounts /\ Contracts \subseteq Accounts
    /\ IsFiniteSet(BookingIds) /\ IsFiniteSet(Keys)
    /\ Signed \subseteq Commitments
    /\ Supply \in Nat /\ MaxBookings \in Nat /\ Horizon \in Nat
    /\ WithdrawalTimeout \in Nat \ {0} /\ DisputeTimeout \in Nat \ {0}

VARIABLES
    bookings,               \* mapping(uint256 => Booking)
    bookingCount,
    pendingWithdrawals,
    releaseTimestamps,
    commitmentNonces,
    releaseIdempotencyKeys, \* the keys mapped to true
    paused,
    balance,                \* the contract's own coin
    now,                    \* block.timestamp
    call,                   \* the call to a payee under way, or NoCall
    opened,                 \* history: <<commitment, n>>, n the booking it opened
    creditedAt              \* history: when a settlement last credited an
                            \* account that has not emptied its balance since

ledger == <<bookings, bookingCount, pendingWithdrawals, releaseTimestamps,
            commitmentNonces, releaseIdempotencyKeys, paused, balance,
            opened, creditedAt>>
vars == <<ledger, now, call>>

-----------------------------------------------------------------------------
Status == {"Active", "Delivered", "Cancelled", "Disputed", "Resolved"}

Bookings ==
    [customer : Accounts \cup {NoAccount}, driver : Accounts \cup {NoAccount},
     amount : Nat, status : Status, paid : BOOLEAN, started : BOOLEAN,
     disputedAt : Nat]

\* A slot of the mapping that nobody has written: every field is zero.
EmptySlot ==
    [customer |-> NoAccount, driver |-> NoAccount, amount |-> 0,
     status |-> "Active", paid |-> FALSE, started |-> FALSE, disputedAt |-> 0]

\* What a transaction that calls out saves, and a revert restores.
Ledgers ==
    [bookings : [BookingIds -> Bookings], bookingCount : Nat,
     pendingWithdrawals : [Accounts -> Nat],
     releaseTimestamps : [Accounts -> Nat],
     commitmentNonces : [Accounts -> [BookingIds -> Nat]],
     releaseIdempotencyKeys : SUBSET Keys, paused : BOOLEAN, balance : Nat,
     opened : SUBSET (Signed \X Nat), creditedAt : [Accounts -> Nat]]

Snapshot ==
    [bookings |-> bookings, bookingCount |-> bookingCount,
     pendingWithdrawals |-> pendingWithdrawals,
     releaseTimestamps |-> releaseTimestamps,
     commitmentNonces |-> commitmentNonces,
     releaseIdempotencyKeys |-> releaseIdempotencyKeys,
     paused |-> paused, balance |-> balance,
     opened |-> opened, creditedAt |-> creditedAt]

Init ==
    /\ bookings = [id \in BookingIds |-> EmptySlot]
    /\ bookingCount = 0
    /\ pendingWithdrawals = [a \in Accounts |-> 0]
    /\ releaseTimestamps = [a \in Accounts |-> 0]
    /\ commitmentNonces = [a \in Accounts |-> [id \in BookingIds |-> 0]]
    /\ releaseIdempotencyKeys = {}
    /\ paused = FALSE
    /\ balance = 0
    /\ now = 1
    /\ call = NoCall
    /\ opened = {}
    /\ creditedAt = [a \in Accounts |-> 0]

-----------------------------------------------------------------------------
(* Who may call, and with how much                                         *)

\* `a` can send a call: as a transaction of its own, or from within the call
\* to a payee that has code.
CanCall(a) == call # NoCall => call.to \in Contracts /\ a \in Contracts

\* onlyOwner whenNotPaused, open to re-entrancy.
OwnerCalls == CanCall(Owner) /\ ~paused

\* onlyOwner nonReentrant whenNotPaused.
OwnerTransacts == call = NoCall /\ ~paused

\* The coin sent with a call exists outside the contract and moves in first.
Attach(value) ==
    /\ balance + value <= Supply
    /\ balance' = balance + value

\* pendingWithdrawals[a] += amount
Add(owed, a, amount) == [owed EXCEPT ![a] = @ + amount]

-----------------------------------------------------------------------------
(* Locking a payment                                                       *)

\* Mutant: receive() without whenNotPaused.
ReceiveAlways(a, value) ==
    /\ CanCall(a)
    /\ Attach(value)
    /\ pendingWithdrawals' = Add(pendingWithdrawals, a, value)
    /\ UNCHANGED <<bookings, bookingCount, releaseTimestamps, commitmentNonces,
                   releaseIdempotencyKeys, paused, now, call, opened, creditedAt>>

\* receive()
Receive(a, value) ==
    /\ CanCall(a) /\ ~paused
    /\ Attach(value)
    /\ pendingWithdrawals' = Add(pendingWithdrawals, a, value)
    /\ UNCHANGED <<bookings, bookingCount, releaseTimestamps, commitmentNonces,
                   releaseIdempotencyKeys, paused, now, call, opened, creditedAt>>

\* Mutant: a slot is taken for free as soon as it holds nothing.
SlotEmptied(id) == bookings[id].amount = 0

SlotFree(id) == bookings[id].customer = NoAccount

\* The body that createBooking and lockPayment share.
OpenSlot(id, customer, driver, value) ==
    /\ SlotFree(id)
    /\ bookingCount < MaxBookings
    /\ Attach(value)
    /\ bookings' = [bookings EXCEPT ![id] =
                       [customer |-> customer, driver |-> driver,
                        amount |-> value, status |-> "Active", paid |-> FALSE,
                        started |-> FALSE, disputedAt |-> 0]]
    /\ bookingCount' = bookingCount + 1

\* Mutant: the nonce is verified but never burned.
KeepNonce(cm) == UNCHANGED commitmentNonces

BurnNonce(cm) ==
    commitmentNonces' = [commitmentNonces EXCEPT ![cm.customer][cm.id] = @ + 1]

\* createBooking, sent by cm.customer with cm.amount: _verifyCreateCommitment
\* recomputes the commitment with the nonce the contract holds.
CreateBooking(cm) ==
    /\ CanCall(cm.customer) /\ ~paused
    /\ cm.nonce = commitmentNonces[cm.customer][cm.id]
    /\ OpenSlot(cm.id, cm.customer, cm.driver, cm.amount)
    /\ BurnNonce(cm)
    /\ opened' = opened \cup {<<cm, bookingCount'>>}
    /\ UNCHANGED <<pendingWithdrawals, releaseTimestamps,
                   releaseIdempotencyKeys, paused, now, call, creditedAt>>

\* lockPayment: the owner pays, no commitment and no nonce.
LockPayment(id, customer, driver, value) ==
    /\ OwnerCalls
    /\ OpenSlot(id, customer, driver, value)
    /\ UNCHANGED <<pendingWithdrawals, releaseTimestamps, commitmentNonces,
                   releaseIdempotencyKeys, paused, now, call, opened, creditedAt>>

-----------------------------------------------------------------------------
(* Deciding where a locked payment goes                                    *)

Deadline == now + WithdrawalTimeout

\* Mutant: a deadline that is already set is not moved.
CreditKeepingDeadline(payee, amount) ==
    /\ pendingWithdrawals' = Add(pendingWithdrawals, payee, amount)
    /\ releaseTimestamps' =
          [releaseTimestamps EXCEPT ![payee] = IF @ = 0 THEN Deadline ELSE @]
    /\ creditedAt' = [creditedAt EXCEPT ![payee] = IF amount > 0 THEN now ELSE @]

\* pendingWithdrawals[payee] += amount with a new deadline, whatever it was.
Credit(payee, amount) ==
    /\ pendingWithdrawals' = Add(pendingWithdrawals, payee, amount)
    /\ releaseTimestamps' = [releaseTimestamps EXCEPT ![payee] = Deadline]
    /\ creditedAt' = [creditedAt EXCEPT ![payee] = IF amount > 0 THEN now ELSE @]

\* The same for a split: a share of zero leaves its payee alone, and a deadline
\* already later than the new one stays.
CreditSplit(driver, driverAmount, customer, refund) ==
    LET Gets(a) == \/ a = driver /\ driverAmount > 0
                   \/ a = customer /\ refund > 0
        Later(t) == IF t = 0 \/ Deadline > t THEN Deadline ELSE t
    IN  /\ pendingWithdrawals' =
              Add(Add(pendingWithdrawals, driver, driverAmount), customer, refund)
        /\ releaseTimestamps' =
              [a \in Accounts |-> IF Gets(a) THEN Later(releaseTimestamps[a])
                                             ELSE releaseTimestamps[a]]
        /\ creditedAt' =
              [a \in Accounts |-> IF Gets(a) THEN now ELSE creditedAt[a]]

Occupied(id) == bookings[id].customer # NoAccount

\* Mutant: the amount is credited but stays in the booking.
SettledKeepingAmount(id, status) ==
    [bookings[id] EXCEPT !.paid = TRUE, !.status = status]

\* A booking that is paid out, and stays in its slot.
Settled(id, status) ==
    [bookings[id] EXCEPT !.amount = 0, !.paid = TRUE, !.status = status]

\* A booking that is paid out and leaves its slot: _releaseBookingSlot.
SettledAndReleased(id) ==
    [Settled(id, "Cancelled") EXCEPT !.customer = NoAccount,
                                     !.driver = NoAccount]

\* What an owner transaction on one booking leaves alone.
OnlyBookingsAndCredits ==
    UNCHANGED <<bookingCount, commitmentNonces, paused, now, call, opened>>

\* Mutant: the status is not looked at.
OpenInAnyStatus(id) == Occupied(id) /\ ~bookings[id].paid

\* The part of the guard that updateDropLocation, cancelBooking,
\* cancelWithPenalty and markBookingStarted share.
Open(id) ==
    /\ Occupied(id)
    /\ bookings[id].status = "Active"
    /\ ~bookings[id].paid

UpdateDropLocation(id, newAmount) ==
    LET b == bookings[id] IN
    /\ OwnerTransacts /\ Open(id) /\ ~b.started
    /\ newAmount > 0
    /\ \/ /\ newAmount > b.amount
          /\ Attach(newAmount - b.amount)
          /\ UNCHANGED <<pendingWithdrawals, releaseTimestamps, creditedAt>>
       \/ /\ newAmount <= b.amount
          /\ Credit(b.customer, b.amount - newAmount)
          /\ UNCHANGED balance
    /\ bookings' = [bookings EXCEPT ![id].amount = newAmount]
    /\ UNCHANGED releaseIdempotencyKeys
    /\ OnlyBookingsAndCredits

MarkBookingStarted(id) ==
    /\ OwnerCalls /\ Open(id) /\ ~bookings[id].started
    /\ bookings' = [bookings EXCEPT ![id].started = TRUE]
    /\ UNCHANGED <<pendingWithdrawals, releaseTimestamps, creditedAt, balance,
                   releaseIdempotencyKeys>>
    /\ OnlyBookingsAndCredits

\* Mutant: a key that was used is accepted again.
ReleasableWithAnyKey(b, key) ==
    b.status = "Active" /\ b.started /\ ~b.paid /\ b.amount > 0

Releasable(b, key) ==
    /\ key \notin releaseIdempotencyKeys
    /\ b.status = "Active" /\ b.started /\ ~b.paid /\ b.amount > 0

ReleasePayment(id, key) ==
    LET b == bookings[id] IN
    /\ OwnerTransacts
    /\ Releasable(b, key)
    /\ releaseIdempotencyKeys' = releaseIdempotencyKeys \cup {key}
    /\ bookings' = [bookings EXCEPT ![id] = Settled(id, "Delivered")]
    /\ Credit(b.driver, b.amount)
    /\ UNCHANGED balance
    /\ OnlyBookingsAndCredits

CancelBooking(id) ==
    LET b == bookings[id] IN
    /\ OwnerTransacts /\ Open(id) /\ ~b.started /\ b.amount > 0
    /\ bookings' = [bookings EXCEPT ![id] = SettledAndReleased(id)]
    /\ Credit(b.customer, b.amount)
    /\ UNCHANGED <<balance, releaseIdempotencyKeys>>
    /\ OnlyBookingsAndCredits

\* Mutant: the customer gets back all of it, on top of the driver's fee.
CancelRefundingAll(id, driverFee) ==
    LET b == bookings[id] IN
    /\ OwnerTransacts /\ Open(id) /\ b.amount > 0 /\ driverFee <= b.amount
    /\ bookings' = [bookings EXCEPT ![id] = SettledAndReleased(id)]
    /\ CreditSplit(b.driver, driverFee, b.customer, b.amount)
    /\ UNCHANGED <<balance, releaseIdempotencyKeys>>
    /\ OnlyBookingsAndCredits

CancelWithPenalty(id, driverFee) ==
    LET b == bookings[id] IN
    /\ OwnerTransacts /\ Open(id) /\ b.amount > 0 /\ driverFee <= b.amount
    /\ bookings' = [bookings EXCEPT ![id] = SettledAndReleased(id)]
    /\ CreditSplit(b.driver, driverFee, b.customer, b.amount - driverFee)
    /\ UNCHANGED <<balance, releaseIdempotencyKeys>>
    /\ OnlyBookingsAndCredits

RaiseDispute(id) ==
    /\ OwnerCalls /\ Occupied(id) /\ bookings[id].status = "Active"
    /\ bookings' = [bookings EXCEPT ![id].status = "Disputed",
                                    ![id].disputedAt = now]
    /\ UNCHANGED <<pendingWithdrawals, releaseTimestamps, creditedAt, balance,
                   releaseIdempotencyKeys>>
    /\ OnlyBookingsAndCredits

ResolveDispute(id, driverAmount) ==
    LET b == bookings[id] IN
    /\ OwnerTransacts
    /\ b.status = "Disputed" /\ ~b.paid /\ b.amount > 0
    /\ driverAmount <= b.amount
    /\ bookings' = [bookings EXCEPT ![id] = Settled(id, "Resolved")]
    /\ CreditSplit(b.driver, driverAmount, b.customer, b.amount - driverAmount)
    /\ UNCHANGED <<balance, releaseIdempotencyKeys>>
    /\ OnlyBookingsAndCredits

\* A stale dispute goes to the driver of a started trip, else to the customer.
ResolveDisputeTimeout(id) ==
    LET b == bookings[id] IN
    /\ OwnerTransacts
    /\ b.status = "Disputed" /\ ~b.paid
    /\ now > b.disputedAt + DisputeTimeout
    /\ bookings' = [bookings EXCEPT ![id] = SettledAndReleased(id)]
    /\ IF b.started THEN CreditSplit(b.driver, b.amount, b.customer, 0)
                    ELSE Credit(b.customer, b.amount)
    /\ UNCHANGED <<balance, releaseIdempotencyKeys>>
    /\ OnlyBookingsAndCredits

-----------------------------------------------------------------------------
(* Paying out: the contract calls the payee                                *)

\* The payee receives its coin and runs, with the effects already in place.
CallOut(payee, amount) ==
    /\ balance' = balance - amount
    /\ call' = [to |-> payee, saved |-> Snapshot]
    /\ UNCHANGED <<bookings, bookingCount, commitmentNonces,
                   releaseIdempotencyKeys, paused, now, opened>>

Withdraw(a) ==
    /\ call = NoCall /\ ~paused
    /\ pendingWithdrawals[a] > 0
    /\ pendingWithdrawals' = [pendingWithdrawals EXCEPT ![a] = 0]
    /\ releaseTimestamps' = [releaseTimestamps EXCEPT ![a] = 0]
    /\ creditedAt' = [creditedAt EXCEPT ![a] = 0]
    /\ CallOut(a, pendingWithdrawals[a])

\* Mutant: the amount is not compared with what the recipient is owed.
RecoverableAnyAmount(recipient, amount) ==
    /\ releaseTimestamps[recipient] > 0
    /\ now > releaseTimestamps[recipient]

Recoverable(recipient, amount) ==
    /\ releaseTimestamps[recipient] > 0
    /\ now > releaseTimestamps[recipient]
    /\ pendingWithdrawals[recipient] >= amount

\* The owner pushes an overdue amount out, paused or not.
EmergencyRecover(recipient, amount) ==
    LET left == pendingWithdrawals[recipient] - amount
        Cleared(f) == [f EXCEPT ![recipient] = IF left = 0 THEN 0 ELSE @]
    IN  /\ call = NoCall
        /\ Recoverable(recipient, amount)
        /\ pendingWithdrawals' = [pendingWithdrawals EXCEPT ![recipient] = left]
        /\ releaseTimestamps' = Cleared(releaseTimestamps)
        /\ creditedAt' = Cleared(creditedAt)
        /\ CallOut(recipient, amount)

\* The payee returns: the transaction commits.
CallReturns ==
    /\ call # NoCall
    /\ call' = NoCall
    /\ UNCHANGED <<ledger, now>>

\* The payee fails: the transaction reverts, re-entrant calls included.
CallReverts ==
    /\ call # NoCall
    /\ call' = NoCall
    /\ bookings' = call.saved.bookings
    /\ bookingCount' = call.saved.bookingCount
    /\ pendingWithdrawals' = call.saved.pendingWithdrawals
    /\ releaseTimestamps' = call.saved.releaseTimestamps
    /\ commitmentNonces' = call.saved.commitmentNonces
    /\ releaseIdempotencyKeys' = call.saved.releaseIdempotencyKeys
    /\ paused' = call.saved.paused
    /\ balance' = call.saved.balance
    /\ opened' = call.saved.opened
    /\ creditedAt' = call.saved.creditedAt
    /\ UNCHANGED now

-----------------------------------------------------------------------------
(* The switch, and time                                                    *)

Pause ==
    /\ CanCall(Owner) /\ ~paused
    /\ paused' = TRUE
    /\ UNCHANGED <<bookings, bookingCount, pendingWithdrawals,
                   releaseTimestamps, commitmentNonces, releaseIdempotencyKeys,
                   balance, opened, creditedAt, now, call>>

Unpause ==
    /\ CanCall(Owner) /\ paused
    /\ paused' = FALSE
    /\ UNCHANGED <<bookings, bookingCount, pendingWithdrawals,
                   releaseTimestamps, commitmentNonces, releaseIdempotencyKeys,
                   balance, opened, creditedAt, now, call>>

\* Time passes between transactions, never within one.
Tick ==
    /\ call = NoCall /\ now < Horizon
    /\ now' = now + 1
    /\ UNCHANGED <<ledger, call>>

-----------------------------------------------------------------------------
OwnerStep(id) ==
    \/ \E customer, driver \in Accounts, value \in 1 .. Supply :
          LockPayment(id, customer, driver, value)
    \/ \E newAmount \in 1 .. Supply : UpdateDropLocation(id, newAmount)
    \/ MarkBookingStarted(id)
    \/ \E key \in Keys : ReleasePayment(id, key)
    \/ CancelBooking(id)
    \/ \E fee \in 0 .. Supply : CancelWithPenalty(id, fee)
    \/ RaiseDispute(id)
    \/ \E share \in 0 .. Supply : ResolveDispute(id, share)
    \/ ResolveDisputeTimeout(id)

AccountStep(a) ==
    \/ \E value \in 1 .. Supply : Receive(a, value)
    \/ Withdraw(a)
    \/ \E amount \in 0 .. Supply : EmergencyRecover(a, amount)

Next ==
    \/ \E cm \in Signed : CreateBooking(cm)
    \/ \E id \in BookingIds : OwnerStep(id)
    \/ \E a \in Accounts : AccountStep(a)
    \/ CallReturns \/ CallReverts
    \/ Pause \/ Unpause \/ Tick

Spec == Init /\ [][Next]_vars

-----------------------------------------------------------------------------
(* Properties                                                              *)

Calls == [to : Accounts, saved : Ledgers]

\* Every variable has the type of its Solidity declaration.
TypeOK ==
    /\ bookings \in [BookingIds -> Bookings]
    /\ bookingCount \in Nat
    /\ pendingWithdrawals \in [Accounts -> Nat]
    /\ releaseTimestamps \in [Accounts -> Nat]
    /\ commitmentNonces \in [Accounts -> [BookingIds -> Nat]]
    /\ releaseIdempotencyKeys \in SUBSET Keys
    /\ paused \in BOOLEAN
    /\ balance \in Nat
    /\ opened \in SUBSET (Signed \X Nat)
    /\ creditedAt \in [Accounts -> Nat]
    /\ now \in Nat
    /\ call \in Calls \cup {NoCall}

Locked(bk) == [id \in BookingIds |-> bk[id].amount]

\* A ledger owes what it holds: the contract's coin is the amounts locked in
\* bookings and the amounts owed to payees, no more and no less.
Balanced(bk, pending, held) == held = Total(Locked(bk)) + Total(pending)

\* The contract can always pay everything it owes, and no coin is stuck in it:
\* whatever path settles a booking, top-ups, refunds, splits, timeouts, failed
\* calls and re-entrant deposits included, each wei is owed exactly once.
Solvency == Balanced(bookings, pendingWithdrawals, balance)

\* A slot's payment is still there exactly while the booking is undecided: no
\* path pays a booking twice, leaves coin in a slot that no operation can
\* settle, or frees a slot that holds coin.
SlotConsistent(b) ==
    /\ b.amount > 0 <=> b.customer # NoAccount /\ b.status \in {"Active", "Disputed"}
    /\ b.paid <=> b.status \in {"Delivered", "Cancelled", "Resolved"}
    /\ b.customer = NoAccount <=> b.driver = NoAccount
    /\ b.customer = NoAccount => b.status \in {"Active", "Cancelled"}

PaidOnce == \A id \in BookingIds : SlotConsistent(bookings[id])

\* What the transaction under way would restore is as good as the state itself.
SavedSafe ==
    call # NoCall =>
        /\ Balanced(call.saved.bookings, call.saved.pendingWithdrawals,
                    call.saved.balance)
        /\ \A id \in BookingIds : SlotConsistent(call.saved.bookings[id])

\* The inductive invariant: a payout cannot overdraw `balance` because of
\* Solvency, a settlement has payees because of PaidOnce, and a revert keeps
\* both because of SavedSafe.
SafetyInv == TypeOK /\ Solvency /\ PaidOnce /\ SavedSafe

\* Each delivered booking used up one idempotency key of its own, and no key
\* is used up without a delivery: a release that fails leaves its key usable,
\* and a key that succeeded can never release a second booking.
OneKeyPerDelivery ==
    Cardinality({id \in BookingIds : bookings[id].status = "Delivered"})
        = Cardinality(releaseIdempotencyKeys)

\* A signed commitment opens one booking at most, although its signature stays
\* valid and the slot it names may become free again by a cancellation.
CommitmentOpensOnce ==
    \A p, q \in opened : p[1] = q[1] => p = q

\* "Delivered/Resolved ids must never be reused" (_releaseBookingSlot): such a
\* booking never changes again.
DeliveredIsFinal ==
    [][\A id \in BookingIds :
          bookings[id].status \in {"Delivered", "Resolved"}
              => bookings'[id] = bookings[id]]_vars

\* The transaction under way is undone by this step.
Undone == call # NoCall /\ Snapshot' = call.saved

\* raiseDispute "freezes payment until resolved": a disputed booking changes
\* only by the owner's split, or by the timeout once it has passed.
DisputeFreezes ==
    [][\A id \in BookingIds :
          bookings[id].status = "Disputed" /\ ~Undone =>
              \/ bookings'[id] = bookings[id]
              \/ bookings'[id].status = "Resolved"
              \/ /\ bookings'[id].status = "Cancelled"
                 /\ now > bookings[id].disputedAt + DisputeTimeout]_vars

\* The owner pushes a payee's amount out only when WITHDRAWAL_TIMEOUT has
\* passed since the LAST settlement that credited the payee, however many
\* credits share its one deadline and in whatever order they came.
RecoveryWaitsForLastCredit ==
    [][\A a \in Accounts :
          /\ call = NoCall /\ call' # NoCall
          /\ \E amount \in 0 .. Supply : EmergencyRecover(a, amount)
          /\ creditedAt[a] # 0
          => now > creditedAt[a] + WithdrawalTimeout]_vars

\* While the contract is paused no booking moves and nobody is credited.
PauseFreezes ==
    [][paused /\ ~Undone =>
          /\ bookings' = bookings
          /\ \A a \in Accounts :
                pendingWithdrawals'[a] <= pendingWithdrawals[a]]_vars
=============================================================================
