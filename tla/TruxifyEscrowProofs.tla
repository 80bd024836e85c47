------------------------- MODULE TruxifyEscrowProofs -------------------------
(***************************************************************************)
(* For every set of accounts and bookings, every supply of coin and every  *)
(* timeout: the contract's types, its solvency and that a booking is paid  *)
(* once are invariants of TruxifyEscrow.                                   *)
(*                                                                         *)
(* Every operation changes the locked amounts at one booking and what is   *)
(* owed at one or two accounts, so solvency is TotalUpdate applied once,   *)
(* twice or three times: BookingMoves and DebtMoves say what one change    *)
(* does to Balanced, LedgerStep chains them for every operation that opens *)
(* or settles a booking, and PayoutStep is the case of the two operations  *)
(* that send coin out.                                                     *)
(*                                                                         *)
(* On top of that invariant, what a step may never do, and what slots,     *)
(* commitments and keys that are used again cannot do.  A payout may be    *)
(* undone after payees' calls changed the ledger, so each of their         *)
(* invariants is claimed of the saved ledger too.                          *)
(***************************************************************************)
EXTENDS TruxifyEscrow, TotalsProofs, FiniteSetTheorems

\* The totals of a ledger are natural numbers.
LEMMA TotalsInNat ==
    ASSUME NEW bk \in [BookingIds -> Bookings], NEW pend \in [Accounts -> Nat]
    PROVE  /\ Locked(bk) \in [BookingIds -> Nat]
           /\ Total(Locked(bk)) \in Nat
           /\ Total(pend) \in Nat
<1>1. Locked(bk) \in [BookingIds -> Nat]
  BY DEF Locked, Bookings
<1> QED BY <1>1, TotalType, EscrowAssumption

\* Rewriting one booking moves the balance by the change of its amount.
LEMMA BookingMoves ==
    ASSUME NEW bk \in [BookingIds -> Bookings],
           NEW bk2 \in [BookingIds -> Bookings],
           NEW pend \in [Accounts -> Nat],
           NEW id \in BookingIds, \A i \in BookingIds \ {id} : bk2[i] = bk[i],
           NEW held \in Int, Balanced(bk, pend, held),
           NEW held2 \in Int, held2 = held + bk2[id].amount - bk[id].amount
    PROVE  Balanced(bk2, pend, held2)
<1> DEFINE L1 == Locked(bk)
           L2 == Locked(bk2)
<1>1. L1 \in [BookingIds -> Nat] /\ L2 \in [BookingIds -> Nat]
  BY TotalsInNat
<1>2. L1[id] = bk[id].amount /\ L2[id] = bk2[id].amount
  BY DEF Locked
<1>3. \A i \in BookingIds \ {id} : L2[i] = L1[i]
  BY DEF Locked
<1>4. Total(L1) \in Nat /\ Total(L2) \in Nat /\ Total(pend) \in Nat
  BY TotalsInNat
<1>5. held = Total(L1) + Total(pend)
  BY DEF Balanced
<1>6. Total(L2) + L1[id] = Total(L1) + L2[id]
  <2> HIDE DEF L1, L2
  <2> QED BY <1>1, <1>3, TotalUpdate, EscrowAssumption
<1>7. L1[id] \in Nat /\ L2[id] \in Nat
  <2> HIDE DEF L1, L2
  <2> QED BY <1>1
<1>8. held2 = Total(L2) + Total(pend)
  <2> HIDE DEF L1, L2
  <2> QED BY <1>2, <1>4, <1>5, <1>6, <1>7
<1> QED BY <1>8 DEF Balanced

\* Rewriting what one account is owed moves the balance by the change.
LEMMA DebtMoves ==
    ASSUME NEW bk \in [BookingIds -> Bookings],
           NEW pend \in [Accounts -> Nat], NEW pend2 \in [Accounts -> Nat],
           NEW a \in Accounts, \A x \in Accounts \ {a} : pend2[x] = pend[x],
           NEW held \in Int, Balanced(bk, pend, held),
           NEW held2 \in Int, held2 = held + pend2[a] - pend[a]
    PROVE  Balanced(bk, pend2, held2)
<1>1. Total(Locked(bk)) \in Nat /\ Total(pend) \in Nat /\ Total(pend2) \in Nat
  BY TotalsInNat
<1>2. held = Total(Locked(bk)) + Total(pend)
  BY DEF Balanced
<1>3. Total(pend2) + pend[a] = Total(pend) + pend2[a]
  BY TotalUpdate, EscrowAssumption
<1>4. pend[a] \in Nat /\ pend2[a] \in Nat
  OBVIOUS
<1>5. held2 = Total(Locked(bk)) + Total(pend2)
  BY <1>1, <1>2, <1>3, <1>4
<1> QED BY <1>5 DEF Balanced

\* A slot rewritten consistently leaves every slot consistent.
LEMMA SlotStep ==
    ASSUME TypeOK, PaidOnce, NEW id \in BookingIds, NEW b \in Bookings,
           SlotConsistent(b), bookings' = [bookings EXCEPT ![id] = b]
    PROVE  PaidOnce'
<1>1. \A i \in BookingIds : bookings'[i] = IF i = id THEN b ELSE bookings[i]
  BY DEF TypeOK
<1> QED BY <1>1 DEF PaidOnce

\* Every operation that opens, changes or settles a booking: what leaves the
\* booking is credited to one or two accounts, what enters it comes in as coin.
LEMMA LedgerStep ==
    ASSUME TypeOK, Solvency, PaidOnce,
           NEW id \in BookingIds, NEW b \in Bookings, SlotConsistent(b),
           NEW d \in Accounts, NEW x \in Nat,
           NEW c \in Accounts, NEW y \in Nat,
           bookings' = [bookings EXCEPT ![id] = b],
           pendingWithdrawals' = Add(Add(pendingWithdrawals, d, x), c, y),
           balance' \in Nat,
           b.amount + x + y = bookings[id].amount + (balance' - balance)
    PROVE  Solvency' /\ PaidOnce'
<1> DEFINE p1 == Add(pendingWithdrawals, d, x)
           h0 == balance + b.amount - bookings[id].amount
           h1 == h0 + x
<1>1. /\ bookings \in [BookingIds -> Bookings] /\ balance \in Nat
      /\ pendingWithdrawals \in [Accounts -> Nat]
  BY DEF TypeOK
<1>2. b.amount \in Nat /\ bookings[id].amount \in Nat
  BY <1>1 DEF Bookings
<1>3. /\ bookings' \in [BookingIds -> Bookings] /\ bookings'[id] = b
      /\ \A i \in BookingIds \ {id} : bookings'[i] = bookings[i]
  BY <1>1
<1>4. /\ h0 \in Int /\ h1 \in Int
      /\ balance \in Int /\ balance' \in Int
  BY <1>1, <1>2
<1>5. Balanced(bookings', pendingWithdrawals, h0)
  <2>1. h0 = balance + bookings'[id].amount - bookings[id].amount
    BY <1>3
  <2>2. Balanced(bookings, pendingWithdrawals, balance)
    BY DEF Solvency
  <2> HIDE DEF h0
  <2> QED BY <1>1, <1>3, <1>4, <2>1, <2>2, BookingMoves
<1>6. /\ p1 \in [Accounts -> Nat] /\ p1[d] = pendingWithdrawals[d] + x
      /\ \A a \in Accounts \ {d} : p1[a] = pendingWithdrawals[a]
  BY <1>1 DEF Add
<1>7. Balanced(bookings', p1, h1)
  <2>1. h1 = h0 + p1[d] - pendingWithdrawals[d]
    BY <1>1, <1>4, <1>6
  <2> HIDE DEF h0, h1, p1
  <2> QED BY <1>1, <1>3, <1>4, <1>5, <1>6, <2>1, DebtMoves
<1>8. /\ pendingWithdrawals' \in [Accounts -> Nat]
      /\ pendingWithdrawals'[c] = p1[c] + y
      /\ \A a \in Accounts \ {c} : pendingWithdrawals'[a] = p1[a]
  <2> HIDE DEF p1
  <2>1. pendingWithdrawals' = Add(p1, c, y)
    BY DEF p1
  <2> QED BY <1>6, <2>1 DEF Add
<1>9. balance' = h1 + pendingWithdrawals'[c] - p1[c]
  <2>1. p1[c] \in Nat
    BY <1>6
  <2> QED BY <1>1, <1>2, <1>8, <2>1
<1>10. Balanced(bookings', pendingWithdrawals', balance')
  <2> HIDE DEF h0, h1, p1
  <2> QED BY <1>3, <1>4, <1>6, <1>7, <1>8, <1>9, DebtMoves
<1> QED BY <1>10, SlotStep DEF Solvency

\* A payout: coin leaves, and what the payee is owed shrinks by as much.  The
\* contract holds it because of solvency.
LEMMA PayoutStep ==
    ASSUME TypeOK, Solvency, NEW a \in Accounts, NEW amount \in Nat,
           amount <= pendingWithdrawals[a],
           bookings' = bookings, balance' = balance - amount,
           pendingWithdrawals' =
              [pendingWithdrawals EXCEPT ![a] = pendingWithdrawals[a] - amount]
    PROVE  /\ Solvency' /\ balance' \in Nat
           /\ pendingWithdrawals' \in [Accounts -> Nat]
<1>1. /\ bookings \in [BookingIds -> Bookings] /\ balance \in Int
      /\ pendingWithdrawals \in [Accounts -> Nat] /\ balance' \in Int
  BY DEF TypeOK
<1>2. /\ pendingWithdrawals' \in [Accounts -> Nat]
      /\ pendingWithdrawals'[a] = pendingWithdrawals[a] - amount
      /\ \A x \in Accounts \ {a} : pendingWithdrawals'[x] = pendingWithdrawals[x]
  BY <1>1
<1>3. balance' = balance + pendingWithdrawals'[a] - pendingWithdrawals[a]
  BY <1>1, <1>2
<1>4. Balanced(bookings, pendingWithdrawals', balance')
  BY <1>1, <1>2, <1>3, DebtMoves DEF Solvency
<1>5. balance' \in Nat
  <2>1. Total(Locked(bookings)) \in Nat /\ Total(pendingWithdrawals') \in Nat
    BY <1>1, <1>2, TotalsInNat
  <2>2. balance' = Total(Locked(bookings)) + Total(pendingWithdrawals')
    BY <1>4 DEF Balanced
  <2> QED BY <2>1, <2>2
<1> QED BY <1>2, <1>4, <1>5 DEF Solvency

-----------------------------------------------------------------------------
(* Bookings that are opened and settled                                    *)

\* A booking that still holds coin names the two accounts that may get it.
LEMMA HeldHasPayees ==
    ASSUME TypeOK, PaidOnce, NEW id \in BookingIds, bookings[id].amount > 0
    PROVE  /\ bookings[id] \in Bookings
           /\ bookings[id].customer \in Accounts
           /\ bookings[id].driver \in Accounts
           /\ bookings[id].status \in {"Active", "Disputed"}
           /\ bookings[id].amount \in Nat
<1>1. bookings[id] \in Bookings
  BY DEF TypeOK
<1>2. SlotConsistent(bookings[id])
  BY DEF PaidOnce
<1> QED BY <1>1, <1>2 DEF Bookings, SlotConsistent

\* An undecided booking holds coin.
LEMMA UndecidedIsHeld ==
    ASSUME TypeOK, PaidOnce, NEW id \in BookingIds,
           \/ bookings[id].status = "Disputed"
           \/ Occupied(id) /\ bookings[id].status = "Active"
    PROVE  bookings[id].amount > 0
<1>1. SlotConsistent(bookings[id])
  BY DEF PaidOnce
<1> QED BY <1>1 DEF SlotConsistent, Occupied

\* What settling writes is a consistent slot that holds nothing.
LEMMA SettledSlot ==
    ASSUME TypeOK, PaidOnce, NEW id \in BookingIds, bookings[id].amount > 0
    PROVE  /\ \A status \in {"Delivered", "Resolved"} :
                 /\ Settled(id, status) \in Bookings
                 /\ SlotConsistent(Settled(id, status))
                 /\ Settled(id, status).amount = 0
           /\ SettledAndReleased(id) \in Bookings
           /\ SlotConsistent(SettledAndReleased(id))
           /\ SettledAndReleased(id).amount = 0
<1>1. /\ bookings[id] \in Bookings
      /\ bookings[id].customer \in Accounts /\ bookings[id].driver \in Accounts
  BY HeldHasPayees
<1>2. ASSUME NEW status \in {"Delivered", "Resolved"}
      PROVE  /\ Settled(id, status) \in Bookings
             /\ SlotConsistent(Settled(id, status))
             /\ Settled(id, status).amount = 0
  <2> DEFINE n == Settled(id, status)
  <2>1. /\ n \in Bookings /\ n.amount = 0 /\ n.paid = TRUE /\ n.status = status
        /\ n.customer = bookings[id].customer /\ n.driver = bookings[id].driver
    BY <1>1, <1>2 DEF Settled, Bookings, Status
  <2> HIDE DEF n
  <2>2. SlotConsistent(n)
    BY <1>1, <1>2, <2>1, EscrowAssumption DEF SlotConsistent
  <2> QED BY <2>1, <2>2 DEF n
<1>3. /\ SettledAndReleased(id) \in Bookings
      /\ SlotConsistent(SettledAndReleased(id))
      /\ SettledAndReleased(id).amount = 0
  <2> DEFINE n == SettledAndReleased(id)
  <2>1. /\ n \in Bookings /\ n.amount = 0 /\ n.paid = TRUE
        /\ n.status = "Cancelled"
        /\ n.customer = NoAccount /\ n.driver = NoAccount
    BY <1>1 DEF SettledAndReleased, Settled, Bookings, Status
  <2> HIDE DEF n
  <2>2. SlotConsistent(n)
    BY <2>1 DEF SlotConsistent
  <2> QED BY <2>1, <2>2 DEF n
<1> QED BY <1>2, <1>3

\* What opening a slot writes is a consistent slot that holds the payment.
LEMMA OpenedSlot ==
    ASSUME NEW customer \in Accounts, NEW driver \in Accounts,
           NEW value \in Nat \ {0}, NEW b,
           b = [customer |-> customer, driver |-> driver, amount |-> value,
                status |-> "Active", paid |-> FALSE, started |-> FALSE,
                disputedAt |-> 0]
    PROVE  b \in Bookings /\ SlotConsistent(b) /\ b.amount = value
<1>1. b \in Bookings
  BY DEF Bookings, Status
<1>2. /\ b.customer = customer /\ b.driver = driver /\ b.amount = value
      /\ b.status = "Active" /\ b.paid = FALSE
  OBVIOUS
<1>3. SlotConsistent(b)
  BY <1>2, EscrowAssumption DEF SlotConsistent
<1> QED BY <1>1, <1>2, <1>3

\* Crediting an account keeps what accounts are owed a ledger.
LEMMA AddType ==
    ASSUME NEW owed \in [Accounts -> Nat], NEW a \in Accounts,
           NEW amount \in Nat
    PROVE  Add(owed, a, amount) \in [Accounts -> Nat]
BY DEF Add

\* A credit keeps the types of what it writes.
LEMMA CreditTypes ==
    ASSUME TypeOK, NEW d \in Accounts, NEW x \in Nat, Credit(d, x)
    PROVE  /\ pendingWithdrawals' \in [Accounts -> Nat]
           /\ releaseTimestamps' \in [Accounts -> Nat]
           /\ creditedAt' \in [Accounts -> Nat]
<1>1. /\ pendingWithdrawals \in [Accounts -> Nat] /\ now \in Nat
      /\ releaseTimestamps \in [Accounts -> Nat] /\ Deadline \in Nat
      /\ creditedAt \in [Accounts -> Nat]
  BY EscrowAssumption DEF TypeOK, Deadline
<1> QED BY <1>1, AddType DEF Credit

\* So does a split.
LEMMA SplitTypes ==
    ASSUME TypeOK, NEW d \in Accounts, NEW x \in Nat,
           NEW c \in Accounts, NEW y \in Nat,
           CreditSplit(d, x, c, y)
    PROVE  /\ pendingWithdrawals' \in [Accounts -> Nat]
           /\ releaseTimestamps' \in [Accounts -> Nat]
           /\ creditedAt' \in [Accounts -> Nat]
<1>1. /\ pendingWithdrawals \in [Accounts -> Nat] /\ now \in Nat
      /\ releaseTimestamps \in [Accounts -> Nat] /\ Deadline \in Nat
      /\ creditedAt \in [Accounts -> Nat]
  BY EscrowAssumption DEF TypeOK, Deadline
<1>2. pendingWithdrawals' \in [Accounts -> Nat]
  <2> DEFINE p == Add(pendingWithdrawals, d, x)
  <2>1. p \in [Accounts -> Nat]
    BY <1>1, AddType
  <2>2. pendingWithdrawals' = Add(p, c, y)
    BY DEF CreditSplit
  <2> HIDE DEF p
  <2> QED BY <2>1, <2>2, AddType
<1>3. releaseTimestamps' \in [Accounts -> Nat]
  BY <1>1 DEF CreditSplit
<1>4. creditedAt' \in [Accounts -> Nat]
  BY <1>1 DEF CreditSplit
<1> QED BY <1>2, <1>3, <1>4

\* A credit to one account is a split whose other share is zero.
LEMMA CreditIsSplit ==
    ASSUME TypeOK, NEW d \in Accounts, NEW x \in Nat, Credit(d, x)
    PROVE  pendingWithdrawals' = Add(Add(pendingWithdrawals, d, x), d, 0)
<1> DEFINE p == Add(pendingWithdrawals, d, x)
<1>1. p \in [Accounts -> Nat]
  BY AddType DEF TypeOK
<1>2. pendingWithdrawals' = p
  BY DEF Credit
<1> HIDE DEF p
<1>3. Add(p, d, 0) = p
  <2>1. p[d] + 0 = p[d]
    BY <1>1
  <2> QED BY <1>1, <2>1 DEF Add
<1> QED BY <1>2, <1>3 DEF p

-----------------------------------------------------------------------------
(* The two shapes of an operation on one booking                           *)

\* The booking is rewritten and accounts are credited; no coin moves.
LEMMA SettleStep ==
    ASSUME SafetyInv, NEW id \in BookingIds, NEW b \in Bookings,
           SlotConsistent(b), bookings' = [bookings EXCEPT ![id] = b],
           NEW d \in Accounts, NEW x \in Nat,
           NEW c \in Accounts, NEW y \in Nat,
           CreditSplit(d, x, c, y) \/ (Credit(d, x) /\ c = d /\ y = 0),
           b.amount + x + y = bookings[id].amount,
           releaseIdempotencyKeys' \in SUBSET Keys,
           balance' = balance, OnlyBookingsAndCredits
    PROVE  SafetyInv'
<1>1. TypeOK /\ Solvency /\ PaidOnce /\ SavedSafe
  BY DEF SafetyInv
<1>2. /\ pendingWithdrawals' = Add(Add(pendingWithdrawals, d, x), c, y)
      /\ pendingWithdrawals' \in [Accounts -> Nat]
      /\ releaseTimestamps' \in [Accounts -> Nat]
      /\ creditedAt' \in [Accounts -> Nat]
  <2>1. CASE CreditSplit(d, x, c, y)
    <3>1. pendingWithdrawals' = Add(Add(pendingWithdrawals, d, x), c, y)
      BY <2>1 DEF CreditSplit
    <3> QED BY <1>1, <2>1, <3>1, SplitTypes
  <2>2. CASE Credit(d, x) /\ c = d /\ y = 0
    BY <1>1, <2>2, CreditTypes, CreditIsSplit
  <2> QED BY <2>1, <2>2
<1>3. /\ bookings' \in [BookingIds -> Bookings] /\ balance \in Nat
      /\ bookings[id].amount \in Nat
  BY <1>1 DEF TypeOK, Bookings
<1>4. balance' \in Nat /\ balance' - balance = 0
  BY <1>3
<1>5. b.amount + x + y = bookings[id].amount + (balance' - balance)
  BY <1>3, <1>4
<1>6. Solvency' /\ PaidOnce'
  BY <1>1, <1>2, <1>4, <1>5, LedgerStep
<1>7. TypeOK'
  BY <1>1, <1>2, <1>3, <1>4 DEF TypeOK, OnlyBookingsAndCredits, Calls, Ledgers
<1>8. SavedSafe'
  BY <1>1 DEF SavedSafe, OnlyBookingsAndCredits, Balanced, Locked, SlotConsistent
<1> QED BY <1>6, <1>7, <1>8 DEF SafetyInv

\* The booking is rewritten and its change of amount comes in as coin; nobody
\* is credited.
LEMMA LockStep ==
    ASSUME SafetyInv, NEW id \in BookingIds, NEW b \in Bookings,
           SlotConsistent(b), bookings' = [bookings EXCEPT ![id] = b],
           balance' \in Nat,
           b.amount = bookings[id].amount + (balance' - balance),
           UNCHANGED <<pendingWithdrawals, releaseTimestamps, creditedAt,
                       releaseIdempotencyKeys, paused, now, call>>,
           bookingCount' \in Nat, opened' \in SUBSET (Signed \X Nat),
           commitmentNonces' \in [Accounts -> [BookingIds -> Nat]]
    PROVE  SafetyInv'
<1>1. TypeOK /\ Solvency /\ PaidOnce /\ SavedSafe
  BY DEF SafetyInv
<1>2. pendingWithdrawals' = Add(Add(pendingWithdrawals, Owner, 0), Owner, 0)
  <2>1. /\ pendingWithdrawals \in [Accounts -> Nat] /\ Owner \in Accounts
        /\ pendingWithdrawals[Owner] + 0 = pendingWithdrawals[Owner]
    BY <1>1, EscrowAssumption DEF TypeOK
  <2>2. Add(pendingWithdrawals, Owner, 0) = pendingWithdrawals
    BY <2>1 DEF Add
  <2> QED BY <2>2
<1>3. b.amount \in Nat /\ bookings[id].amount \in Nat /\ balance \in Nat
  BY <1>1 DEF TypeOK, Bookings
<1>4. b.amount + 0 + 0 = bookings[id].amount + (balance' - balance)
  BY <1>3
<1>5. Owner \in Accounts /\ 0 \in Nat
  BY EscrowAssumption
<1>6. Solvency' /\ PaidOnce'
  BY <1>1, <1>2, <1>4, <1>5, LedgerStep
<1>7. TypeOK'
  BY <1>1 DEF TypeOK
<1>8. SavedSafe'
  BY <1>1 DEF SavedSafe, Balanced, Locked, SlotConsistent
<1> QED BY <1>6, <1>7, <1>8 DEF SafetyInv

-----------------------------------------------------------------------------
(* One lemma per operation                                                 *)

LEMMA LockPaymentSafe ==
    ASSUME SafetyInv, NEW id \in BookingIds, NEW customer \in Accounts,
           NEW driver \in Accounts, NEW value \in 1 .. Supply,
           LockPayment(id, customer, driver, value)
    PROVE  SafetyInv'
<1> DEFINE b == [customer |-> customer, driver |-> driver, amount |-> value,
                 status |-> "Active", paid |-> FALSE, started |-> FALSE,
                 disputedAt |-> 0]
<1>1. value \in Nat \ {0}
  BY EscrowAssumption
<1>2. b \in Bookings /\ SlotConsistent(b) /\ b.amount = value
  BY <1>1, OpenedSlot
<1>3. /\ bookings' = [bookings EXCEPT ![id] = b]
      /\ bookings[id].customer = NoAccount
      /\ balance' = balance + value /\ bookingCount' = bookingCount + 1
  BY DEF LockPayment, OpenSlot, SlotFree, Attach
<1>4. /\ balance \in Nat /\ bookingCount \in Nat /\ opened' = opened
      /\ opened \in SUBSET (Signed \X Nat)
      /\ commitmentNonces' = commitmentNonces
      /\ commitmentNonces \in [Accounts -> [BookingIds -> Nat]]
      /\ bookings[id].amount \in Nat
  BY DEF LockPayment, SafetyInv, TypeOK, Bookings
<1>5. bookings[id].amount = 0
  <2>1. SlotConsistent(bookings[id])
    BY DEF SafetyInv, PaidOnce
  <2> QED BY <1>3, <1>4, <2>1 DEF SlotConsistent
<1> HIDE DEF b
<1>6. b.amount = bookings[id].amount + (balance' - balance)
  BY <1>1, <1>2, <1>3, <1>4, <1>5
<1>7. /\ balance' \in Nat /\ bookingCount' \in Nat
      /\ UNCHANGED <<pendingWithdrawals, releaseTimestamps, creditedAt,
                     releaseIdempotencyKeys, paused, now, call>>
  BY <1>1, <1>3, <1>4 DEF LockPayment
<1> QED BY <1>2, <1>3, <1>4, <1>6, <1>7, LockStep

LEMMA CreateBookingSafe ==
    ASSUME SafetyInv, NEW cm \in Signed, CreateBooking(cm)
    PROVE  SafetyInv'
<1> DEFINE b == [customer |-> cm.customer, driver |-> cm.driver,
                 amount |-> cm.amount, status |-> "Active", paid |-> FALSE,
                 started |-> FALSE, disputedAt |-> 0]
<1>1. /\ cm.customer \in Accounts /\ cm.driver \in Accounts
      /\ cm.id \in BookingIds /\ cm.amount \in Nat \ {0}
  BY EscrowAssumption DEF Commitments
<1>2. b \in Bookings /\ SlotConsistent(b) /\ b.amount = cm.amount
  BY <1>1, OpenedSlot
<1>3. /\ bookings' = [bookings EXCEPT ![cm.id] = b]
      /\ bookings[cm.id].customer = NoAccount
      /\ balance' = balance + cm.amount /\ bookingCount' = bookingCount + 1
      /\ opened' = opened \cup {<<cm, bookingCount'>>}
  BY DEF CreateBooking, OpenSlot, SlotFree, Attach
<1>4. /\ balance \in Nat /\ bookingCount \in Nat
      /\ opened \in SUBSET (Signed \X Nat)
      /\ bookings[cm.id].amount \in Nat
  BY <1>1 DEF SafetyInv, TypeOK, Bookings
<1>5. commitmentNonces' \in [Accounts -> [BookingIds -> Nat]]
  <2>1. commitmentNonces \in [Accounts -> [BookingIds -> Nat]]
    BY DEF SafetyInv, TypeOK
  <2>2. commitmentNonces[cm.customer][cm.id] + 1 \in Nat
    BY <1>1, <2>1
  <2>3. commitmentNonces' = [commitmentNonces EXCEPT
            ![cm.customer][cm.id] = commitmentNonces[cm.customer][cm.id] + 1]
    BY DEF CreateBooking, BurnNonce
  <2> QED BY <1>1, <2>1, <2>2, <2>3
<1>6. bookings[cm.id].amount = 0
  <2>1. SlotConsistent(bookings[cm.id])
    BY <1>1 DEF SafetyInv, PaidOnce
  <2> QED BY <1>3, <1>4, <2>1 DEF SlotConsistent
<1> HIDE DEF b
<1>7. b.amount = bookings[cm.id].amount + (balance' - balance)
  BY <1>1, <1>2, <1>3, <1>4, <1>6
<1>8. /\ balance' \in Nat /\ bookingCount' \in Nat
      /\ opened' \in SUBSET (Signed \X Nat)
      /\ UNCHANGED <<pendingWithdrawals, releaseTimestamps, creditedAt,
                     releaseIdempotencyKeys, paused, now, call>>
  BY <1>1, <1>3, <1>4 DEF CreateBooking
<1> QED BY <1>1, <1>2, <1>3, <1>5, <1>7, <1>8, LockStep

LEMMA UpdateDropLocationSafe ==
    ASSUME SafetyInv, NEW id \in BookingIds, NEW newAmount \in 1 .. Supply,
           UpdateDropLocation(id, newAmount)
    PROVE  SafetyInv'
<1> DEFINE b == [bookings[id] EXCEPT !.amount = newAmount]
           old == bookings[id].amount
<1>1. TypeOK /\ PaidOnce /\ Occupied(id) /\ bookings[id].status = "Active"
  BY DEF SafetyInv, UpdateDropLocation, Open
<1>2. /\ bookings[id] \in Bookings /\ old \in Nat /\ old > 0
      /\ bookings[id].customer \in Accounts
  BY <1>1, UndecidedIsHeld, HeldHasPayees
<1>3. newAmount \in Nat /\ newAmount > 0
  BY EscrowAssumption
<1>4. /\ b \in Bookings /\ b.amount = newAmount
      /\ b.customer = bookings[id].customer /\ b.driver = bookings[id].driver
      /\ b.status = bookings[id].status /\ b.paid = bookings[id].paid
  BY <1>2, <1>3 DEF Bookings
<1>5. bookings' = [bookings EXCEPT ![id] = b]
  BY DEF UpdateDropLocation
<1> HIDE DEF b
<1>6. SlotConsistent(b)
  <2>1. SlotConsistent(bookings[id])
    BY <1>1 DEF PaidOnce
  <2> QED BY <1>2, <1>3, <1>4, <2>1 DEF SlotConsistent
<1>7. CASE /\ newAmount > old
           /\ Attach(newAmount - old)
           /\ UNCHANGED <<pendingWithdrawals, releaseTimestamps, creditedAt>>
  <2>1. balance \in Nat /\ balance' = balance + (newAmount - old)
    BY <1>1, <1>7 DEF TypeOK, Attach
  <2>2. balance' \in Nat /\ b.amount = old + (balance' - balance)
    BY <1>2, <1>3, <1>4, <1>7, <2>1
  <2>3. UNCHANGED <<pendingWithdrawals, releaseTimestamps, creditedAt,
                    releaseIdempotencyKeys, paused, now, call>>
    BY <1>7 DEF UpdateDropLocation, OnlyBookingsAndCredits
  <2>4. /\ bookingCount' \in Nat /\ opened' \in SUBSET (Signed \X Nat)
        /\ commitmentNonces' \in [Accounts -> [BookingIds -> Nat]]
    BY <1>1 DEF UpdateDropLocation, OnlyBookingsAndCredits, TypeOK
  <2> QED BY <1>4, <1>5, <1>6, <2>2, <2>3, <2>4, LockStep
<1>8. CASE /\ newAmount <= old
           /\ Credit(bookings[id].customer, old - newAmount)
           /\ UNCHANGED balance
  <2>1. old - newAmount \in Nat /\ b.amount + (old - newAmount) + 0 = old
    BY <1>2, <1>3, <1>4, <1>8
  <2>2. /\ releaseIdempotencyKeys' \in SUBSET Keys /\ balance' = balance
        /\ OnlyBookingsAndCredits
    BY <1>1, <1>8 DEF UpdateDropLocation, TypeOK
  <2> QED BY <1>2, <1>4, <1>5, <1>6, <1>8, <2>1, <2>2, SettleStep
<1> QED BY <1>7, <1>8 DEF UpdateDropLocation

LEMMA MarkBookingStartedSafe ==
    ASSUME SafetyInv, NEW id \in BookingIds, MarkBookingStarted(id)
    PROVE  SafetyInv'
<1> DEFINE b == [bookings[id] EXCEPT !.started = TRUE]
<1>1. TypeOK /\ PaidOnce /\ bookings[id] \in Bookings
  BY DEF SafetyInv, TypeOK
<1>2. /\ b \in Bookings /\ b.amount = bookings[id].amount
      /\ b.customer = bookings[id].customer /\ b.driver = bookings[id].driver
      /\ b.status = bookings[id].status /\ b.paid = bookings[id].paid
  BY <1>1 DEF Bookings
<1>3. bookings' = [bookings EXCEPT ![id] = b]
  BY DEF MarkBookingStarted
<1> HIDE DEF b
<1>4. SlotConsistent(b)
  BY <1>1, <1>2 DEF PaidOnce, SlotConsistent
<1>5. /\ UNCHANGED <<pendingWithdrawals, releaseTimestamps, creditedAt,
                     releaseIdempotencyKeys, paused, now, call>>
      /\ bookingCount' \in Nat /\ opened' \in SUBSET (Signed \X Nat)
      /\ commitmentNonces' \in [Accounts -> [BookingIds -> Nat]]
      /\ balance' = balance /\ balance \in Nat
  BY <1>1 DEF MarkBookingStarted, OnlyBookingsAndCredits, TypeOK
<1>6. balance' \in Nat /\ b.amount = bookings[id].amount + (balance' - balance)
  BY <1>1, <1>2, <1>5 DEF Bookings
<1> QED BY <1>2, <1>3, <1>4, <1>5, <1>6, LockStep

LEMMA RaiseDisputeSafe ==
    ASSUME SafetyInv, NEW id \in BookingIds, RaiseDispute(id)
    PROVE  SafetyInv'
<1> DEFINE b == [bookings[id] EXCEPT !.status = "Disputed", !.disputedAt = now]
<1>1. /\ TypeOK /\ PaidOnce /\ bookings[id] \in Bookings /\ now \in Nat
      /\ Occupied(id) /\ bookings[id].status = "Active"
  BY DEF SafetyInv, TypeOK, RaiseDispute
<1>2. /\ b \in Bookings /\ b.amount = bookings[id].amount
      /\ b.customer = bookings[id].customer /\ b.driver = bookings[id].driver
      /\ b.status = "Disputed" /\ b.paid = bookings[id].paid
  BY <1>1 DEF Bookings, Status
<1>3. bookings' = [bookings EXCEPT ![id] = b]
  <2>1. bookings' = [bookings EXCEPT ![id].status = "Disputed",
                                     ![id].disputedAt = now]
    BY DEF RaiseDispute
  <2>2. bookings \in [BookingIds -> Bookings]
    BY <1>1 DEF TypeOK
  <2> QED BY <2>1, <2>2
<1> HIDE DEF b
<1>4. SlotConsistent(b)
  <2>1. SlotConsistent(bookings[id])
    BY <1>1 DEF PaidOnce
  <2> QED BY <1>1, <1>2, <2>1 DEF SlotConsistent, Occupied
<1>5. /\ UNCHANGED <<pendingWithdrawals, releaseTimestamps, creditedAt,
                     releaseIdempotencyKeys, paused, now, call>>
      /\ bookingCount' \in Nat /\ opened' \in SUBSET (Signed \X Nat)
      /\ commitmentNonces' \in [Accounts -> [BookingIds -> Nat]]
      /\ balance' = balance /\ balance \in Nat
  BY <1>1 DEF RaiseDispute, OnlyBookingsAndCredits, TypeOK
<1>6. balance' \in Nat /\ b.amount = bookings[id].amount + (balance' - balance)
  BY <1>1, <1>2, <1>5 DEF Bookings
<1> QED BY <1>2, <1>3, <1>4, <1>5, <1>6, LockStep

LEMMA ReleasePaymentSafe ==
    ASSUME SafetyInv, NEW id \in BookingIds, NEW key \in Keys,
           ReleasePayment(id, key)
    PROVE  SafetyInv'
<1> DEFINE b == Settled(id, "Delivered")
<1>1. TypeOK /\ PaidOnce /\ bookings[id].amount > 0
  BY DEF SafetyInv, ReleasePayment, Releasable
<1>2. b \in Bookings /\ SlotConsistent(b) /\ b.amount = 0
  BY <1>1, SettledSlot
<1>3. bookings[id].driver \in Accounts /\ bookings[id].amount \in Nat
  BY <1>1, HeldHasPayees
<1>4. /\ bookings' = [bookings EXCEPT ![id] = b]
      /\ Credit(bookings[id].driver, bookings[id].amount)
      /\ releaseIdempotencyKeys' \in SUBSET Keys
      /\ balance' = balance /\ OnlyBookingsAndCredits
  BY <1>1 DEF ReleasePayment, TypeOK
<1>5. 0 \in Nat /\ b.amount + bookings[id].amount + 0 = bookings[id].amount
  BY <1>2, <1>3
<1> HIDE DEF b
<1> QED BY <1>2, <1>3, <1>4, <1>5, SettleStep

LEMMA CancelBookingSafe ==
    ASSUME SafetyInv, NEW id \in BookingIds, CancelBooking(id)
    PROVE  SafetyInv'
<1> DEFINE b == SettledAndReleased(id)
<1>1. TypeOK /\ PaidOnce /\ bookings[id].amount > 0
  BY DEF SafetyInv, CancelBooking
<1>2. b \in Bookings /\ SlotConsistent(b) /\ b.amount = 0
  BY <1>1, SettledSlot
<1>3. bookings[id].customer \in Accounts /\ bookings[id].amount \in Nat
  BY <1>1, HeldHasPayees
<1>4. /\ bookings' = [bookings EXCEPT ![id] = b]
      /\ Credit(bookings[id].customer, bookings[id].amount)
      /\ releaseIdempotencyKeys' \in SUBSET Keys
      /\ balance' = balance /\ OnlyBookingsAndCredits
  BY <1>1 DEF CancelBooking, TypeOK
<1>5. 0 \in Nat /\ b.amount + bookings[id].amount + 0 = bookings[id].amount
  BY <1>2, <1>3
<1> HIDE DEF b
<1> QED BY <1>2, <1>3, <1>4, <1>5, SettleStep

LEMMA CancelWithPenaltySafe ==
    ASSUME SafetyInv, NEW id \in BookingIds, NEW fee \in 0 .. Supply,
           CancelWithPenalty(id, fee)
    PROVE  SafetyInv'
<1> DEFINE b == SettledAndReleased(id)
           held == bookings[id].amount
<1>1. TypeOK /\ PaidOnce /\ held > 0 /\ fee <= held
  BY DEF SafetyInv, CancelWithPenalty
<1>2. b \in Bookings /\ SlotConsistent(b) /\ b.amount = 0
  BY <1>1, SettledSlot
<1>3. /\ bookings[id].customer \in Accounts /\ bookings[id].driver \in Accounts
      /\ held \in Nat
  BY <1>1, HeldHasPayees
<1>4. /\ bookings' = [bookings EXCEPT ![id] = b]
      /\ CreditSplit(bookings[id].driver, fee, bookings[id].customer, held - fee)
      /\ releaseIdempotencyKeys' \in SUBSET Keys
      /\ balance' = balance /\ OnlyBookingsAndCredits
  BY <1>1 DEF CancelWithPenalty, TypeOK
<1>5. fee \in Nat /\ held - fee \in Nat /\ b.amount + fee + (held - fee) = held
  BY <1>1, <1>2, <1>3, EscrowAssumption
<1> HIDE DEF b
<1> QED BY <1>2, <1>3, <1>4, <1>5, SettleStep

LEMMA ResolveDisputeSafe ==
    ASSUME SafetyInv, NEW id \in BookingIds, NEW share \in 0 .. Supply,
           ResolveDispute(id, share)
    PROVE  SafetyInv'
<1> DEFINE b == Settled(id, "Resolved")
           held == bookings[id].amount
<1>1. TypeOK /\ PaidOnce /\ held > 0 /\ share <= held
  BY DEF SafetyInv, ResolveDispute
<1>2. b \in Bookings /\ SlotConsistent(b) /\ b.amount = 0
  BY <1>1, SettledSlot
<1>3. /\ bookings[id].customer \in Accounts /\ bookings[id].driver \in Accounts
      /\ held \in Nat
  BY <1>1, HeldHasPayees
<1>4. /\ bookings' = [bookings EXCEPT ![id] = b]
      /\ CreditSplit(bookings[id].driver, share, bookings[id].customer, held - share)
      /\ releaseIdempotencyKeys' \in SUBSET Keys
      /\ balance' = balance /\ OnlyBookingsAndCredits
  BY <1>1 DEF ResolveDispute, TypeOK
<1>5. share \in Nat /\ held - share \in Nat
      /\ b.amount + share + (held - share) = held
  BY <1>1, <1>2, <1>3, EscrowAssumption
<1> HIDE DEF b
<1> QED BY <1>2, <1>3, <1>4, <1>5, SettleStep

LEMMA ResolveDisputeTimeoutSafe ==
    ASSUME SafetyInv, NEW id \in BookingIds, ResolveDisputeTimeout(id)
    PROVE  SafetyInv'
<1> DEFINE b == SettledAndReleased(id)
           held == bookings[id].amount
<1>1. TypeOK /\ PaidOnce /\ bookings[id].status = "Disputed"
  BY DEF SafetyInv, ResolveDisputeTimeout
<1>2. held > 0
  BY <1>1, UndecidedIsHeld
<1>3. b \in Bookings /\ SlotConsistent(b) /\ b.amount = 0
  BY <1>1, <1>2, SettledSlot
<1>4. /\ bookings[id].customer \in Accounts /\ bookings[id].driver \in Accounts
      /\ held \in Nat
  BY <1>1, <1>2, HeldHasPayees
<1>5. /\ bookings' = [bookings EXCEPT ![id] = b]
      /\ \/ CreditSplit(bookings[id].driver, held, bookings[id].customer, 0)
         \/ Credit(bookings[id].customer, held)
      /\ releaseIdempotencyKeys' \in SUBSET Keys
      /\ balance' = balance /\ OnlyBookingsAndCredits
  BY <1>1 DEF ResolveDisputeTimeout, TypeOK
<1>6. 0 \in Nat /\ b.amount + held + 0 = held
  BY <1>3, <1>4
<1> HIDE DEF b
<1>7. CASE CreditSplit(bookings[id].driver, held, bookings[id].customer, 0)
  BY <1>3, <1>4, <1>5, <1>6, <1>7, SettleStep
<1>8. CASE Credit(bookings[id].customer, held)
  BY <1>3, <1>4, <1>5, <1>6, <1>8, SettleStep
<1> QED BY <1>5, <1>7, <1>8

LEMMA ReceiveSafe ==
    ASSUME SafetyInv, NEW a \in Accounts, NEW value \in 1 .. Supply,
           Receive(a, value)
    PROVE  SafetyInv'
<1>1. /\ TypeOK /\ Solvency /\ value \in Nat
      /\ pendingWithdrawals' = Add(pendingWithdrawals, a, value)
      /\ balance' = balance + value /\ bookings' = bookings
      /\ bookings \in [BookingIds -> Bookings] /\ balance \in Nat
      /\ pendingWithdrawals \in [Accounts -> Nat]
  BY EscrowAssumption DEF SafetyInv, Receive, Attach, TypeOK
<1>2. /\ pendingWithdrawals' \in [Accounts -> Nat]
      /\ pendingWithdrawals'[a] = pendingWithdrawals[a] + value
      /\ \A x \in Accounts \ {a} : pendingWithdrawals'[x] = pendingWithdrawals[x]
  BY <1>1 DEF Add
<1>3. /\ balance' = balance + pendingWithdrawals'[a] - pendingWithdrawals[a]
      /\ balance \in Int /\ balance' \in Int /\ balance' \in Nat
  BY <1>1, <1>2
<1>4. Solvency'
  BY <1>1, <1>2, <1>3, DebtMoves DEF Solvency
<1>5. TypeOK'
  BY <1>1, <1>2, <1>3 DEF TypeOK, Receive
<1>6. PaidOnce' /\ SavedSafe'
  BY <1>1 DEF Receive, SafetyInv, PaidOnce, SavedSafe, Balanced, Locked,
              SlotConsistent
<1> QED BY <1>4, <1>5, <1>6 DEF SafetyInv

\* The state saved by a call that begins in a safe state is safe.
LEMMA CallOutSaves ==
    ASSUME SafetyInv, NEW a \in Accounts, NEW amount, CallOut(a, amount)
    PROVE  call' \in Calls \cup {NoCall} /\ SavedSafe'
<1>1. call' = [to |-> a, saved |-> Snapshot]
  BY DEF CallOut
<1>2. Snapshot \in Ledgers
  BY DEF SafetyInv, TypeOK, Snapshot, Ledgers
<1>3. call' \in Calls
  BY <1>1, <1>2 DEF Calls
<1>4. /\ call'.saved.bookings = bookings
      /\ call'.saved.pendingWithdrawals = pendingWithdrawals
      /\ call'.saved.balance = balance
  BY <1>1 DEF Snapshot
<1>5. SavedSafe'
  BY <1>4 DEF SavedSafe, SafetyInv, Solvency, PaidOnce
<1> QED BY <1>3, <1>5

LEMMA WithdrawSafe ==
    ASSUME SafetyInv, NEW a \in Accounts, Withdraw(a)
    PROVE  SafetyInv'
<1> DEFINE amount == pendingWithdrawals[a]
<1>1. TypeOK /\ Solvency /\ PaidOnce /\ amount \in Nat
  BY DEF SafetyInv, TypeOK
<1>2. /\ bookings' = bookings /\ balance' = balance - amount
      /\ pendingWithdrawals' =
           [pendingWithdrawals EXCEPT ![a] = pendingWithdrawals[a] - amount]
      /\ amount <= pendingWithdrawals[a]
  <2>1. pendingWithdrawals[a] - amount = 0 /\ amount <= pendingWithdrawals[a]
    BY <1>1
  <2> QED BY <2>1 DEF Withdraw, CallOut
<1>3. /\ Solvency' /\ balance' \in Nat
      /\ pendingWithdrawals' \in [Accounts -> Nat]
  <2> HIDE DEF amount
  <2> QED BY <1>1, <1>2, PayoutStep
<1>4. call' \in Calls \cup {NoCall} /\ SavedSafe'
  BY CallOutSaves DEF Withdraw
<1>5. TypeOK'
  BY <1>1, <1>3, <1>4 DEF Withdraw, CallOut, TypeOK
<1>6. PaidOnce'
  BY <1>1, <1>2 DEF PaidOnce
<1> QED BY <1>3, <1>4, <1>5, <1>6 DEF SafetyInv

LEMMA EmergencyRecoverSafe ==
    ASSUME SafetyInv, NEW a \in Accounts, NEW amount \in 0 .. Supply,
           EmergencyRecover(a, amount)
    PROVE  SafetyInv'
<1>1. TypeOK /\ Solvency /\ PaidOnce /\ amount \in Nat
  BY EscrowAssumption DEF SafetyInv
<1>2. /\ bookings' = bookings /\ balance' = balance - amount
      /\ pendingWithdrawals' =
           [pendingWithdrawals EXCEPT ![a] = pendingWithdrawals[a] - amount]
      /\ amount <= pendingWithdrawals[a]
  BY <1>1 DEF EmergencyRecover, Recoverable, CallOut, TypeOK
<1>3. /\ Solvency' /\ balance' \in Nat
      /\ pendingWithdrawals' \in [Accounts -> Nat]
  BY <1>1, <1>2, PayoutStep
<1>4. call' \in Calls \cup {NoCall} /\ SavedSafe'
  BY CallOutSaves DEF EmergencyRecover
<1>5. releaseTimestamps' \in [Accounts -> Nat] /\ creditedAt' \in [Accounts -> Nat]
  BY <1>1 DEF EmergencyRecover, TypeOK
<1>6. TypeOK'
  BY <1>1, <1>3, <1>4, <1>5 DEF EmergencyRecover, CallOut, TypeOK
<1>7. PaidOnce'
  BY <1>1, <1>2 DEF PaidOnce
<1> QED BY <1>3, <1>4, <1>6, <1>7 DEF SafetyInv

LEMMA CallRevertsSafe ==
    ASSUME SafetyInv, CallReverts
    PROVE  SafetyInv'
<1>1. call # NoCall /\ call \in Calls /\ call' = NoCall /\ now' = now /\ now \in Nat
  BY DEF CallReverts, SafetyInv, TypeOK
<1>2. call.saved \in Ledgers
  BY <1>1 DEF Calls
<1>3. TypeOK'
  BY <1>1, <1>2 DEF CallReverts, TypeOK, Ledgers
<1>4. Solvency' /\ PaidOnce'
  BY <1>1 DEF CallReverts, SafetyInv, SavedSafe, Solvency, PaidOnce
<1>5. SavedSafe'
  BY <1>1 DEF SavedSafe
<1> QED BY <1>3, <1>4, <1>5 DEF SafetyInv

\* The steps that leave the ledger's amounts alone.
LEMMA QuietSafe ==
    ASSUME SafetyInv, CallReturns \/ Pause \/ Unpause \/ Tick \/ UNCHANGED vars
    PROVE  SafetyInv'
<1>1. /\ UNCHANGED <<bookings, pendingWithdrawals, balance>>
      /\ call' \in {call, NoCall}
  BY DEF CallReturns, Pause, Unpause, Tick, vars, ledger
<1>2. TypeOK'
  <2>1. TypeOK
    BY DEF SafetyInv
  <2>2. /\ UNCHANGED <<bookingCount, releaseTimestamps, commitmentNonces,
                       releaseIdempotencyKeys, opened, creditedAt>>
        /\ paused' \in BOOLEAN /\ now' \in Nat
    <3>1. CASE CallReturns
      BY <2>1, <3>1 DEF CallReturns, ledger, TypeOK
    <3>2. CASE Pause \/ Unpause
      BY <2>1, <3>2 DEF Pause, Unpause, TypeOK
    <3>3. CASE Tick
      BY <2>1, <3>3 DEF Tick, ledger, TypeOK
    <3>4. CASE UNCHANGED vars
      BY <2>1, <3>4 DEF vars, ledger, TypeOK
    <3> QED BY <3>1, <3>2, <3>3, <3>4
  <2> QED BY <1>1, <2>1, <2>2 DEF TypeOK
<1>3. Solvency' /\ PaidOnce'
  BY <1>1 DEF SafetyInv, Solvency, PaidOnce
<1>4. SavedSafe'
  BY <1>1 DEF SafetyInv, SavedSafe, Balanced, Locked, SlotConsistent
<1> QED BY <1>2, <1>3, <1>4 DEF SafetyInv

-----------------------------------------------------------------------------
(* The invariant                                                           *)

\* A contract just deployed holds nothing and owes nothing.
LEMMA InitSafe == Init => SafetyInv
<1> SUFFICES ASSUME Init PROVE SafetyInv
  OBVIOUS
<1>1. EmptySlot \in Bookings /\ SlotConsistent(EmptySlot)
  <2>1. EmptySlot \in Bookings
    BY DEF EmptySlot, Bookings, Status
  <2>2. /\ EmptySlot.customer = NoAccount /\ EmptySlot.driver = NoAccount
        /\ EmptySlot.amount = 0 /\ EmptySlot.status = "Active"
        /\ EmptySlot.paid = FALSE
    BY DEF EmptySlot
  <2> QED BY <2>1, <2>2 DEF SlotConsistent
<1>2. TypeOK
  BY <1>1 DEF Init, TypeOK
<1>3. Solvency
  <2>1. Locked(bookings) = [id \in BookingIds |-> 0]
    BY DEF Init, Locked, EmptySlot
  <2>2. Total(Locked(bookings)) = 0
    BY <2>1, TotalZero
  <2>3. Total(pendingWithdrawals) = 0
    BY TotalZero DEF Init
  <2> QED BY <2>2, <2>3 DEF Init, Solvency, Balanced
<1>4. PaidOnce /\ SavedSafe
  BY <1>1 DEF Init, PaidOnce, SavedSafe
<1> QED BY <1>2, <1>3, <1>4 DEF SafetyInv

\* Every operation, call and tick keeps the invariant.
LEMMA NextSafe == SafetyInv /\ [Next]_vars => SafetyInv'
<1> SUFFICES ASSUME SafetyInv, [Next]_vars PROVE SafetyInv'
  OBVIOUS
<1>1. ASSUME NEW cm \in Signed, CreateBooking(cm) PROVE SafetyInv'
  BY <1>1, CreateBookingSafe
<1>2. ASSUME NEW id \in BookingIds, OwnerStep(id) PROVE SafetyInv'
  <2>1. CASE \E customer, driver \in Accounts, value \in 1 .. Supply :
                LockPayment(id, customer, driver, value)
    BY <2>1, LockPaymentSafe
  <2>2. CASE \E newAmount \in 1 .. Supply : UpdateDropLocation(id, newAmount)
    BY <2>2, UpdateDropLocationSafe
  <2>3. CASE MarkBookingStarted(id)
    BY <2>3, MarkBookingStartedSafe
  <2>4. CASE \E key \in Keys : ReleasePayment(id, key)
    BY <2>4, ReleasePaymentSafe
  <2>5. CASE CancelBooking(id)
    BY <2>5, CancelBookingSafe
  <2>6. CASE \E fee \in 0 .. Supply : CancelWithPenalty(id, fee)
    BY <2>6, CancelWithPenaltySafe
  <2>7. CASE RaiseDispute(id)
    BY <2>7, RaiseDisputeSafe
  <2>8. CASE \E share \in 0 .. Supply : ResolveDispute(id, share)
    BY <2>8, ResolveDisputeSafe
  <2>9. CASE ResolveDisputeTimeout(id)
    BY <2>9, ResolveDisputeTimeoutSafe
  <2> QED BY <1>2, <2>1, <2>2, <2>3, <2>4, <2>5, <2>6, <2>7, <2>8, <2>9
          DEF OwnerStep
<1>3. ASSUME NEW a \in Accounts, AccountStep(a) PROVE SafetyInv'
  <2>1. CASE \E value \in 1 .. Supply : Receive(a, value)
    BY <2>1, ReceiveSafe
  <2>2. CASE Withdraw(a)
    BY <2>2, WithdrawSafe
  <2>3. CASE \E amount \in 0 .. Supply : EmergencyRecover(a, amount)
    BY <2>3, EmergencyRecoverSafe
  <2> QED BY <1>3, <2>1, <2>2, <2>3 DEF AccountStep
<1>4. CASE CallReverts
  BY <1>4, CallRevertsSafe
<1>5. CASE CallReturns \/ Pause \/ Unpause \/ Tick \/ UNCHANGED vars
  BY <1>5, QuietSafe
<1> QED BY <1>1, <1>2, <1>3, <1>4, <1>5 DEF Next

\* The strengthened invariant holds in every reachable state.
THEOREM Safety == Spec => []SafetyInv
<1>1. Init => SafetyInv
  BY InitSafe
<1>2. SafetyInv /\ [Next]_vars => SafetyInv'
  BY NextSafe
<1> QED BY <1>1, <1>2, PTL DEF Spec

\* Every variable of the contract keeps the type of its declaration; in
\* particular no subtraction of the contract's coin underflows.
THEOREM TypeCorrect == Spec => []TypeOK
<1>1. SafetyInv => TypeOK
  BY DEF SafetyInv
<1> QED BY <1>1, Safety, PTL

\* The contract's coin is, at every moment, exactly what it owes: whatever the
\* number of bookings and payees, the order of the calls, re-entrant calls and
\* reverted payouts included.
THEOREM Solvent == Spec => []Solvency
<1>1. SafetyInv => Solvency
  BY DEF SafetyInv
<1> QED BY <1>1, Safety, PTL

\* What a payout that fails restores is solvent as well, whatever was called
\* from within it (withdraw, emergencyRecover).
THEOREM RollbackSafe == Spec => []SavedSafe
<1>1. SafetyInv => SavedSafe
  BY DEF SafetyInv
<1> QED BY <1>1, Safety, PTL

\* A slot holds coin exactly while its booking is undecided: no booking is
\* paid twice, and none is left unpayable.
THEOREM EachPaidOnce == Spec => []PaidOnce
<1>1. SafetyInv => PaidOnce
  BY DEF SafetyInv
<1> QED BY <1>1, Safety, PTL

-----------------------------------------------------------------------------
(* What can happen to a booking                                            *)

\* The effect on one slot of any step but a rollback.
SlotMoves(id) ==
    \/ bookings'[id] = bookings[id]
    \/ /\ call = NoCall
       /\ bookings[id].status = "Disputed"
       /\ \/ bookings'[id].status = "Resolved"
          \/ /\ bookings'[id].status = "Cancelled"
             /\ now > bookings[id].disputedAt + DisputeTimeout
    \/ /\ bookings[id].status \in {"Active", "Cancelled"}
       /\ bookings'[id].status \in {"Active", "Cancelled", "Disputed"}
    \/ /\ call = NoCall /\ bookings[id].status = "Active"
       /\ \E key \in Keys : ReleasePayment(id, key)

\* A change of one slot.
LEMMA OneSlotMoves ==
    ASSUME TypeOK, NEW id \in BookingIds, NEW b,
           bookings' = [bookings EXCEPT ![id] = b]
    PROVE  /\ bookings'[id] = b
           /\ \A i \in BookingIds \ {id} : bookings'[i] = bookings[i]
  BY DEF TypeOK

LEMMA OpenSlotMoves ==
    ASSUME SafetyInv, NEW id \in BookingIds, NEW customer, NEW driver, NEW value,
           OpenSlot(id, customer, driver, value)
    PROVE  \A i \in BookingIds : SlotMoves(i)
<1>1. bookings[id].status \in {"Active", "Cancelled"}
  BY DEF SafetyInv, PaidOnce, SlotConsistent, OpenSlot, SlotFree
<1>2. /\ bookings'[id].status = "Active"
      /\ \A i \in BookingIds \ {id} : bookings'[i] = bookings[i]
  <2> DEFINE b == [customer |-> customer, driver |-> driver, amount |-> value,
                   status |-> "Active", paid |-> FALSE, started |-> FALSE,
                   disputedAt |-> 0]
  <2>1. bookings' = [bookings EXCEPT ![id] = b] /\ b.status = "Active"
    BY DEF OpenSlot
  <2> HIDE DEF b
  <2> QED
    BY <2>1, OneSlotMoves DEF SafetyInv
<1> QED
  BY <1>1, <1>2 DEF SlotMoves

LEMMA OwnerMoves ==
    ASSUME SafetyInv, NEW id \in BookingIds, OwnerStep(id)
    PROVE  \A i \in BookingIds : SlotMoves(i)
<1> USE DEF SafetyInv
<1>1. bookings[id] \in Bookings
  BY DEF TypeOK
<1>2. CASE \E customer, driver \in Accounts, value \in 1 .. Supply :
              LockPayment(id, customer, driver, value)
  BY <1>2, OpenSlotMoves DEF LockPayment
<1>3. CASE \E newAmount \in 1 .. Supply : UpdateDropLocation(id, newAmount)
  <2>1. PICK n \in 1 .. Supply :
            bookings' = [bookings EXCEPT ![id] = [bookings[id] EXCEPT !.amount = n]]
            /\ bookings[id].status = "Active"
    BY <1>3 DEF UpdateDropLocation, Open
  <2>2. [bookings[id] EXCEPT !.amount = n].status = "Active"
    BY <1>1, <2>1 DEF Bookings
  <2> QED
    BY <2>1, <2>2, OneSlotMoves DEF SlotMoves
<1>4. CASE MarkBookingStarted(id)
  <2>1. bookings' = [bookings EXCEPT ![id] = [bookings[id] EXCEPT !.started = TRUE]]
        /\ bookings[id].status = "Active"
    BY <1>4 DEF MarkBookingStarted, Open
  <2>2. [bookings[id] EXCEPT !.started = TRUE].status = "Active"
    BY <1>1, <2>1 DEF Bookings
  <2> QED
    BY <2>1, <2>2, OneSlotMoves DEF SlotMoves
<1>5. CASE \E key \in Keys : ReleasePayment(id, key)
  <2>1. /\ call = NoCall /\ bookings[id].status = "Active"
        /\ bookings' = [bookings EXCEPT ![id] = Settled(id, "Delivered")]
    BY <1>5 DEF ReleasePayment, OwnerTransacts, Releasable
  <2> QED
    BY <1>5, <2>1, OneSlotMoves DEF SlotMoves
<1>6. CASE CancelBooking(id) \/ \E fee \in 0 .. Supply : CancelWithPenalty(id, fee)
  <2>1. bookings' = [bookings EXCEPT ![id] = SettledAndReleased(id)]
        /\ bookings[id].status = "Active"
    BY <1>6 DEF CancelBooking, CancelWithPenalty, Open
  <2>2. SettledAndReleased(id).status = "Cancelled"
    BY <1>1 DEF SettledAndReleased, Settled, Bookings
  <2> QED
    BY <2>1, <2>2, OneSlotMoves DEF SlotMoves
<1>7. CASE RaiseDispute(id)
  <2>1. bookings' = [bookings EXCEPT ![id] =
              [bookings[id] EXCEPT !.status = "Disputed", !.disputedAt = now]]
        /\ bookings[id].status = "Active"
    BY <1>7 DEF RaiseDispute, TypeOK, Bookings
  <2>2. [bookings[id] EXCEPT !.status = "Disputed", !.disputedAt = now].status
            = "Disputed"
    BY <1>1 DEF Bookings
  <2> QED
    BY <2>1, <2>2, OneSlotMoves DEF SlotMoves
<1>8. CASE \E share \in 0 .. Supply : ResolveDispute(id, share)
  <2>1. /\ call = NoCall /\ bookings[id].status = "Disputed"
        /\ bookings' = [bookings EXCEPT ![id] = Settled(id, "Resolved")]
    BY <1>8 DEF ResolveDispute, OwnerTransacts
  <2>2. Settled(id, "Resolved").status = "Resolved"
    BY <1>1 DEF Settled, Bookings
  <2> QED
    BY <2>1, <2>2, OneSlotMoves DEF SlotMoves
<1>9. CASE ResolveDisputeTimeout(id)
  <2>1. /\ call = NoCall /\ bookings[id].status = "Disputed"
        /\ now > bookings[id].disputedAt + DisputeTimeout
        /\ bookings' = [bookings EXCEPT ![id] = SettledAndReleased(id)]
    BY <1>9 DEF ResolveDisputeTimeout, OwnerTransacts
  <2>2. SettledAndReleased(id).status = "Cancelled"
    BY <1>1 DEF SettledAndReleased, Settled, Bookings
  <2> QED
    BY <2>1, <2>2, OneSlotMoves DEF SlotMoves
<1> QED
  BY <1>2, <1>3, <1>4, <1>5, <1>6, <1>7, <1>8, <1>9 DEF OwnerStep

\* The other steps leave the bookings, the commitments and the keys alone.
LEMMA QuietSteps ==
    ASSUME \/ \E a \in Accounts : AccountStep(a)
           \/ CallReturns \/ Pause \/ Unpause \/ Tick \/ UNCHANGED vars
    PROVE  UNCHANGED <<bookings, commitmentNonces, releaseIdempotencyKeys, opened>>
  BY DEF AccountStep, Receive, Withdraw, EmergencyRecover, CallOut,
         CallReturns, Pause, Unpause, Tick, vars, ledger

LEMMA SlotStepKinds ==
    ASSUME SafetyInv, [Next]_vars, ~CallReverts
    PROVE  \A id \in BookingIds : SlotMoves(id)
<1>1. ASSUME NEW cm \in Signed, CreateBooking(cm)
      PROVE  \A id \in BookingIds : SlotMoves(id)
  BY <1>1, OpenSlotMoves, EscrowAssumption DEF CreateBooking, Commitments
<1>2. CASE UNCHANGED bookings
  BY <1>2 DEF SlotMoves
<1> QED
  BY <1>1, <1>2, OwnerMoves, QuietSteps DEF Next

-----------------------------------------------------------------------------
(* Rollbacks                                                               *)

\* A rollback restores what was saved.
LEMMA RevertUndoes ==
    ASSUME SafetyInv, CallReverts
    PROVE  Undone
<1>1. call # NoCall /\ call.saved \in Ledgers
  BY DEF CallReverts, SafetyInv, TypeOK, Calls
<1>2. Snapshot' = call.saved
  BY <1>1 DEF CallReverts, Snapshot, Ledgers
<1> QED
  BY <1>1, <1>2 DEF Undone

\* How `call` changes: it ends, or opens with the ledger as it is, or stays.
LEMMA CallMoves ==
    ASSUME [Next]_vars
    PROVE  \/ call' = call
           \/ call' = NoCall
           \/ call = NoCall /\ call'.saved = Snapshot /\ now' = now
<1>1. ASSUME NEW a \in Accounts, NEW amount, call = NoCall, CallOut(a, amount)
      PROVE  call = NoCall /\ call'.saved = Snapshot /\ now' = now
  BY <1>1 DEF CallOut
<1>2. ASSUME NEW id \in BookingIds, OwnerStep(id) PROVE call' = call
  BY <1>2 DEF OwnerStep, LockPayment, UpdateDropLocation, MarkBookingStarted,
              ReleasePayment, CancelBooking, CancelWithPenalty, RaiseDispute,
              ResolveDispute, ResolveDisputeTimeout, OnlyBookingsAndCredits
<1>3. ASSUME NEW cm \in Signed, CreateBooking(cm) PROVE call' = call
  BY <1>3 DEF CreateBooking
<1>4. ASSUME NEW a \in Accounts, AccountStep(a)
      PROVE  \/ call' = call
             \/ call = NoCall /\ call'.saved = Snapshot /\ now' = now
  BY <1>1, <1>4 DEF AccountStep, Receive, Withdraw, EmergencyRecover
<1> QED
  BY <1>2, <1>3, <1>4 DEF Next, CallReturns, CallReverts, Pause, Unpause, Tick,
                          vars, ledger

\* The opening of a call changes no booking, commitment or key.
LEMMA CallOpens ==
    ASSUME [Next]_vars, call' # call, call' # NoCall
    PROVE  UNCHANGED <<bookings, commitmentNonces, releaseIdempotencyKeys, opened>>
<1>1. ASSUME NEW id \in BookingIds, OwnerStep(id) PROVE call' = call
  BY <1>1 DEF OwnerStep, LockPayment, UpdateDropLocation, MarkBookingStarted,
              ReleasePayment, CancelBooking, CancelWithPenalty, RaiseDispute,
              ResolveDispute, ResolveDisputeTimeout, OnlyBookingsAndCredits
<1>2. ASSUME NEW cm \in Signed, CreateBooking(cm) PROVE call' = call
  BY <1>2 DEF CreateBooking
<1> QED
  BY <1>1, <1>2, QuietSteps DEF Next, CallReverts

-----------------------------------------------------------------------------
(* Disputes, and the pause                                                 *)

\* "Freezes payment until resolved": a disputed booking changes only by the
\* owner's split or after the timeout, whatever is called from within a payout
\* (raiseDispute, resolveDispute, resolveDisputeTimeout).
THEOREM DisputesFreeze == Spec => DisputeFreezes
<1>1. SafetyInv /\ [Next]_vars =>
        [\A id \in BookingIds :
            bookings[id].status = "Disputed" /\ ~Undone =>
              \/ bookings'[id] = bookings[id]
              \/ bookings'[id].status = "Resolved"
              \/ /\ bookings'[id].status = "Cancelled"
                 /\ now > bookings[id].disputedAt + DisputeTimeout]_vars
  BY SlotStepKinds, RevertUndoes DEF SlotMoves
<1> QED
  BY <1>1, Safety, PTL DEF Spec, DisputeFreezes

\* While the contract is paused no booking moves and nobody is credited; what
\* still happens is a recovery by the owner, or a rollback.
THEOREM PauseHolds == Spec => PauseFreezes
<1>1. ASSUME SafetyInv, Next, paused, ~Undone
      PROVE  /\ bookings' = bookings
             /\ \A a \in Accounts :
                   pendingWithdrawals'[a] <= pendingWithdrawals[a]
  <2>1. \A a \in Accounts : pendingWithdrawals[a] \in Nat
    BY <1>1 DEF SafetyInv, TypeOK
  <2>2. CASE CallReturns \/ Unpause \/ Tick
    BY <2>1, <2>2 DEF CallReturns, Unpause, Tick, ledger
  <2>3. ASSUME NEW id \in BookingIds, OwnerStep(id) PROVE FALSE
    BY <1>1, <2>3 DEF OwnerStep, LockPayment, UpdateDropLocation,
              MarkBookingStarted, ReleasePayment, CancelBooking,
              CancelWithPenalty, RaiseDispute, ResolveDispute,
              ResolveDisputeTimeout, OwnerCalls, OwnerTransacts
  <2>4. ASSUME NEW a \in Accounts, AccountStep(a)
        PROVE  \E amount \in 0 .. Supply : EmergencyRecover(a, amount)
    BY <1>1, <2>4 DEF AccountStep, Receive, Withdraw
  <2>5. ASSUME NEW a \in Accounts, NEW amount \in 0 .. Supply,
               EmergencyRecover(a, amount)
        PROVE  /\ bookings' = bookings
               /\ \A x \in Accounts :
                     pendingWithdrawals'[x] <= pendingWithdrawals[x]
    <3>1. /\ pendingWithdrawals' =
                [pendingWithdrawals EXCEPT ![a] = pendingWithdrawals[a] - amount]
          /\ pendingWithdrawals[a] >= amount /\ amount \in Nat
          /\ bookings' = bookings
      BY <2>5, EscrowAssumption DEF EmergencyRecover, Recoverable, CallOut
    <3> QED
      BY <2>1, <3>1 DEF SafetyInv, TypeOK
  <2>6. ~CallReverts /\ ~Pause /\ \A cm \in Signed : ~CreateBooking(cm)
    BY <1>1, RevertUndoes DEF Pause, CreateBooking
  <2> QED
    BY <1>1, <2>2, <2>3, <2>4, <2>5, <2>6 DEF Next
<1>2. SafetyInv /\ [Next]_vars =>
        [paused /\ ~Undone =>
            /\ bookings' = bookings
            /\ \A a \in Accounts :
                  pendingWithdrawals'[a] <= pendingWithdrawals[a]]_vars
  BY <1>1
<1> QED
  BY <1>2, Safety, PTL DEF Spec, PauseFreezes

-----------------------------------------------------------------------------
(* Decided bookings                                                        *)

Decided(id) == bookings[id].status \in {"Delivered", "Resolved"}

\* A rollback would not bring back a booking that was decided before it.
SavedFinal ==
    call # NoCall =>
        \A id \in BookingIds : Decided(id) => call.saved.bookings[id] = bookings[id]

LEMMA FinalStep ==
    ASSUME SafetyInv, SavedFinal, [Next]_vars
    PROVE  /\ SavedFinal'
           /\ \A id \in BookingIds : Decided(id) => bookings'[id] = bookings[id]
<1>1. CASE CallReverts
  BY <1>1 DEF CallReverts, SavedFinal
<1>2. CASE ~CallReverts
  <2>1. \A id \in BookingIds : Decided(id) => bookings'[id] = bookings[id]
    BY <1>2, SlotStepKinds DEF SlotMoves, Decided
  <2>2. CASE call' = call /\ call # NoCall
    <3>1. \A id \in BookingIds : Decided(id)' => Decided(id)
      BY <1>2, <2>2, SlotStepKinds DEF SlotMoves, Decided
    <3> QED
      BY <2>1, <2>2, <3>1 DEF SavedFinal
  <2>3. CASE call' # call /\ call' # NoCall
    <3>1. call'.saved = Snapshot /\ bookings' = bookings
      BY <2>3, CallMoves, CallOpens
    <3> QED
      BY <2>1, <3>1 DEF SavedFinal, Snapshot, Decided
  <2> QED
    BY <2>1, <2>2, <2>3 DEF SavedFinal
<1> QED
  BY <1>1, <1>2

\* A delivered or resolved booking never changes again: its slot is never
\* reused, and no rollback brings it back (_releaseBookingSlot).
THEOREM DecidedStays == Spec => DeliveredIsFinal
<1>1. Init => SavedFinal
  BY DEF Init, SavedFinal
<1>2. SafetyInv /\ SavedFinal /\ [Next]_vars => SavedFinal'
  BY FinalStep
<1>3. SafetyInv /\ SavedFinal /\ [Next]_vars =>
        [\A id \in BookingIds :
            bookings[id].status \in {"Delivered", "Resolved"}
                => bookings'[id] = bookings[id]]_vars
  BY FinalStep DEF Decided
<1> QED
  BY <1>1, <1>2, <1>3, Safety, PTL DEF Spec, DeliveredIsFinal

-----------------------------------------------------------------------------
(* Commitments                                                             *)

\* The nonce of a commitment that opened a booking is burned.
Burned(nonces, op) ==
    /\ \A p \in op : p[1].nonce < nonces[p[1].customer][p[1].id]
    /\ \A p, q \in op : p[1] = q[1] => p = q

NonceInv ==
    /\ Burned(commitmentNonces, opened)
    /\ call # NoCall => Burned(call.saved.commitmentNonces, call.saved.opened)

\* A commitment is used: it has not been used before, and never will be again.
LEMMA CreateBurns ==
    ASSUME SafetyInv, Burned(commitmentNonces, opened), NEW cm \in Signed,
           CreateBooking(cm)
    PROVE  Burned(commitmentNonces', opened')
<1> DEFINE new == <<cm, bookingCount'>>
<1>1. /\ cm.customer \in Accounts /\ cm.id \in BookingIds /\ cm.nonce \in Nat
  BY EscrowAssumption DEF Commitments
<1>2. /\ opened' = opened \cup {new}
      /\ cm.nonce = commitmentNonces[cm.customer][cm.id]
      /\ commitmentNonces' = [commitmentNonces EXCEPT
                                 ![cm.customer][cm.id] = cm.nonce + 1]
  BY DEF CreateBooking, BurnNonce
<1>3. commitmentNonces \in [Accounts -> [BookingIds -> Nat]]
  BY DEF SafetyInv, TypeOK
<1>4. /\ commitmentNonces'[cm.customer][cm.id] = cm.nonce + 1
      /\ \A a \in Accounts, id \in BookingIds :
            commitmentNonces'[a][id] >= commitmentNonces[a][id]
  BY <1>1, <1>2, <1>3
<1>5. \A p \in opened : /\ p[1].customer \in Accounts /\ p[1].id \in BookingIds
                        /\ p[1].nonce \in Nat
  BY EscrowAssumption DEF SafetyInv, TypeOK, Commitments
<1>6. \A p \in opened : p[1] # cm
  BY <1>1, <1>2 DEF Burned
<1>7. new[1] = cm
  OBVIOUS
<1> HIDE DEF new
<1>8. ASSUME NEW p \in opened
      PROVE  p[1].nonce < commitmentNonces'[p[1].customer][p[1].id]
  <2>1. p[1].nonce < commitmentNonces[p[1].customer][p[1].id]
    BY DEF Burned
  <2>2. /\ commitmentNonces[p[1].customer][p[1].id] \in Nat
        /\ commitmentNonces'[p[1].customer][p[1].id] \in Nat
        /\ commitmentNonces'[p[1].customer][p[1].id]
              >= commitmentNonces[p[1].customer][p[1].id]
    BY <1>1, <1>2, <1>3, <1>4, <1>5
  <2> QED
    BY <1>5, <2>1, <2>2
<1>9. \A p \in opened' : p[1].nonce < commitmentNonces'[p[1].customer][p[1].id]
  BY <1>1, <1>2, <1>4, <1>7, <1>8
<1>10. \A p, q \in opened' : p[1] = q[1] => p = q
  BY <1>2, <1>6, <1>7 DEF Burned
<1> QED
  BY <1>9, <1>10 DEF Burned

LEMMA NonceStep ==
    ASSUME SafetyInv, NonceInv, [Next]_vars
    PROVE  NonceInv'
<1>1. Burned(commitmentNonces', opened')
  <2>1. CASE CallReverts
    BY <2>1 DEF CallReverts, NonceInv
  <2>2. ASSUME NEW cm \in Signed, CreateBooking(cm)
        PROVE  Burned(commitmentNonces', opened')
    BY <2>2, CreateBurns DEF NonceInv
  <2>3. ASSUME NEW id \in BookingIds, OwnerStep(id)
        PROVE  UNCHANGED <<commitmentNonces, opened>>
    BY <2>3 DEF OwnerStep, LockPayment, UpdateDropLocation, MarkBookingStarted,
              ReleasePayment, CancelBooking, CancelWithPenalty, RaiseDispute,
              ResolveDispute, ResolveDisputeTimeout, OnlyBookingsAndCredits
  <2>4. CASE UNCHANGED <<commitmentNonces, opened>>
    BY <2>4 DEF NonceInv
  <2> QED
    BY <2>1, <2>2, <2>3, <2>4, QuietSteps DEF Next
<1>2. CASE call' = call \/ call' = NoCall
  BY <1>1, <1>2 DEF NonceInv
<1>3. CASE call' # call /\ call' # NoCall
  <2>1. /\ call'.saved = Snapshot
        /\ UNCHANGED <<commitmentNonces, opened>>
    BY <1>3, CallMoves, CallOpens
  <2> QED
    BY <1>1, <2>1 DEF NonceInv, Snapshot
<1> QED
  BY <1>2, <1>3

\* A signed commitment opens one booking at most, however often it is
\* presented, also after a cancellation or a rollback
\* (_verifyCreateCommitment, createBooking).
THEOREM CommitmentOnce == Spec => []CommitmentOpensOnce
<1>1. Init => NonceInv
  BY DEF Init, NonceInv, Burned
<1>2. SafetyInv /\ NonceInv /\ [Next]_vars => NonceInv'
  BY NonceStep
<1>3. NonceInv => CommitmentOpensOnce
  BY DEF NonceInv, Burned, CommitmentOpensOnce
<1> QED
  BY <1>1, <1>2, <1>3, Safety, PTL DEF Spec

-----------------------------------------------------------------------------
(* Release keys                                                            *)

DeliveredIds(bk) == {id \in BookingIds : bk[id].status = "Delivered"}

KeyInv ==
    /\ Cardinality(DeliveredIds(bookings)) = Cardinality(releaseIdempotencyKeys)
    /\ call # NoCall =>
          /\ releaseIdempotencyKeys = call.saved.releaseIdempotencyKeys
          /\ DeliveredIds(bookings) = DeliveredIds(call.saved.bookings)

\* A release uses up one key and delivers one booking.
LEMMA ReleaseUsesKey ==
    ASSUME SafetyInv, KeyInv, NEW id \in BookingIds, NEW key \in Keys,
           ReleasePayment(id, key)
    PROVE  KeyInv'
<1>1. /\ bookings' = [bookings EXCEPT ![id] = Settled(id, "Delivered")]
      /\ bookings[id].status = "Active" /\ key \notin releaseIdempotencyKeys
      /\ releaseIdempotencyKeys' = releaseIdempotencyKeys \cup {key}
      /\ call' = NoCall
  BY DEF ReleasePayment, Releasable, OwnerTransacts, OnlyBookingsAndCredits
<1>2. bookings[id] \in Bookings
  BY DEF SafetyInv, TypeOK
<1>3. Settled(id, "Delivered").status = "Delivered"
  BY <1>2 DEF Settled, Bookings
<1>4. DeliveredIds(bookings') = DeliveredIds(bookings) \cup {id}
  <2>1. /\ bookings'[id].status = "Delivered"
        /\ \A i \in BookingIds \ {id} : bookings'[i] = bookings[i]
    BY <1>1, <1>3, OneSlotMoves DEF SafetyInv
  <2> QED
    BY <2>1 DEF DeliveredIds
<1>5. id \notin DeliveredIds(bookings)
  BY <1>1 DEF DeliveredIds
<1>6. IsFiniteSet(DeliveredIds(bookings)) /\ IsFiniteSet(releaseIdempotencyKeys)
  BY FS_Subset, EscrowAssumption DEF DeliveredIds, SafetyInv, TypeOK
<1>7. Cardinality(DeliveredIds(bookings')) = Cardinality(releaseIdempotencyKeys')
  <2>1. Cardinality(DeliveredIds(bookings) \cup {id})
            = Cardinality(DeliveredIds(bookings)) + 1
    BY <1>5, <1>6, FS_AddElement
  <2>2. Cardinality(releaseIdempotencyKeys \cup {key})
            = Cardinality(releaseIdempotencyKeys) + 1
    BY <1>1, <1>6, FS_AddElement
  <2> QED
    BY <1>1, <1>4, <2>1, <2>2 DEF KeyInv
<1> QED
  BY <1>1, <1>7 DEF KeyInv

\* No other step but a rollback uses a key or delivers a booking.
LEMMA OthersUseNoKey ==
    ASSUME SafetyInv, [Next]_vars, ~CallReverts,
           \A id \in BookingIds, key \in Keys : ~ReleasePayment(id, key)
    PROVE  /\ releaseIdempotencyKeys' = releaseIdempotencyKeys
           /\ DeliveredIds(bookings') = DeliveredIds(bookings)
<1>1. DeliveredIds(bookings') = DeliveredIds(bookings)
  BY SlotStepKinds DEF SlotMoves, DeliveredIds
<1>2. ASSUME NEW id \in BookingIds, OwnerStep(id)
      PROVE  releaseIdempotencyKeys' = releaseIdempotencyKeys
  BY <1>2 DEF OwnerStep, LockPayment, UpdateDropLocation, MarkBookingStarted,
              CancelBooking, CancelWithPenalty, RaiseDispute,
              ResolveDispute, ResolveDisputeTimeout
<1>3. ASSUME NEW cm \in Signed, CreateBooking(cm)
      PROVE  releaseIdempotencyKeys' = releaseIdempotencyKeys
  BY <1>3 DEF CreateBooking
<1> QED
  BY <1>1, <1>2, <1>3, QuietSteps DEF Next

LEMMA KeyStep ==
    ASSUME SafetyInv, KeyInv, [Next]_vars
    PROVE  KeyInv'
<1>1. CASE CallReverts
  BY <1>1 DEF CallReverts, KeyInv
<1>2. CASE \E id \in BookingIds, key \in Keys : ReleasePayment(id, key)
  BY <1>2, ReleaseUsesKey
<1>3. CASE ~CallReverts /\
           \A id \in BookingIds, key \in Keys : ~ReleasePayment(id, key)
  <2>1. /\ releaseIdempotencyKeys' = releaseIdempotencyKeys
        /\ DeliveredIds(bookings') = DeliveredIds(bookings)
    BY <1>3, OthersUseNoKey
  <2>2. CASE call' = call \/ call' = NoCall
    BY <2>1, <2>2 DEF KeyInv
  <2>3. CASE call' # call /\ call' # NoCall
    <3>1. call'.saved = Snapshot
      BY <2>3, CallMoves
    <3> QED
      BY <2>1, <3>1 DEF KeyInv, Snapshot
  <2> QED
    BY <2>2, <2>3
<1> QED
  BY <1>1, <1>2, <1>3

\* Each delivered booking used up a key of its own and no key is used up
\* without a delivery, also when payouts are rolled back (releasePayment).
THEOREM KeysMatch == Spec => []OneKeyPerDelivery
<1>1. Init => KeyInv
  <2> SUFFICES ASSUME Init PROVE KeyInv
    OBVIOUS
  <2>1. DeliveredIds(bookings) = {}
    BY DEF Init, EmptySlot, DeliveredIds
  <2> QED
    BY <2>1 DEF Init, KeyInv
<1>2. SafetyInv /\ KeyInv /\ [Next]_vars => KeyInv'
  BY KeyStep
<1>3. KeyInv => OneKeyPerDelivery
  BY DEF KeyInv, DeliveredIds, OneKeyPerDelivery
<1> QED
  BY <1>1, <1>2, <1>3, Safety, PTL DEF Spec

-----------------------------------------------------------------------------
(* Deadlines                                                               *)

\* A deadline is at least WITHDRAWAL_TIMEOUT after the last credit, and that
\* credit is not in the future.
Covered(deadline, credited, t) ==
    \A a \in Accounts :
        /\ credited[a] <= t
        /\ credited[a] # 0 => deadline[a] >= credited[a] + WithdrawalTimeout

DeadlineInv ==
    /\ Covered(releaseTimestamps, creditedAt, now)
    /\ call # NoCall =>
          Covered(call.saved.releaseTimestamps, call.saved.creditedAt, now)

\* A credit moves the deadline behind it, and a deadline only ever moves back.
LEMMA CreditCovers ==
    ASSUME TypeOK, Covered(releaseTimestamps, creditedAt, now), now' = now,
           \/ \E d \in Accounts : \E x : Credit(d, x)
           \/ \E d, x, c, y : CreditSplit(d, x, c, y)
    PROVE  Covered(releaseTimestamps', creditedAt', now')
<1>1. /\ now \in Nat /\ WithdrawalTimeout \in Nat
      /\ \A a \in Accounts : releaseTimestamps[a] \in Nat /\ creditedAt[a] \in Nat
  BY EscrowAssumption DEF TypeOK
<1>2. Deadline = now + WithdrawalTimeout /\ Deadline \in Nat
  BY <1>1 DEF Deadline
<1>3. \A a \in Accounts :
          \/ /\ releaseTimestamps'[a] = releaseTimestamps[a]
             /\ creditedAt'[a] = creditedAt[a]
          \/ /\ releaseTimestamps'[a] \in Nat /\ releaseTimestamps'[a] >= Deadline
             /\ creditedAt'[a] \in {now, creditedAt[a]}
  <2>1. CASE \E d \in Accounts : \E x : Credit(d, x)
    BY <1>1, <1>2, <2>1 DEF Credit, TypeOK
  <2>2. CASE \E d, x, c, y : CreditSplit(d, x, c, y)
    BY <1>1, <1>2, <2>2 DEF CreditSplit
  <2> QED
    BY <2>1, <2>2
<1>4. ASSUME NEW a \in Accounts
      PROVE  /\ creditedAt'[a] <= now
             /\ creditedAt'[a] # 0 =>
                   releaseTimestamps'[a] >= creditedAt'[a] + WithdrawalTimeout
  <2>1. /\ creditedAt[a] <= now
        /\ creditedAt[a] # 0 =>
              releaseTimestamps[a] >= creditedAt[a] + WithdrawalTimeout
    BY DEF Covered
  <2>2. CASE /\ releaseTimestamps'[a] = releaseTimestamps[a]
             /\ creditedAt'[a] = creditedAt[a]
    BY <2>1, <2>2
  <2>3. CASE /\ releaseTimestamps'[a] \in Nat /\ releaseTimestamps'[a] >= Deadline
             /\ creditedAt'[a] \in {now, creditedAt[a]}
    BY <1>1, <1>2, <2>1, <2>3
  <2> QED
    BY <1>3, <2>2, <2>3
<1> QED
  BY <1>4 DEF Covered

\* A payout clears the deadline together with the credit, or neither.
LEMMA PayoutCovers ==
    ASSUME TypeOK, Covered(releaseTimestamps, creditedAt, now), NEW a \in Accounts,
           Withdraw(a) \/ \E amount \in 0 .. Supply : EmergencyRecover(a, amount)
    PROVE  Covered(releaseTimestamps', creditedAt', now')
<1>1. now' = now /\ now \in Nat
  BY DEF Withdraw, EmergencyRecover, CallOut, TypeOK
<1>2. \A x \in Accounts :
          \/ /\ releaseTimestamps'[x] = releaseTimestamps[x]
             /\ creditedAt'[x] = creditedAt[x]
          \/ creditedAt'[x] = 0
  <2>1. CASE Withdraw(a)
    BY <2>1 DEF Withdraw, TypeOK
  <2>2. CASE \E amount \in 0 .. Supply : EmergencyRecover(a, amount)
    BY <2>2 DEF EmergencyRecover, TypeOK
  <2> QED
    BY <2>1, <2>2
<1> QED
  BY <1>1, <1>2 DEF Covered

LEMMA DeadlineStep ==
    ASSUME SafetyInv, DeadlineInv, [Next]_vars
    PROVE  DeadlineInv'
<1> USE DEF SafetyInv
<1>1. now' = now \/ (call = NoCall /\ Tick)
  <2>1. ASSUME NEW id \in BookingIds, OwnerStep(id) PROVE now' = now
    BY <2>1 DEF OwnerStep, LockPayment, UpdateDropLocation, MarkBookingStarted,
              ReleasePayment, CancelBooking, CancelWithPenalty, RaiseDispute,
              ResolveDispute, ResolveDisputeTimeout, OnlyBookingsAndCredits
  <2>2. ASSUME NEW a \in Accounts, AccountStep(a) PROVE now' = now
    BY <2>2 DEF AccountStep, Receive, Withdraw, EmergencyRecover, CallOut
  <2> QED
    BY <2>1, <2>2 DEF Next, CreateBooking, CallReturns, CallReverts, Pause,
                      Unpause, Tick, vars
<1>2. Covered(releaseTimestamps', creditedAt', now')
  <2>1. CASE CallReverts
    BY <2>1 DEF CallReverts, DeadlineInv
  <2>2. CASE UNCHANGED <<releaseTimestamps, creditedAt, now>>
    BY <2>2 DEF DeadlineInv
  <2>3. ASSUME NEW id \in BookingIds, OwnerStep(id), now' = now
        PROVE  \/ UNCHANGED <<releaseTimestamps, creditedAt, now>>
               \/ \E d \in Accounts : \E x : Credit(d, x)
               \/ \E d, x, c, y : CreditSplit(d, x, c, y)
    <3>1. CASE \/ \E customer, driver \in Accounts, value \in 1 .. Supply :
                     LockPayment(id, customer, driver, value)
               \/ MarkBookingStarted(id) \/ RaiseDispute(id)
      BY <2>3, <3>1 DEF LockPayment, MarkBookingStarted, RaiseDispute
    <3>2. CASE \/ \E fee \in 0 .. Supply : CancelWithPenalty(id, fee)
               \/ \E share \in 0 .. Supply : ResolveDispute(id, share)
      BY <3>2 DEF CancelWithPenalty, ResolveDispute
    <3>3. CASE \/ \E newAmount \in 1 .. Supply : UpdateDropLocation(id, newAmount)
               \/ \E key \in Keys : ReleasePayment(id, key)
               \/ CancelBooking(id) \/ ResolveDisputeTimeout(id)
      <4>1. bookings[id].amount > 0
        BY <3>3, UndecidedIsHeld
           DEF UpdateDropLocation, ReleasePayment, Releasable, CancelBooking,
               ResolveDisputeTimeout, Open
      <4>2. bookings[id].customer \in Accounts /\ bookings[id].driver \in Accounts
        BY <4>1, HeldHasPayees
      <4> QED
        BY <2>3, <3>3, <4>2
           DEF UpdateDropLocation, ReleasePayment, CancelBooking,
               ResolveDisputeTimeout
    <3> QED
      BY <2>3, <3>1, <3>2, <3>3 DEF OwnerStep
  <2>4. ASSUME NEW id \in BookingIds, OwnerStep(id)
        PROVE  Covered(releaseTimestamps', creditedAt', now')
    <3>1. now' = now
      BY <2>4 DEF OwnerStep, LockPayment, UpdateDropLocation, MarkBookingStarted,
              ReleasePayment, CancelBooking, CancelWithPenalty, RaiseDispute,
              ResolveDispute, ResolveDisputeTimeout, OnlyBookingsAndCredits
    <3> QED
      BY <2>2, <2>3, <2>4, <3>1, CreditCovers DEF DeadlineInv
  <2>5. ASSUME NEW a \in Accounts, AccountStep(a)
        PROVE  Covered(releaseTimestamps', creditedAt', now')
    <3>1. CASE \E value \in 1 .. Supply : Receive(a, value)
      BY <2>2, <3>1 DEF Receive
    <3> QED
      BY <2>5, <3>1, PayoutCovers DEF AccountStep, DeadlineInv
  <2>6. CASE Tick
    <3>1. now' = now + 1 /\ now \in Nat /\ UNCHANGED ledger
      BY <2>6 DEF Tick, TypeOK
    <3>2. \A a \in Accounts : creditedAt[a] \in Nat
      BY DEF TypeOK
    <3> QED
      BY <3>1, <3>2 DEF ledger, DeadlineInv, Covered
  <2>7. CASE \/ \E cm \in Signed : CreateBooking(cm)
             \/ CallReturns \/ Pause \/ Unpause \/ UNCHANGED vars
    BY <2>2, <2>7 DEF CreateBooking, CallReturns, Pause, Unpause, vars, ledger
  <2> QED
    BY <2>1, <2>4, <2>5, <2>6, <2>7 DEF Next
<1>3. CASE call' = NoCall
  BY <1>2, <1>3 DEF DeadlineInv
<1>4. CASE call' = call /\ call # NoCall
  BY <1>1, <1>2, <1>4 DEF DeadlineInv
<1>5. CASE call' # call /\ call' # NoCall
  <2>1. call'.saved = Snapshot /\ now' = now
    BY <1>5, CallMoves
  <2> QED
    BY <1>2, <2>1 DEF DeadlineInv, Snapshot
<1> QED
  BY <1>3, <1>4, <1>5

\* The owner pushes a payee's amount out only when WITHDRAWAL_TIMEOUT has
\* passed since the last settlement that credited the payee, whatever was
\* credited before it and in whatever order (emergencyRecover).
THEOREM RecoveryWaits == Spec => RecoveryWaitsForLastCredit
<1>1. Init => DeadlineInv
  BY DEF Init, DeadlineInv, Covered
<1>2. SafetyInv /\ DeadlineInv /\ [Next]_vars => DeadlineInv'
  BY DeadlineStep
<1>3. ASSUME SafetyInv, DeadlineInv, NEW a \in Accounts, NEW amount,
             EmergencyRecover(a, amount), creditedAt[a] # 0
      PROVE  now > creditedAt[a] + WithdrawalTimeout
  <2>1. now > releaseTimestamps[a]
    BY <1>3 DEF EmergencyRecover, Recoverable
  <2>2. releaseTimestamps[a] >= creditedAt[a] + WithdrawalTimeout
    BY <1>3 DEF DeadlineInv, Covered
  <2>3. /\ now \in Nat /\ releaseTimestamps[a] \in Nat /\ creditedAt[a] \in Nat
        /\ WithdrawalTimeout \in Nat
    BY <1>3, EscrowAssumption DEF SafetyInv, TypeOK
  <2> QED
    BY <2>1, <2>2, <2>3
<1>4. SafetyInv /\ DeadlineInv /\ [Next]_vars =>
        [\A a \in Accounts :
            /\ call = NoCall /\ call' # NoCall
            /\ \E amount \in 0 .. Supply : EmergencyRecover(a, amount)
            /\ creditedAt[a] # 0
            => now > creditedAt[a] + WithdrawalTimeout]_vars
  BY <1>3
<1> QED
  BY <1>1, <1>2, <1>4, Safety, PTL DEF Spec, RecoveryWaitsForLastCredit
=============================================================================
