---------------------------- MODULE Withdrawals ----------------------------
(***************************************************************************)
(* A driver's withdrawal: the wallet, its row in wallet_transactions, the  *)
(* settlement workers of several API processes                             *)
(* (backend/api/src/workers/withdrawalSettlementWorker.js), the payout     *)
(* provider behind services/wallet/payoutProvider.js, and the admin's      *)
(* decisions.  A statement of the database is one step and so is every     *)
(* await of a worker; between any two of them others may act, or the       *)
(* process may die.                                                        *)
(*                                                                         *)
(* A reference is one bit: the row has one, or not.  The order of a batch  *)
(* and its limit of 50, notifications, error texts and the length of the   *)
(* backoff are left out.                                                   *)
(***************************************************************************)
EXTENDS Totals

CONSTANTS
    Drivers,
    Ids,            \* withdrawals
    NoRow,          \* none of them
    DriverOf,       \* the driver who asks for a withdrawal
    Amounts,        \* amounts asked for, in paisa
    Deposits,       \* what each driver's wallet holds at first
    DailyCap,       \* v_daily_cap
    Workers,        \* API processes, each runs one cycle at a time
    Webhook,        \* those with WITHDRAWAL_PAYOUT_WEBHOOK_URL set
    StatusUrl,      \* whether WITHDRAWAL_PAYOUT_STATUS_URL is set
    OncePerReference, \* whether the provider pays a reference once only
    Storable,       \* the values the status column's CHECK lets through
    MaxRetries,     \* the column max_retries; the code reads 0 as the default
    SettleLimit,    \* SETTLE_RETRY_ATTEMPTS
    MaxFaults,      \* bound: crashes and failed calls of the database
    MaxAdminRetries \* bound: an admin's retries of one withdrawal

ASSUME WithdrawalAssumption ==
    /\ IsFiniteSet(Ids) /\ NoRow \notin Ids
    /\ DriverOf \in [Ids -> Drivers]
    /\ Amounts \subseteq Nat \ {0} /\ Deposits \in [Drivers -> Nat]
    /\ DailyCap \in Nat /\ Webhook \subseteq Workers
    /\ StatusUrl \in BOOLEAN /\ OncePerReference \in BOOLEAN
    /\ {"pending", "failed"} \subseteq Storable
    /\ MaxRetries \in Nat \ {0} /\ SettleLimit \in Nat \ {0}
    /\ MaxFaults \in Nat /\ MaxAdminRetries \in Nat

VARIABLES
    confirmed,      \* driver_details.wallet_confirmed
    reserved,       \* driver_details.wallet_pending
    status,         \* the row's status, or "none" before there is a row
    amount,
    today,          \* created_at is in the current day (UTC)
    claimed,        \* payout_attempted_at is set
    ref,            \* settlement_ref is set
    settled,        \* settled_at is set
    due,            \* next_retry_at is past
    retries,        \* retry_count
    attempts,       \* settle_attempts
    paid,           \* payouts the provider has made for a withdrawal
    late,           \* requests on the wire that nobody waits for any more
    at,             \* where a worker's cycle is
    batch,          \* rows of the cycle's SELECT it has not come to
    hand,           \* the row it works on, while it does
    seen,           \* what the SELECT said of each row
    adminRetries,   \* history: an admin's retries of a withdrawal
    faults          \* history: crashes and failed calls

wallet == <<confirmed, reserved>>
row == <<status, amount, today, claimed, ref, settled, due, retries, attempts>>
provider == <<paid, late>>
worker == <<at, batch, hand, seen>>
history == <<adminRetries, faults>>
vars == <<wallet, row, provider, worker, history>>

Statuses == {"none", "pending", "completed", "failed", "settlement_failed"}
Places == {"idle", "loop", "claimed", "sent", "taken", "unsure", "refused",
           "recover", "record", "settle", "unsettled"}

\* The columns of the SELECT that the cycle goes by.
Snapshots == [claimed : BOOLEAN, ref : BOOLEAN, retries : Nat, attempts : Nat]
Nothing == [claimed |-> FALSE, ref |-> FALSE, retries |-> 0, attempts |-> 0]

Init ==
    /\ confirmed = Deposits
    /\ reserved = [d \in Drivers |-> 0]
    /\ status = [i \in Ids |-> "none"]
    /\ amount = [i \in Ids |-> 0]
    /\ today = [i \in Ids |-> FALSE]
    /\ claimed = [i \in Ids |-> FALSE]
    /\ ref = [i \in Ids |-> FALSE]
    /\ settled = [i \in Ids |-> FALSE]
    /\ due = [i \in Ids |-> FALSE]
    /\ retries = [i \in Ids |-> 0]
    /\ attempts = [i \in Ids |-> 0]
    /\ paid = [i \in Ids |-> 0]
    /\ late = [i \in Ids |-> 0]
    /\ at = [k \in Workers |-> "idle"]
    /\ batch = [k \in Workers |-> {}]
    /\ hand = [k \in Workers |-> NoRow]
    /\ seen = [k \in Workers |-> [i \in Ids |-> Nothing]]
    /\ adminRetries = [i \in Ids |-> 0]
    /\ faults = 0

TypeOK ==
    /\ confirmed \in [Drivers -> Nat] /\ reserved \in [Drivers -> Nat]
    /\ status \in [Ids -> Statuses] /\ amount \in [Ids -> Nat]
    /\ today \in [Ids -> BOOLEAN] /\ claimed \in [Ids -> BOOLEAN]
    /\ ref \in [Ids -> BOOLEAN] /\ settled \in [Ids -> BOOLEAN]
    /\ due \in [Ids -> BOOLEAN]
    /\ retries \in [Ids -> Nat] /\ attempts \in [Ids -> Nat]
    /\ paid \in [Ids -> Nat] /\ late \in [Ids -> Nat]
    /\ at \in [Workers -> Places] /\ batch \in [Workers -> SUBSET Ids]
    /\ hand \in [Workers -> Ids \cup {NoRow}]
    /\ seen \in [Workers -> [Ids -> Snapshots]]
    /\ adminRetries \in [Ids -> Nat] /\ faults \in Nat
    /\ \A k \in Workers : hand[k] = NoRow <=> at[k] \in {"idle", "loop"}

\* The driver's amounts of the withdrawals in a set.
Sum(d, S) ==
    Total([i \in Ids |-> IF i \in S /\ DriverOf[i] = d THEN amount[i] ELSE 0])

Least(a, b) == IF a <= b THEN a ELSE b
Floored(a, b) == IF a >= b THEN a - b ELSE 0

-----------------------------------------------------------------------------
(* The driver                                                              *)

\* What withdraw_funds_tx counts towards the cap.
CountedToday == {i \in Ids : today[i] /\ status[i] \notin {"none", "failed"}}

\* Mutant: nobody looks at the balance.
FundedByAnything(d, a) == TRUE

\* The wallet has what is asked for.
Funded(d, a) == confirmed[d] >= a

\* POST /wallet/withdraw.  The route looks at the balance first, and the RPC
\* again under its lock on the wallet.
Withdraw(i, a) ==
    LET d == DriverOf[i] IN
    /\ status[i] = "none"
    /\ Sum(d, CountedToday) + a <= DailyCap
    /\ Funded(d, a)
    /\ confirmed' = [confirmed EXCEPT ![d] = confirmed[d] - a]
    /\ reserved' = [reserved EXCEPT ![d] = reserved[d] + a]
    /\ status' = [status EXCEPT ![i] = "pending"]
    /\ amount' = [amount EXCEPT ![i] = a]
    /\ today' = [today EXCEPT ![i] = TRUE]
    /\ due' = [due EXCEPT ![i] = TRUE]
    /\ UNCHANGED <<claimed, ref, settled, retries, attempts>>
    /\ UNCHANGED <<provider, worker, history>>

\* Midnight, UTC.
NewDay ==
    /\ \E i \in Ids : today[i]
    /\ today' = [i \in Ids |-> FALSE]
    /\ UNCHANGED <<wallet, status, amount, claimed, ref, settled, due, retries,
                   attempts, provider, worker, history>>

\* next_retry_at passes.
ComesDue(i) ==
    /\ status[i] # "none" /\ ~due[i]
    /\ due' = [due EXCEPT ![i] = TRUE]
    /\ UNCHANGED <<wallet, status, amount, today, claimed, ref, settled, retries,
                   attempts, provider, worker, history>>

-----------------------------------------------------------------------------
(* The transactions that close a withdrawal                                *)

Pending(i) == status[i] = "pending"

\* The wallet's side of settling i: the reserve is gone.
Spend(i) ==
    LET d == DriverOf[i] IN
    /\ reserved' = [reserved EXCEPT ![d] = Floored(reserved[d], amount[i])]
    /\ UNCHANGED confirmed

\* The wallet's side of failing i: the reserve is the driver's again.
Restore(i) ==
    LET d == DriverOf[i] IN
    /\ reserved' = [reserved EXCEPT ![d] = Floored(reserved[d], amount[i])]
    /\ confirmed' = [confirmed EXCEPT ![d] = confirmed[d] + amount[i]]

-----------------------------------------------------------------------------
(* A worker's cycle                                                        *)

\* A call of the database fails.
CallFails ==
    /\ faults < MaxFaults
    /\ faults' = faults + 1

\* Mutant: rows that a worker has claimed are left to that worker.
SelectedUnclaimed(i) == Pending(i) /\ ~settled[i] /\ due[i] /\ ~claimed[i]

\* What the SELECT returns and is not skipped because its retry is not yet due.
Selected(i) == Pending(i) /\ ~settled[i] /\ due[i]

\* runSettlementCycle up to its loop.  settlementCycleRunning: a process that is
\* in a cycle starts no other.
Begin(k) ==
    /\ at[k] = "idle"
    /\ LET rows == {i \in Ids : Selected(i)} IN
       /\ rows # {}
       /\ batch' = [batch EXCEPT ![k] = rows]
       /\ seen' = [seen EXCEPT ![k] = [i \in Ids |->
             IF i \in rows
             THEN [claimed |-> claimed[i], ref |-> ref[i],
                   retries |-> retries[i], attempts |-> attempts[i]]
             ELSE Nothing]]
    /\ at' = [at EXCEPT ![k] = "loop"]
    /\ UNCHANGED <<wallet, row, provider, hand, history>>

\* What a worker knows of the row in its hand, which may be old.
Seen(k) == seen[k][hand[k]]

\* On with the row in hand.
Goes(k, place) ==
    /\ at' = [at EXCEPT ![k] = place]
    /\ UNCHANGED <<batch, hand, seen>>

\* Done with row i: the next of the batch, or the end of the cycle.
Leaves(k, i) ==
    /\ batch' = [batch EXCEPT ![k] = batch[k] \ {i}]
    /\ hand' = [hand EXCEPT ![k] = NoRow]
    /\ seen' = [seen EXCEPT ![k][i] = Nothing]
    /\ at' = [at EXCEPT ![k] = IF batch[k] \subseteq {i} THEN "idle" ELSE "loop"]

\* Mutant: the claim does not look at payout_attempted_at.
MayClaimTwice(i) == Pending(i) /\ ~settled[i]

\* The WHERE of claimWithdrawal.
MayClaim(i) == Pending(i) /\ ~settled[i] /\ ~claimed[i]

\* A row that the SELECT saw unclaimed: the claim is won, lost to another, or
\* made without the worker's getting to know.
Claim(k, i) ==
    /\ at[k] = "loop" /\ i \in batch[k] /\ ~seen[k][i].claimed
    /\ \/ /\ MayClaim(i)
          /\ claimed' = [claimed EXCEPT ![i] = TRUE]
          /\ at' = [at EXCEPT ![k] = "claimed"]
          /\ hand' = [hand EXCEPT ![k] = i]
          /\ UNCHANGED <<batch, seen, faults>>
       \/ /\ ~MayClaim(i)
          /\ Leaves(k, i)
          /\ UNCHANGED <<claimed, faults>>
       \/ /\ CallFails
          /\ Leaves(k, i)
          /\ \/ UNCHANGED claimed
             \/ MayClaim(i) /\ claimed' = [claimed EXCEPT ![i] = TRUE]
    /\ UNCHANGED <<wallet, status, amount, today, ref, settled, due, retries,
                   attempts, provider, adminRetries>>

\* A row that the SELECT saw claimed: its payout is settled if its reference is
\* known, and otherwise the provider is asked for the reference.
Resume(k, i) ==
    /\ at[k] = "loop" /\ i \in batch[k] /\ seen[k][i].claimed
    /\ at' = [at EXCEPT ![k] = IF seen[k][i].ref THEN "settle" ELSE "recover"]
    /\ hand' = [hand EXCEPT ![k] = i]
    /\ UNCHANGED <<batch, seen, wallet, row, provider, history>>

\* dispatchPayout up to its fetch; without an URL it throws before.
Dispatch(k) ==
    /\ at[k] = "claimed"
    /\ Goes(k, IF k \in Webhook THEN "sent" ELSE "refused")
    /\ UNCHANGED <<wallet, row, provider, history>>

\* The provider makes a payout for i.
Pays(i) ==
    paid' = [paid EXCEPT ![i] = IF OncePerReference THEN 1 ELSE paid[i] + 1]

\* The provider takes a request, while its worker waits.
Accept(k) ==
    /\ at[k] = "sent"
    /\ Pays(hand[k])
    /\ Goes(k, "taken")
    /\ UNCHANGED <<wallet, row, late, history>>

\* The provider declines a request, with a rejection of the bank in place of the
\* reference: isAmbiguousDispatchError finds it in the text of the error.
Decline(k) ==
    /\ at[k] = "sent"
    /\ Goes(k, "refused")
    /\ UNCHANGED <<wallet, row, provider, history>>

\* The provider takes a request that its worker has given up.
AcceptLate(i) ==
    /\ late[i] > 0
    /\ late' = [late EXCEPT ![i] = late[i] - 1]
    /\ Pays(i)
    /\ UNCHANGED <<wallet, row, worker, history>>

\* dispatchPayout returns the reference.
Answer(k) ==
    /\ at[k] = "taken"
    /\ Goes(k, "record")
    /\ UNCHANGED <<wallet, row, provider, history>>

\* The request of worker k is dropped, or is still on its way.
Abandoned(k) ==
    /\ UNCHANGED paid
    /\ \/ UNCHANGED late
       \/ /\ at[k] = "sent"
          /\ late' = [late EXCEPT ![hand[k]] = late[hand[k]] + 1]

\* dispatchPayout throws after its fetch: a timeout, a status other than 2xx, a
\* body without a reference.  isAmbiguousDispatchError says TRUE of these.
Unsure(k) ==
    /\ at[k] \in {"sent", "taken"}
    /\ Abandoned(k)
    /\ Goes(k, "unsure")
    /\ UNCHANGED <<wallet, row, history>>

\* The catch of dispatchPayout for an ambiguous error: schedule_withdrawal_retry,
\* or move_withdrawal_to_dlq when the worker thinks the retries are used up.
\* The answer of either RPC is not looked at.
PutOff(k) ==
    LET i == hand[k] IN
    /\ at[k] = "unsure"
    /\ \/ /\ Pending(i) /\ Seen(k).retries < MaxRetries
          /\ retries' = [retries EXCEPT ![i] = retries[i] + 1]
          /\ due' = [due EXCEPT ![i] = FALSE]
          /\ claimed' = [claimed EXCEPT ![i] = FALSE]
          /\ UNCHANGED <<status, faults>>
       \/ /\ Pending(i) /\ Seen(k).retries >= MaxRetries
          /\ "settlement_failed" \in Storable
          /\ status' = [status EXCEPT ![i] = "settlement_failed"]
          /\ UNCHANGED <<claimed, due, retries, faults>>
       \/ /\ \/ ~Pending(i) /\ UNCHANGED faults
             \/ /\ Seen(k).retries >= MaxRetries
                /\ "settlement_failed" \notin Storable
                /\ UNCHANGED faults
             \/ CallFails
          /\ UNCHANGED <<status, claimed, due, retries>>
    /\ Leaves(k, i)
    /\ UNCHANGED <<wallet, amount, today, ref, settled, attempts, provider,
                   adminRetries>>

\* Mutant: fail_withdrawal_tx does not ask whether the row is still pending.
MayFailTwice(i) == status[i] # "none" /\ ~ref[i]

\* The WHERE of fail_withdrawal_tx.
MayFail(i) == Pending(i) /\ ~ref[i]

\* The catch of dispatchPayout for an error that proves nothing was sent.
Refuse(k) ==
    LET i == hand[k] IN
    /\ at[k] = "refused"
    /\ \/ /\ MayFail(i)
          /\ status' = [status EXCEPT ![i] = "failed"]
          /\ Restore(i)
          /\ UNCHANGED faults
       \/ ~MayFail(i) /\ UNCHANGED <<status, wallet, faults>>
       \/ CallFails /\ UNCHANGED <<status, wallet>>
    /\ Leaves(k, i)
    /\ UNCHANGED <<amount, today, claimed, ref, settled, due, retries, attempts,
                   provider, adminRetries>>

\* Mutant: a payout that cannot be found is taken as made.
FoundAnyway(i) == TRUE

\* What the provider's status page can tell of a reference.
Found(i) == StatusUrl /\ paid[i] > 0

\* recoverSettlementRef, and flagForReconciliation for a row stuck for an hour:
\* without an answer the row is left as it is.
Recover(k) ==
    /\ at[k] = "recover"
    /\ \/ /\ Found(hand[k])
          /\ Goes(k, "record")
       \/ Leaves(k, hand[k])
    /\ UNCHANGED <<wallet, row, provider, history>>

\* recordDispatchOutcome, up to six attempts; the cycle goes on without it too.
Record(k) ==
    LET i == hand[k] IN
    /\ at[k] = "record"
    /\ \/ ref' = [ref EXCEPT ![i] = TRUE] /\ UNCHANGED faults
       \/ CallFails /\ UNCHANGED ref
    /\ Goes(k, "settle")
    /\ UNCHANGED <<wallet, status, amount, today, claimed, settled, due, retries,
                   attempts, provider, adminRetries>>

\* settleWithRetry.  settle_withdrawal_tx answers FALSE for a row that is not
\* pending, which is no error.
Settle(k) ==
    LET i == hand[k] IN
    /\ at[k] = "settle"
    /\ \/ /\ Pending(i) /\ "completed" \in Storable
          /\ status' = [status EXCEPT ![i] = "completed"]
          /\ settled' = [settled EXCEPT ![i] = TRUE]
          /\ ref' = [ref EXCEPT ![i] = TRUE]
          /\ Spend(i)
          /\ Leaves(k, i)
          /\ UNCHANGED faults
       \/ /\ ~Pending(i)
          /\ Leaves(k, i)
          /\ UNCHANGED <<status, settled, ref, wallet, faults>>
       \/ /\ \/ Pending(i) /\ "completed" \notin Storable /\ UNCHANGED faults
             \/ CallFails
          /\ Goes(k, "unsettled")
          /\ UNCHANGED <<status, settled, ref, wallet>>
    /\ UNCHANGED <<amount, today, claimed, due, retries, attempts, provider,
                   adminRetries>>

\* record_settle_failure: the row is given up after SettleLimit cycles.  An
\* update that the column's CHECK rejects counts nothing.
RecordFailure(k) ==
    LET i == hand[k]
        terminal == Seen(k).attempts + 1 >= SettleLimit
        stored == Pending(i) /\ (terminal => "settlement_failed" \in Storable)
    IN
    /\ at[k] = "unsettled"
    /\ \/ /\ stored
          /\ attempts' = [attempts EXCEPT ![i] = attempts[i] + 1]
          /\ status' = [status EXCEPT ![i] =
                            IF terminal THEN "settlement_failed" ELSE "pending"]
          /\ UNCHANGED faults
       \/ ~stored /\ UNCHANGED <<attempts, status, faults>>
       \/ CallFails /\ UNCHANGED <<attempts, status>>
    /\ Leaves(k, i)
    /\ UNCHANGED <<wallet, amount, today, claimed, ref, settled, due, retries,
                   provider, adminRetries>>

\* The process dies, and another takes its place.
Crash(k) ==
    /\ at[k] # "idle"
    /\ CallFails
    /\ Abandoned(k)
    /\ at' = [at EXCEPT ![k] = "idle"]
    /\ batch' = [batch EXCEPT ![k] = {}]
    /\ hand' = [hand EXCEPT ![k] = NoRow]
    /\ seen' = [seen EXCEPT ![k] = [i \in Ids |-> Nothing]]
    /\ UNCHANGED <<wallet, row, adminRetries>>

-----------------------------------------------------------------------------
(* The admin: admin_resolve_dlq_withdrawal                                 *)

\* Mutant: as it was before migration 20260930120000.
OpenUnlessCompleted(i) == status[i] \notin {"none", "completed"}

\* Both actions refuse a withdrawal that was completed or refunded.
Open(i) == status[i] \notin {"none", "completed", "failed"}

\* POST /admin/withdrawals/:id/retry.
AdminRetry(i) ==
    /\ adminRetries[i] < MaxAdminRetries
    /\ Open(i)
    /\ status' = [status EXCEPT ![i] = "pending"]
    /\ retries' = [retries EXCEPT ![i] = 0]
    /\ attempts' = [attempts EXCEPT ![i] = 0]
    /\ claimed' = [claimed EXCEPT ![i] = FALSE]
    /\ ref' = [ref EXCEPT ![i] = FALSE]
    /\ due' = [due EXCEPT ![i] = TRUE]
    /\ adminRetries' = [adminRetries EXCEPT ![i] = adminRetries[i] + 1]
    /\ UNCHANGED <<wallet, amount, today, settled, provider, worker, faults>>

\* POST /admin/withdrawals/:id/refund: what is still reserved, and no more.
AdminRefund(i) ==
    LET d == DriverOf[i]
        refundable == Least(amount[i], reserved[d])
    IN
    /\ Open(i)
    /\ status' = [status EXCEPT ![i] = "failed"]
    /\ settled' = [settled EXCEPT ![i] = TRUE]
    /\ reserved' = [reserved EXCEPT ![d] = reserved[d] - refundable]
    /\ confirmed' = [confirmed EXCEPT ![d] = confirmed[d] + refundable]
    /\ UNCHANGED <<amount, today, claimed, ref, due, retries, attempts, provider,
                   worker, history>>

-----------------------------------------------------------------------------
Work(k) ==
    \/ Begin(k) \/ Dispatch(k) \/ Answer(k) \/ Unsure(k) \/ PutOff(k)
    \/ Refuse(k) \/ Recover(k) \/ Record(k) \/ Settle(k) \/ RecordFailure(k)
    \/ \E i \in Ids : Claim(k, i) \/ Resume(k, i)

Next ==
    \/ \E i \in Ids : \/ \E a \in Amounts : Withdraw(i, a)
                     \/ ComesDue(i) \/ AcceptLate(i)
                     \/ AdminRetry(i) \/ AdminRefund(i)
    \/ NewDay
    \/ \E k \in Workers : Work(k) \/ Accept(k) \/ Decline(k) \/ Crash(k)

Spec == Init /\ [][Next]_vars

\* Timers fire, awaits return (fetch has a timeout, the database client answers
\* or fails), a process that dies is started again, and time passes.
FairSpec ==
    /\ Spec
    /\ \A k \in Workers : WF_vars(Work(k))
    /\ \A i \in Ids : WF_vars(ComesDue(i))

-----------------------------------------------------------------------------
(* Properties                                                              *)

\* Withdrawals whose outcome is not known yet: their amounts are reserved.
Unresolved == {i \in Ids : status[i] \in {"pending", "settlement_failed"}}

\* What a driver has in wallet_pending is the sum of his unresolved
\* withdrawals, whatever workers and admins do at the same time: no reserve is
\* spent or restored twice, and none is forgotten.  So the GREATEST(..., 0) of
\* the RPCs never bites.
ReservedIsOwed == \A d \in Drivers : reserved[d] = Sum(d, Unresolved)

Completed == {i \in Ids : status[i] = "completed"}

\* The wallet loses the amounts of completed withdrawals and nothing else, and
\* gains nothing: settling, failing, dead-lettering and the admin's decisions
\* together neither mint nor burn.
NothingMinted ==
    \A d \in Drivers :
        confirmed[d] + reserved[d] + Sum(d, Completed) = Deposits[d]

\* A withdrawal that is shown to the driver as completed has been paid by the
\* provider, even if the worker that paid it died and another settled it.
CompletedWasPaid == \A i \in Completed : paid[i] > 0

\* The workers between winning the claim of a withdrawal and giving it back.
Dispatchers(i) ==
    {k \in Workers : hand[k] = i
                      /\ at[k] \in {"claimed", "sent", "taken", "unsure", "refused"}}

\* At most one worker is dispatching a withdrawal, however old the SELECT is
\* that it started from; each retry by an admin may add one, as it takes the
\* claim from a worker that still holds it.
OneDispatcher == \A i \in Ids : Cardinality(Dispatchers(i)) <= 1 + adminRetries[i]

\* Payouts made, and requests for one that are still on their way.
Requests(i) ==
    paid[i] + late[i] + Cardinality({k \in Workers : hand[k] = i /\ at[k] = "sent"})

\* Every request to the provider after the first is a retry that the row has
\* counted, so crashes, stale SELECTs and recoveries send nothing by themselves:
\* with R counted retries a withdrawal is paid at most R + 1 times, even by a
\* provider that does not recognise the reference.
RequestsAreCounted ==
    \A i \in Ids : adminRetries[i] = 0 => Requests(i) <= 1 + retries[i]

\* Completed and refunded withdrawals stay as they are: a worker that comes late
\* with a payout, a failure or a retry does not reopen them, nor does an admin.
ClosedIsFinal ==
    [][\A i \in Ids : status[i] \in {"completed", "failed"} => status'[i] = status[i]]_vars

\* A driver's withdrawals of a day that may reach his bank stay within the cap,
\* although failures make room in it and admins take up old withdrawals again.
WithinDailyCap == \A d \in Drivers : Sum(d, CountedToday) <= DailyCap

\* A payout whose reference was recorded does not stay pending for ever: it is
\* settled or goes to the admin (migration 20260813000000, lines 11-17).
RecordedPayoutCloses ==
    \A i \in Ids : ref[i] /\ Pending(i) ~> ~Pending(i)

\* An admin's retry does not put a withdrawal whose payout was already made back
\* before the workers, who would dispatch it again
\* (20260930120000_admin_dlq_withdrawal_state_guards.sql, lines 84-85).
DeadLetterRetriedUnpaid ==
    [][\A i \in Ids : status[i] = "settlement_failed" /\ status'[i] = "pending"
                        => paid[i] = 0]_vars

\* What a status says in the driver's book: what is unresolved is open, whether
\* the workers or the admin have it.
StageOf(s) ==
    CASE s = "none" -> "none"
      [] s = "completed" -> "paid"
      [] s = "failed" -> "returned"
      [] OTHER -> "open"

Book == INSTANCE WalletBook
            WITH stage <- [i \in Ids |-> StageOf(status[i])],
                 wired <- [i \in Ids |-> paid[i] > 0]

\* Whatever workers, crashes and admins do, the wallet moves with the withdrawals
\* as in its book: each amount is set aside once, out of what the driver has, and
\* is then gone, which takes a payout, or given back, and that is the end of it.
KeepsBook == Book!BSafety
=============================================================================
