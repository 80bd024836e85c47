--------------------------- MODULE OrderSettlement ---------------------------
(***************************************************************************)
(* How the backend settles the escrow of one order: the driver's           *)
(* milestones, the delivery verified with the customer's OTP, the          *)
(* customer's cancellation, the two reconciliation sweeps and the escrow   *)
(* webhook all write one row of `orders`, one booking on the chain and one *)
(* wallet, and none of them does so in a single transaction.               *)
(*                                                                         *)
(* A job is a request or a sweep in progress.  Each of its steps is what   *)
(* the code does between two awaits: one statement of the database, or one *)
(* call to the chain; what it read before stays in `row`.  A job may stop  *)
(* at any step (a crash, a call that fails, a wait that times out), which  *)
(* leaves the rows, the transactions it sent and its lock as they are.     *)
(*                                                                         *)
(* Abstracted: statuses the guards treat alike are one status; a           *)
(* transaction hash is the transaction's place in `txs`, 0 being null; the *)
(* retries inside one database call, the geofence, the OTP's digits and    *)
(* lifetime, notifications, tracking tokens and back-off.  The order is    *)
(* backed by a funded escrow and has a driver who has arrived at pickup.   *)
(***************************************************************************)
EXTENDS Naturals, Sequences

CONSTANTS
    Jobs,            \* slots for requests and sweeps in progress
    Listener,        \* TRUE: the chain's events are posted to the webhook
    MakesKeys,       \* TRUE: escrowRelease can make an idempotency key; with the
                     \* ethers 6 of package.json it throws (escrow.js:916)
    MaxRetries,      \* attempts a sweep makes on one order
    MaxTxs,          \* bound: transactions sent for the booking
    MaxFaults        \* bound: jobs stopped, calls failed, answers lost, and
                     \* locks that run out under their holder

ASSUME SettlementAssumption ==
    /\ Listener \in BOOLEAN /\ MakesKeys \in BOOLEAN
    /\ {MaxRetries, MaxTxs, MaxFaults} \subseteq Nat
    /\ Jobs \cap {"free", "orphan", "none"} = {}

VARIABLES
    order,      \* the row of `orders`
    timeline,   \* the completed milestones of order_timeline, by position
    otp,        \* the order's delivery OTP
    credits,    \* credit rows of wallet_transactions for the order
    booking,    \* the booking in the contract
    agreed,     \* the booking holds the amount the order expects
    txs,        \* the relayer's transactions for the booking, by nonce
    lock,       \* escrow_lock:<order id>
    job,
    confirmed,  \* history: the customer's OTP was presented and matched
    overlap,    \* history: a milestone's write was doubled
    lapsed,     \* history: the order's lock ran out under its holder
    stale,      \* history: a sweep took up an order that was being refunded, or
                \* had been, since the sweep listed it
    faults

row_vars == <<order, timeline, otp, credits>>
chain_vars == <<booking, agreed, txs>>
env_vars == <<confirmed, overlap, lapsed, stale, faults>>
vars == <<row_vars, chain_vars, lock, job, env_vars>>

Milestones == <<"picked_up", "arriving">>
Delivered == 3
Statuses == {"arrived_pickup", "picked_up", "arriving", "cancelled",
             "payment_released"}
Unpaid == {"funded", "release_failed"}
Refunding == {"refund_pending", "refund_failed"}
Refunds == Refunding \cup {"refunded"}

Idle == [op |-> "idle"]
Begin(j, op, at, h) ==
    /\ job[j] = Idle
    /\ job' = [job EXCEPT ![j] = [op |-> op, at |-> at, row |-> order, hash |-> h]]
At(j, op, at) == job[j].op = op /\ job[j].at = at
Goto(j, at) == job' = [job EXCEPT ![j].at = at]
Carry(j, at, h) == job' = [job EXCEPT ![j].at = at, ![j].hash = h]

\* Mutant: the lock does not exclude.
LockUnchecked(j) == lock' = j

\* Locks are taken and given back by the job that holds the token.
Lock(j) == lock = "free" /\ lock' = j
End(j) == /\ job' = [job EXCEPT ![j] = Idle]
          /\ lock' = IF lock = j THEN "free" ELSE lock
Fault == faults < MaxFaults /\ faults' = faults + 1
         /\ UNCHANGED <<confirmed, overlap, lapsed, stale>>

-----------------------------------------------------------------------------
(* The chain: TruxifyEscrow's guards on the booking, and the relayer's     *)
(* transactions, mined in the order they were sent.                        *)

Paid == booking \in {"released", "refunded"}

\* What the contract does with a call; "reverted" if it refuses.
Effect(call) ==
    CASE call = "release" /\ booking = "started" -> "released"
      [] call = "cancel" /\ booking = "active" -> "refunded"
      [] call = "penalty" /\ booking \in {"active", "started"} -> "refunded"
      [] OTHER -> "reverted"

\* The gas estimate refuses a call that would revert now.
Send(call) ==
    /\ Effect(call) # "reverted" /\ Len(txs) < MaxTxs
    /\ txs' = Append(txs, [call |-> call, outcome |-> "pending"])
    /\ UNCHANGED <<booking, agreed>>

Pending == {n \in 1 .. Len(txs) : txs[n].outcome = "pending"}

Mine ==
    /\ \E n \in Pending :
          LET outcome == Effect(txs[n].call) IN
          /\ \A m \in Pending : n <= m
          /\ txs' = [txs EXCEPT ![n].outcome = outcome]
          /\ booking' = IF outcome = "reverted" THEN booking ELSE outcome
    /\ UNCHANGED <<row_vars, agreed, lock, job, env_vars>>

\* An operator brings the order's amount and the booking's into agreement: no
\* code here can, once a driver is under way (changeDrop is refused).
CorrectAmount ==
    /\ ~agreed /\ agreed' = TRUE
    /\ UNCHANGED <<row_vars, booking, txs, lock, job, env_vars>>

-----------------------------------------------------------------------------
(* complete_trip_tx: finalises the order and credits the wallet.           *)

Recorded == IF order.releaseHash # 0 THEN order.releaseHash ELSE order.txHash

Completes(h, withOtp) ==
    /\ order.status \notin {"cancelled", "payment_released"}
    /\ withOtp => otp = "active"
    /\ h # 0 /\ h = Recorded

AlreadyComplete == order.status = "payment_released"

\* Mutant: a trip that is complete is completed again.
CompleteTripAgain(h, withOtp) ==
    /\ order' = [order EXCEPT !.status = "payment_released",
                              !.escrow = "released", !.txHash = h]
    /\ credits' = credits + 1
    /\ UNCHANGED <<timeline, otp>>

CompleteTrip(h, withOtp) ==
    IF AlreadyComplete
    THEN UNCHANGED row_vars
    ELSE /\ Completes(h, withOtp)
         /\ order' = [order EXCEPT !.status = "payment_released",
                                   !.escrow = "released", !.txHash = h]
         /\ timeline' = timeline \cup {Delivered}
         /\ otp' = IF withOtp THEN "verified" ELSE otp
         /\ credits' = credits + 1

-----------------------------------------------------------------------------
(* The driver's milestones.  The row's status is not looked at, and the    *)
(* update at the end is guarded by nothing.                                *)

\* The first of the milestones after the last one that is completed.
NextMilestone ==
    {n \in DOMAIN Milestones : (n = 1 \/ n - 1 \in timeline)
                               /\ \A m \in timeline : m < n}

Milestone(j) ==
    /\ \E n \in NextMilestone : Begin(j, "milestone", "mark", n)
    /\ overlap' = (overlap \/ \E i \in Jobs : job[i].op = "milestone")
    /\ UNCHANGED <<row_vars, chain_vars, lock, confirmed, lapsed, stale, faults>>

MarkMilestone(j) ==
    /\ At(j, "milestone", "mark")
    /\ timeline' = timeline \cup {job[j].hash}
    /\ Goto(j, "update")
    /\ UNCHANGED <<order, otp, credits, chain_vars, lock, env_vars>>

\* update_order_status_tx; at pickup the booking is marked started next.
SetStatus(j) ==
    order' = [order EXCEPT !.status = Milestones[job[j].hash]]

UpdateStatus(j) ==
    /\ At(j, "milestone", "update") /\ SetStatus(j)
    /\ IF job[j].hash = 1 /\ job[j].row.escrow \in Unpaid
       THEN Goto(j, "start") /\ UNCHANGED lock
       ELSE End(j)
    /\ UNCHANGED <<timeline, otp, credits, chain_vars, env_vars>>

\* The answer is lost, and the repository sends the call again.
RepeatUpdate(j) ==
    /\ At(j, "milestone", "update") /\ SetStatus(j)
    /\ faults < MaxFaults /\ faults' = faults + 1 /\ overlap' = TRUE
    /\ UNCHANGED <<timeline, otp, credits, chain_vars, lock, job, confirmed, lapsed, stale>>

RollBackMilestone(j) ==
    /\ At(j, "milestone", "update") /\ Fault
    /\ timeline' = timeline \ {job[j].hash}
    /\ End(j)
    /\ UNCHANGED <<order, otp, credits, chain_vars>>

\* Best effort: a booking that cannot be marked is left as it is.
StartBooking(j) ==
    /\ At(j, "milestone", "start")
    /\ booking' = IF booking = "active" THEN "started" ELSE booking
    /\ End(j)
    /\ UNCHANGED <<row_vars, agreed, txs, env_vars>>

-----------------------------------------------------------------------------
(* Delivery: the OTP is checked, the escrow released on the chain, and     *)
(* only then the trip completed.                                           *)

\* The order was finalised while its escrow is recorded as not released.
Stuck(row) == row.status = "payment_released" /\ row.escrow \in Unpaid

VerifyDelivery(j) ==
    /\ order.status = "arriving" \/ Stuck(order)
    /\ otp = "active" /\ Lock(j)
    /\ order.escrow \in Unpaid \cup {"released"}  \* otherwise nothing confirms
                                                  \* a release: 503
    /\ IF order.escrow = "released"
       THEN Begin(j, "deliver", "guard", order.releaseHash)
       ELSE Begin(j, "deliver", "release", 0)
    /\ confirmed' = TRUE
    /\ UNCHANGED <<row_vars, chain_vars, overlap, lapsed, stale, faults>>

\* escrowRelease, for a delivery and for the sweep's retry, which gives no key.
Release(j, op, whenPaid) ==
    /\ At(j, op, "release")
    /\ \/ Paid /\ Carry(j, whenPaid, job[j].row.releaseHash)
          /\ UNCHANGED chain_vars
       \/ /\ ~Paid /\ agreed /\ (op = "deliver" \/ MakesKeys)
          /\ Send("release") /\ Carry(j, "receipt", Len(txs) + 1)
    /\ UNCHANGED <<row_vars, lock, env_vars>>

\* DEPOSIT_AMOUNT_MISMATCH.
Mismatch(j) ==
    /\ At(j, "deliver", "release") /\ ~Paid /\ ~agreed
    /\ order' = [order EXCEPT !.escrow = "release_failed"]
    /\ End(j)
    /\ UNCHANGED <<timeline, otp, credits, chain_vars, env_vars>>

\* The release would revert.
CannotRelease(j) ==
    /\ At(j, "deliver", "release") /\ ~Paid /\ agreed
    /\ Effect("release") = "reverted"
    /\ End(j) /\ UNCHANGED <<row_vars, chain_vars, env_vars>>

\* Mutant: a receipt's status is not looked at.
ConfirmedBlindly(j, outcome) == txs[job[j].hash].outcome # "pending"

\* A wait for a receipt ends when the transaction is mined.
Confirmed(j, outcome) == txs[job[j].hash].outcome = outcome

ReleaseMined(j) ==
    /\ At(j, "deliver", "receipt")
    /\ \/ Confirmed(j, "released") /\ Goto(j, "persist") /\ UNCHANGED lock
       \/ Confirmed(j, "reverted") /\ End(j)
    /\ UNCHANGED <<row_vars, chain_vars, env_vars>>

\* The write is not guarded, and clears the hash when none is known.
RecordRelease(j) ==
    order' = [order EXCEPT !.escrow = "released", !.releaseHash = job[j].hash]

PersistRelease(j) ==
    /\ At(j, "deliver", "persist") /\ RecordRelease(j) /\ Goto(j, "guard")
    /\ UNCHANGED <<timeline, otp, credits, chain_vars, lock, env_vars>>

\* A failed write of the evidence is logged, no more.
PersistFails(j) ==
    /\ At(j, "deliver", "persist") /\ Fault /\ Goto(j, "guard")
    /\ UNCHANGED <<row_vars, chain_vars, lock>>

GuardStatus(j) ==
    /\ At(j, "deliver", "guard")
    /\ IF order.status \in {"cancelled", "payment_released"} /\ ~Stuck(job[j].row)
       THEN End(j)
       ELSE Goto(j, "complete") /\ UNCHANGED lock
    /\ UNCHANGED <<row_vars, chain_vars, env_vars>>

CompleteDelivery(j) ==
    /\ At(j, "deliver", "complete")
    /\ LET withOtp == ~Stuck(job[j].row) IN
       IF AlreadyComplete \/ Completes(job[j].hash, withOtp)
       THEN /\ CompleteTrip(job[j].hash, withOtp)
            /\ Goto(j, "final") /\ UNCHANGED lock
       ELSE End(j) /\ UNCHANGED row_vars
    /\ UNCHANGED <<chain_vars, env_vars>>

\* The status is read again, and the evidence written a second time if this
\* delivery has any: a hash, or the contract's word that it is paid.
FinishDelivery(j) ==
    LET evident == job[j].hash # 0 \/ job[j].row.escrow # "released" IN
    /\ At(j, "deliver", "final") /\ End(j)
    /\ IF Stuck(job[j].row) \/ order.status = "payment_released"
       THEN /\ otp' = "verified"
            /\ IF evident THEN RecordRelease(j) ELSE UNCHANGED order
       ELSE UNCHANGED <<order, otp>>
    /\ UNCHANGED <<timeline, credits, chain_vars, env_vars>>

\* resendDeliveryOtp: the old code is expired, a new one stored.
ResendOtp ==
    /\ order.status = "arriving" /\ otp # "active" /\ otp' = "active"
    /\ UNCHANGED <<order, timeline, credits, chain_vars, lock, job, env_vars>>

-----------------------------------------------------------------------------
(* The release sweep (escrowReleaseReconciliation.js).                     *)

\* The batch is selected before any order is locked.
Sweep(j) ==
    /\ order.escrow \in Unpaid \cup {"released"}
    /\ order.status # "payment_released" /\ order.attempts < MaxRetries
    /\ Begin(j, "sweep", "batch", 0)
    /\ UNCHANGED <<row_vars, chain_vars, lock, env_vars>>

\* The order's turn: it is locked and read again, but for its attempts.  Of what
\* it was selected by only the status is looked at again.
TakeUp(j) ==
    /\ At(j, "sweep", "batch") /\ Lock(j)
    /\ order.status \notin {"payment_released", "cancelled"}
    /\ job' = [job EXCEPT ![j].at = "chain",
                 ![j].row = [order EXCEPT !.attempts = job[j].row.attempts]]
    /\ stale' = (stale \/ order.escrow \in Refunds)
    /\ UNCHANGED <<row_vars, chain_vars, confirmed, overlap, lapsed, faults>>

PassOver(j) ==
    /\ At(j, "sweep", "batch") /\ End(j)
    /\ lock # "free" \/ order.status \in {"payment_released", "cancelled"}
    /\ UNCHANGED <<row_vars, chain_vars, env_vars>>

\* Mutant: a release that was never asked for is tried again.
ConsultChainEager(j) ==
    /\ At(j, "sweep", "chain")
    /\ IF Paid THEN Carry(j, "evidence", job[j].row.releaseHash)
               ELSE Goto(j, "release")
    /\ UNCHANGED <<row_vars, chain_vars, lock, env_vars>>

\* The booking is the source of truth; only a release that was tried after
\* an OTP is tried again.
ConsultChain(j) ==
    /\ At(j, "sweep", "chain")
    /\ \/ Paid /\ Carry(j, "evidence", job[j].row.releaseHash) /\ UNCHANGED lock
       \/ /\ ~Paid /\ job[j].row.escrow = "release_failed"
          /\ Goto(j, "release") /\ UNCHANGED lock
       \/ ~Paid /\ job[j].row.escrow # "release_failed" /\ End(j)
    /\ UNCHANGED <<row_vars, chain_vars, env_vars>>

\* recordAttemptError: the count is that of the batch.
RecordAttempt(j) ==
    /\ order' = [order EXCEPT !.attempts = job[j].row.attempts + 1]
    /\ End(j)

\* A release that is tried again may fail whatever the booking is.
SweepFails(j) ==
    /\ \/ At(j, "sweep", "release") /\ ~Paid
       \/ At(j, "sweep", "receipt") /\ Confirmed(j, "reverted")
       \/ /\ At(j, "sweep", "complete")
          /\ ~AlreadyComplete /\ ~Completes(job[j].hash, FALSE)
    /\ RecordAttempt(j)
    /\ UNCHANGED <<timeline, otp, credits, chain_vars, env_vars>>

SweepInterrupted(j) ==
    /\ job[j].op = "sweep" /\ job[j].at # "batch" /\ Fault /\ RecordAttempt(j)
    /\ UNCHANGED <<timeline, otp, credits, chain_vars>>

SweepMined(j) ==
    /\ At(j, "sweep", "receipt") /\ Confirmed(j, "released")
    /\ Goto(j, "evidence")
    /\ UNCHANGED <<row_vars, chain_vars, lock, env_vars>>

\* finalizeWithRelease: a hash that is not known is not written.
PersistEvidence(j) ==
    /\ At(j, "sweep", "evidence")
    /\ IF job[j].hash # 0
       THEN RecordRelease(j)
       ELSE order' = [order EXCEPT !.escrow = "released"]
    /\ Goto(j, "complete")
    /\ UNCHANGED <<timeline, otp, credits, chain_vars, lock, env_vars>>

FinalizeRelease(j) ==
    /\ At(j, "sweep", "complete")
    /\ CompleteTrip(job[j].hash, FALSE) /\ End(j)
    /\ UNCHANGED <<chain_vars, env_vars>>

-----------------------------------------------------------------------------
(* The customer's cancellation (cancelOrder, OrderCancellationSaga).       *)

\* What the refund is sent as; a driver who was on the way gets a fee.
RefundCall(fee) == IF fee THEN "penalty" ELSE "cancel"
Penalised(row) == row.status = "arrived_pickup"

Cancel(j) ==
    /\ order.status \notin {"picked_up", "arriving"} /\ otp # "verified"
    /\ order.escrow \in Refunding \cup {"funded"}
    /\ Lock(j)
    /\ Begin(j, "cancel", "pend", 0)
    /\ UNCHANGED <<row_vars, chain_vars, env_vars>>

\* record_refund_pending; what the refund goes by is the row it returns.
RecordRefundPending(j) ==
    LET row == job[j].row
        kept == row.status = "cancelled" /\ row.escrow = "refund_pending"
    IN
    /\ At(j, "cancel", "pend")
    /\ IF kept
       THEN UNCHANGED <<order, lock>> /\ Carry(j, "refund", row.refundHash)
       ELSE IF order.status = "payment_released"
       THEN UNCHANGED order /\ End(j)
       ELSE /\ order' = [order EXCEPT !.status = "cancelled",
                                      !.escrow = "refund_pending",
                                      !.tries = row.tries + 1,
                                      !.fee = @ \/ Penalised(row)]
            /\ Carry(j, "refund", order.refundHash) /\ UNCHANGED lock
    /\ UNCHANGED <<timeline, otp, credits, chain_vars, env_vars>>

\* submit_on_chain_refund.  When it throws, only the step before it is
\* compensated, which writes nothing.
SubmitRefund(j) ==
    /\ At(j, "cancel", "refund")
    /\ LET call == RefundCall(Penalised(job[j].row)) IN
       \/ /\ job[j].hash # 0 /\ Goto(j, "receipt") /\ UNCHANGED <<chain_vars, lock>>
       \/ /\ job[j].hash = 0 /\ Send(call)
          /\ Carry(j, "hash", Len(txs) + 1) /\ UNCHANGED lock
       \/ /\ job[j].hash = 0 /\ Effect(call) = "reverted" /\ End(j)
          /\ UNCHANGED chain_vars
    /\ UNCHANGED <<row_vars, env_vars>>

PersistRefundHash(j) ==
    /\ At(j, "cancel", "hash")
    /\ order' = [order EXCEPT !.refundHash = job[j].hash]
    /\ Goto(j, "receipt")
    /\ UNCHANGED <<timeline, otp, credits, chain_vars, lock, env_vars>>

RefundMined(j) ==
    /\ At(j, "cancel", "receipt")
    /\ \/ Confirmed(j, "refunded") /\ Goto(j, "confirm") /\ UNCHANGED lock
       \/ Confirmed(j, "reverted") /\ End(j)
    /\ UNCHANGED <<row_vars, chain_vars, env_vars>>

\* Mutant: the escrow's status is written to the order's.
RefundedInStatus(j) == [order EXCEPT !.status = "refunded"]

Refunded(j) == [order EXCEPT !.status = "cancelled", !.escrow = "refunded",
                             !.refundHash = job[j].hash]

\* confirm_order_refunded; refused, the cleanup is left out too.
ConfirmRefunded(j) ==
    /\ At(j, "cancel", "confirm")
    /\ IF order.escrow \in Refunding
       THEN order' = Refunded(j) /\ Goto(j, "cleanup") /\ UNCHANGED lock
       ELSE End(j) /\ UNCHANGED order
    /\ UNCHANGED <<timeline, otp, credits, chain_vars, env_vars>>

CleanUp(j) ==
    /\ At(j, "cancel", "cleanup") /\ End(j)
    /\ otp' = IF otp = "active" THEN "expired" ELSE otp
    /\ UNCHANGED <<order, timeline, credits, chain_vars, env_vars>>

\* The cleanup throws, and the refund is compensated: the row is put back
\* into reconciliation, unguarded.
CompensateRefund(j) ==
    /\ At(j, "cancel", "cleanup") /\ Fault
    /\ order' = [Refunded(j) EXCEPT !.escrow = "refund_pending"]
    /\ End(j)
    /\ UNCHANGED <<timeline, otp, credits, chain_vars>>

-----------------------------------------------------------------------------
(* The refund sweep (escrowRefundReconciliation.js).                       *)

\* What the sweep goes by, the hash and the fee too, is the row of its batch.
SweepRefund(j) ==
    /\ order.escrow \in Refunding /\ order.tries < MaxRetries
    /\ Begin(j, "refund", "batch", order.refundHash)
    /\ UNCHANGED <<row_vars, chain_vars, lock, env_vars>>

TakeUpRefund(j) ==
    /\ At(j, "refund", "batch")
    /\ \/ Lock(j) /\ Goto(j, "claim")
       \/ lock # "free" /\ End(j)
    /\ UNCHANGED <<row_vars, chain_vars, env_vars>>

\* claim_refund_reconciliation: free, or its holder is gone and the lease
\* has run out.
HoldsClaim(i) ==
    i \in Jobs /\ job[i].op = "refund" /\ job[i].at \notin {"batch", "claim"}
Claimable(j) ==
    /\ order.escrow \in Refunding
    /\ order.by = j \/ ~HoldsClaim(order.by)
Claim(j) == order' = [order EXCEPT !.tries = @ + 1, !.by = j]

ClaimRefund(j) ==
    /\ At(j, "refund", "claim")
    /\ IF Claimable(j)
       THEN Claim(j) /\ Goto(j, "submit") /\ UNCHANGED lock
       ELSE End(j) /\ UNCHANGED order
    /\ UNCHANGED <<timeline, otp, credits, chain_vars, env_vars>>

\* The claim throws, perhaps after it took effect.  The sweep goes on without it,
\* unless it reads that the order is not pending or is somebody's.
ClaimFails(j) ==
    /\ At(j, "refund", "claim") /\ Fault
    /\ UNCHANGED order \/ (Claimable(j) /\ Claim(j))
    /\ \/ Goto(j, "submit") /\ UNCHANGED lock
       \/ End(j) /\ (order'.escrow # "refund_pending" \/ order'.by # "none")
    /\ UNCHANGED <<timeline, otp, credits, chain_vars>>

\* The attempts are counted from the row that was read; the claim is given
\* up whoever has it.
GiveUp(j, tries) ==
    /\ order' = [order EXCEPT !.tries = tries, !.by = "none"]
    /\ End(j)

\* The call that pays the fee is chosen by the fee that was recorded.  A booking
\* that is started is given up, if it can be read.
ResubmitRefund(j) ==
    LET h == job[j].hash
        call == RefundCall(job[j].row.fee)
    IN
    /\ At(j, "refund", "submit")
    /\ \/ /\ h # 0 /\ Goto(j, "receipt")
          /\ UNCHANGED <<order, chain_vars, lock, env_vars>>
       \/ /\ h = 0 /\ booking = "started"
          /\ GiveUp(j, MaxRetries) /\ UNCHANGED <<chain_vars, env_vars>>
       \/ /\ h = 0 /\ Send(call)
          /\ Carry(j, "receipt", Len(txs) + 1) /\ UNCHANGED <<order, lock>>
          /\ IF booking = "started" THEN Fault ELSE UNCHANGED env_vars
    /\ UNCHANGED <<timeline, otp, credits>>

RefundSweepFails(j) ==
    /\ \/ /\ At(j, "refund", "submit") /\ job[j].hash = 0
          /\ booking # "started" /\ Effect(RefundCall(job[j].row.fee)) = "reverted"
       \/ At(j, "refund", "receipt") /\ Confirmed(j, "reverted")
    /\ GiveUp(j, job[j].row.tries + 1)
    /\ UNCHANGED <<timeline, otp, credits, chain_vars, env_vars>>

\* A call of the sweep fails or times out; the attempts bound how often.
RefundSweepInterrupted(j) ==
    /\ job[j].op = "refund" /\ job[j].at \notin {"batch", "claim"}
    /\ GiveUp(j, job[j].row.tries + 1)
    /\ UNCHANGED <<timeline, otp, credits, chain_vars, env_vars>>

\* Only now is the hash of a refund it sent itself written down.
RefundSweepMined(j) ==
    /\ At(j, "refund", "receipt") /\ Confirmed(j, "refunded")
    /\ order' = [order EXCEPT !.refundHash = job[j].hash]
    /\ Goto(j, "finalize")
    /\ UNCHANGED <<timeline, otp, credits, chain_vars, lock, env_vars>>

FinalizeRefund(j) ==
    /\ At(j, "refund", "finalize")
    /\ IF order.escrow \in Refunding /\ order.by = j
       THEN order' = [Refunded(j) EXCEPT !.by = "none"]
       ELSE UNCHANGED order
    /\ End(j)
    /\ UNCHANGED <<timeline, otp, credits, chain_vars, env_vars>>

-----------------------------------------------------------------------------
(* The escrow webhook (escrowWebhookProcessor.js), without the order's     *)
(* lock.  A delivery that changes nothing is left out; one that fails is   *)
(* sent again by the dead-letter queue (DeadLetters).                      *)

Mined(outcome) == {n \in 1 .. Len(txs) : txs[n].outcome = outcome}

\* Mutant: an order already marked released is not healed.
PaymentReleasedUnhealed(j) ==
    /\ Listener
    /\ order.status # "cancelled" /\ order.escrow \in Unpaid
    /\ \E h \in Mined("released") : Begin(j, "webhook", "record", h)
    /\ UNCHANGED <<row_vars, chain_vars, lock, env_vars>>

PaymentReleased(j) ==
    /\ Listener
    /\ order.status # "cancelled"
    /\ order.escrow \in Unpaid \/ (order.escrow = "released" /\ order.releaseHash = 0)
    /\ \E h \in Mined("released") : Begin(j, "webhook", "record", h)
    /\ UNCHANGED <<row_vars, chain_vars, lock, env_vars>>

\* releaseOrder, then the trip is completed; or a hash that is missing is
\* filled in, and that is all.
RecordEvent(j) ==
    LET heals == job[j].row.escrow = "released" IN
    /\ At(j, "webhook", "record")
    /\ IF order.escrow \in (IF heals THEN {"released"} ELSE Unpaid)
       THEN RecordRelease(j)
       ELSE UNCHANGED order
    /\ IF heals THEN End(j) ELSE Goto(j, "complete") /\ UNCHANGED lock
    /\ UNCHANGED <<timeline, otp, credits, chain_vars, env_vars>>

CompleteEvent(j) ==
    /\ At(j, "webhook", "complete")
    /\ IF AlreadyComplete \/ Completes(job[j].hash, FALSE)
       THEN CompleteTrip(job[j].hash, FALSE)
       ELSE UNCHANGED row_vars
    /\ End(j)
    /\ UNCHANGED <<chain_vars, env_vars>>

\* The order's status is left as it is.
BookingCancelled ==
    /\ Listener
    /\ order.escrow \in Refunding \cup {"funded"}
    /\ \E h \in Mined("refunded") :
          order' = [order EXCEPT !.escrow = "refunded", !.refundHash = h]
    /\ UNCHANGED <<timeline, otp, credits, chain_vars, lock, job, env_vars>>

\* WithdrawalReady is emitted with a release and with a refund; which of
\* them it was is told from the order's escrow status, before the receipt is
\* fetched.
WithdrawalReady(j) ==
    /\ Listener
    /\ \/ order.escrow \in Refunding \cup Unpaid /\ order.status # "cancelled"
       \/ order.escrow = "released" /\ order.releaseHash = 0
    /\ \E h \in Mined("released") \cup Mined("refunded") :
          Begin(j, "withdrawal", "settle", h)
    /\ UNCHANGED <<row_vars, chain_vars, lock, env_vars>>

\* The write asks only that the escrow is still open, or nothing at all
\* where a missing hash is filled in.
SettleEvent(j) ==
    LET was == job[j].row.escrow
        h == job[j].hash
    IN
    /\ At(j, "withdrawal", "settle") /\ End(j)
    /\ order' =
          IF was = "released" THEN [order EXCEPT !.releaseHash = h]
          ELSE IF order.escrow \notin Refunding \cup Unpaid THEN order
          ELSE IF was \in Refunding
          THEN [order EXCEPT !.escrow = "refunded", !.refundHash = h]
          ELSE [order EXCEPT !.escrow = "released", !.releaseHash = h]
    /\ UNCHANGED <<timeline, otp, credits, chain_vars, env_vars>>

-----------------------------------------------------------------------------
(* Faults.                                                                 *)

\* A request fails or its process dies; a dead process leaves its lock.
Stop(j) ==
    /\ job[j] # Idle /\ Fault
    /\ job' = [job EXCEPT ![j] = Idle]
    /\ lock' \in IF lock = j THEN {"free", "orphan"} ELSE {lock}
    /\ UNCHANGED <<row_vars, chain_vars>>

LockExpires ==
    /\ lock = "orphan" /\ lock' = "free"
    /\ UNCHANGED <<row_vars, chain_vars, job, env_vars>>

\* The lock's TTL ends while its holder is still at work.
LockLapses ==
    /\ lock \in Jobs /\ lock' = "free" /\ lapsed' = TRUE
    /\ faults < MaxFaults /\ faults' = faults + 1
    /\ UNCHANGED <<row_vars, chain_vars, job, confirmed, overlap, stale>>

-----------------------------------------------------------------------------
Init ==
    /\ order = [status |-> "arrived_pickup", escrow |-> "funded",
                releaseHash |-> 0, txHash |-> 0, refundHash |-> 0, fee |-> FALSE,
                attempts |-> 0, tries |-> 0, by |-> "none"]
    /\ timeline = {} /\ otp = "active" /\ credits = 0
    /\ booking = "active" /\ agreed \in BOOLEAN /\ txs = << >>
    /\ lock = "free" /\ job = [j \in Jobs |-> Idle]
    /\ confirmed = FALSE /\ overlap = FALSE /\ lapsed = FALSE /\ stale = FALSE
    /\ faults = 0

Driver(j) ==
    \/ MarkMilestone(j) \/ UpdateStatus(j) \/ StartBooking(j)
    \/ Release(j, "deliver", "persist") \/ Mismatch(j) \/ CannotRelease(j)
    \/ ReleaseMined(j) \/ PersistRelease(j) \/ GuardStatus(j)
    \/ CompleteDelivery(j) \/ FinishDelivery(j)

Customer(j) ==
    \/ RecordRefundPending(j) \/ SubmitRefund(j) \/ PersistRefundHash(j)
    \/ RefundMined(j) \/ ConfirmRefunded(j) \/ CleanUp(j)

Reconciler(j) ==
    \/ TakeUp(j) \/ PassOver(j) \/ ConsultChain(j)
    \/ Release(j, "sweep", "evidence") \/ SweepFails(j)
    \/ SweepMined(j) \/ PersistEvidence(j) \/ FinalizeRelease(j)
    \/ TakeUpRefund(j) \/ ClaimRefund(j) \/ ResubmitRefund(j) \/ RefundSweepFails(j)
    \/ RefundSweepMined(j) \/ FinalizeRefund(j)

\* A job that has begun goes on.
Continue(j) ==
    \/ Driver(j) \/ Customer(j) \/ Reconciler(j)
    \/ RecordEvent(j) \/ CompleteEvent(j) \/ SettleEvent(j)

Fails(j) ==
    \/ RepeatUpdate(j) \/ RollBackMilestone(j) \/ PersistFails(j)
    \/ SweepInterrupted(j) \/ ClaimFails(j) \/ RefundSweepInterrupted(j)
    \/ CompensateRefund(j) \/ Stop(j)

Next ==
    \/ \E j \in Jobs :
          \/ Milestone(j) \/ VerifyDelivery(j) \/ Cancel(j) \/ Sweep(j)
          \/ SweepRefund(j) \/ PaymentReleased(j) \/ WithdrawalReady(j)
          \/ Continue(j) \/ Fails(j)
    \/ Mine \/ CorrectAmount \/ ResendOtp \/ BookingCancelled
    \/ LockExpires \/ LockLapses

Spec == Init /\ [][Next]_vars

\* A job goes on until it ends and transactions are mined; the driver tries
\* again, the sweeps have their timers, and events are delivered: none of them
\* for want of a slot in `Jobs`, which is why it is strong.
FairSpec ==
    /\ Spec
    /\ \A j \in Jobs : WF_vars(Continue(j))
    /\ WF_vars(Mine) /\ WF_vars(LockExpires)
    /\ WF_vars(\E j \in Jobs : VerifyDelivery(j))
    /\ WF_vars(\E j \in Jobs : Sweep(j))
    /\ SF_vars(\E j \in Jobs : PaymentReleased(j))

-----------------------------------------------------------------------------
(* Properties.                                                             *)

Rows == [status : Statuses,
         escrow : Unpaid \cup Refunding \cup {"released", "refunded"},
         releaseHash : Nat, txHash : Nat, refundHash : Nat, fee : BOOLEAN,
         attempts : Nat, tries : Nat, by : Jobs \cup {"none"}]
Ops == {"milestone", "deliver", "sweep", "cancel", "refund", "webhook",
        "withdrawal"}
Stages == {"mark", "update", "start", "release", "receipt", "persist", "guard",
           "complete", "final", "batch", "chain", "evidence", "pend", "refund", "hash",
           "confirm", "cleanup", "claim", "submit", "finalize", "record",
           "settle"}
JobStates == {Idle} \cup [op : Ops, at : Stages, row : Rows, hash : Nat]
Sent == [call : {"release", "cancel", "penalty"},
         outcome : {"pending", "released", "refunded", "reverted"}]

TypeOK ==
    /\ order \in Rows
    /\ order.releaseHash <= Len(txs) /\ order.txHash <= Len(txs)
    /\ order.refundHash <= Len(txs)
    /\ timeline \subseteq 1 .. Delivered
    /\ otp \in {"active", "verified", "expired"} /\ credits \in Nat
    /\ booking \in {"active", "started", "released", "refunded"}
    /\ txs \in Seq(Sent) /\ agreed \in BOOLEAN
    /\ lock \in Jobs \cup {"free", "orphan"}
    /\ job \in [Jobs -> JobStates]
    /\ confirmed \in BOOLEAN /\ overlap \in BOOLEAN
    /\ lapsed \in BOOLEAN /\ stale \in BOOLEAN
    /\ faults \in Nat

\* The contract pays the driver only after the customer's OTP was presented
\* and matched, whichever job sends the release ("a release is never
\* triggered without a customer OTP confirmation",
\* escrowReleaseReconciliation.js:51-52).
ReleaseIsConfirmed == booking = "released" => confirmed

\* The order's lock has kept the jobs apart: it never ran out under its holder,
\* and no sweep took up an order on the word of a batch from before its refund.
Apart == ~lapsed /\ ~stale

\* As long as the lock keeps the jobs apart, an order is recorded as refunded only
\* when the booking was refunded: the webhook tells a refund's event from a
\* release's by the order, which may be under cancellation.
RefundedIsRefunded ==
    Apart /\ order.escrow = "refunded" => booking = "refunded"

\* As long as the lock keeps the jobs apart, an escrow is recorded as released
\* and the wallet is credited only for a booking that was paid to the driver:
\* `paid`, which the code goes by, is true of a refund as well.
CreditNeedsRelease ==
    Apart /\ (order.escrow = "released" \/ credits > 0)
        => booking = "released"

\* The sweep finalises a trip only when the release happened ("Release confirmed
\* on-chain", escrowReleaseReconciliation.js:197), given that no lock runs out.
\* It does not hold: the escrow status is not read again under the lock, so a
\* sweep that has listed an order before its cancellation completes the trip of a
\* booking that was refunded, once a milestone, whose write is guarded by
\* nothing, has made the order look as if it were under way.
FinalizesReleases == ~lapsed /\ credits > 0 => booking = "released"

\* "credits the wallet exactly once" (escrowReleaseReconciliation.js:49):
\* whatever is retried or swept, one delivery is credited once, as long as the
\* lock keeps the jobs apart and no two writes of a milestone overlap.
CreditedOnce == Apart /\ ~overlap => credits <= 1

\* A payment the contract made is finalised and credited in the end,
\* whatever was lost on the way.
ReleaseIsFinalized ==
    booking = "released" ~>
        order.status = "payment_released" \/ lapsed \/ overlap

\* The side an order has taken, who has the money, and what its row says of it.
Way == IF confirmed THEN "delivery"
       ELSE IF order.escrow \in Refunds THEN "refund" ELSE "open"
Money == CASE booking = "released" -> "driver"
           [] booking = "refunded" -> "customer"
           [] OTHER -> "escrow"
Record == IF order.escrow \in {"released", "refunded"} THEN order.escrow ELSE "open"

Outcome == INSTANCE OrderOutcome
               WITH way <- Way, money <- Money, record <- Record,
                    credited <- credits, doubled <- overlap, broken <- ~Apart

\* Requests, sweeps and events together settle an order one way: whoever comes
\* first with the OTP or the cancellation decides, the money goes that way, the
\* row follows it, a recorded release is never taken back, and there is one
\* credit; as long as the lock keeps the jobs apart.
KeepsOutcome == Outcome!OSafety
=============================================================================
