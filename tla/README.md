# Truxify: TLA+ models and proofs

Truxify moves freight: customers post orders, drivers bid, the agreed price is
locked in an escrow contract on a blockchain, and the driver is paid when the
delivery is confirmed. This directory holds TLA+ modules for the parts of the
repository in which an interleaving, a crash or a lost answer can cost money or
lose an event, TLC configurations that check them on small instances, and
theorems about them checked by TLAPS.

## 1. The system

| Part | Where | State | Operations | What is hard about it |
|---|---|---|---|---|
| Escrow contract | `blockchain/contracts/TruxifyEscrow.sol` | bookings, pending withdrawals, one deadline per account, commitment nonces, release keys, pause flag, coin | create/lock, update amount, start, release, cancel, penalty, dispute, resolve, timeout, withdraw, recover, pause | re-entrant payees, rolled-back transactions, reused slots, replayed signatures and keys, shared deadlines |
| Event outbox | `supabase/migrations/*outbox*`, `backend/api/src/workers/outboxRelayWorker.js`, `services/outbox/`, `backend/kafka/relay/outbox.relay.js` | table `event_outbox`; per process a generation, a timer, a running flag; per cycle a batch and a claim | trigger, claim, renew, publish, settle, start, stop | leases, lost calls, overlapping cycles, two relays with different protocols |
| Order escrow orchestration | `services/order/*`, `services/escrow.js`, `services/webhook/escrowWebhookProcessor.js` | the order row (`status`, `escrow_status`, hashes, attempts), its timeline and OTP, the wallet's credits, the Redis lock | accept, confirm deposit, milestones, verify delivery, cancellation saga, on-chain events | database, chain and lock change separately; lock TTL; events told apart by the row |
| Escrow reconciliation | `services/escrow{Refund,Release,Funding}Reconciliation.js` | the same row, claims with leases, retry counters | periodic sweeps that finish what was left half done | races with live requests and with each other; a hash that was lost |
| Withdrawal settlement | `workers/withdrawalSettlementWorker.js`, `services/wallet/payoutProvider.js`, the RPCs in `supabase/migrations/`, `routes/driverRoutes.js`, `routes/adminRoutes.js` | the driver's wallet (`wallet_confirmed`, `wallet_pending`), a row of `wallet_transactions`; per worker a batch and what its SELECT said | withdraw, claim, dispatch, record, settle, retry, dead-letter, recover, the admin's retry and refund | an irreversible call between two writes; a batch read once and used for minutes; an admin beside a worker |
| Order outbox | `backend/kafka/relay/outboxRelay.js` | table `order_outbox` | claim with an owner, mark, fail | marks without ownership |
| Kafka consumers | `backend/kafka/consumers/order.consumer.js`, `kafka/repositories/`, `kafka/config/kafka.config.js` | `kafka_processed_events`, a lock per event in Redis, `kafka_dead_letters`, the committed offset; per process the message in hand | deliver, claim, handle, mark, store a dead letter, commit, replay | a partition that moves from a process at work, a claim that grows stale, a lock that runs out or is skipped, a replay beside a delivery, an offset committed past a refused claim |
| Saga coordinator | `core/saga/` | steps done, log | execute, compensate | the failing step itself is not compensated |
| Stale-order sweep | `workers/staleOrderWorker.js` | lease, candidates | leased sweep | work that outlives its lease |
| Webhook dead-letter queue | `routes/webhookRoutes.js`, `services/webhook/dlqService.js`, `workers/dlqWorker.js` | table `webhook_failures`; per worker a batch and the row in hand | post, enqueue, claim, admit, handle, settle | crash loops, leases that end under a handler, restarted processes with the name of the old one, late answers |
| Locks, caches, breakers, idempotency | `lib/`, `middleware/` | counters, keys with TTL | — | TTL against slow work |
| Event store, state channels, atomic swap, apps, ML | various | — | — | separate from the order flow |

How they interact: an order's changes write the order row and, by a trigger in
the same transaction, a row of `event_outbox`; a relay publishes that row to
Kafka, at least once, and the consumers' registry is to make one effect of each
event out of that. Acceptance, delivery and
cancellation call the escrow contract through the backend's relayer wallet, the
contract's owner; the reconciliation workers and the chain's events, posted to
the webhook, finish what a crash or a failed call left half done; an event whose
handler fails is kept by the dead-letter queue. Drivers' credits are paid out by the settlement worker.

What makes each correct: the contract always holds what it owes and no booking
is paid twice; the outbox loses no event and keeps relays apart; the
orchestration and its sweeps never pay a driver for a booking whose money went
elsewhere, credit a delivery once, and leave no payment unfinished; the
dead-letter queue forgets no event it has acknowledged and runs no handler for
ever; the consumers run an event's handlers alone and once, and commit no offset
past an event of which nothing is left; a withdrawal is paid at most once and its reserve is returned only if it
was not paid.

`PROJECT.json` lists every part with its status and every hazard with its line.

## 2. Modules

| Module | Models | Abstract of |
|---|---|---|
| `Totals`, `TotalsProofs` | the sum of a function over a finite set, and what a change of one value does to it | — |
| `TruxifyEscrow` | the contract | — |
| `TruxifyEscrowProofs` | its safety: coin and rollbacks; slots, keys, commitments, disputes, pause and deadlines | — |
| `DeliveryQueue` | what an outbox promises, and a registry of events | specification |
| `EventOutbox` | the table `event_outbox` and every SQL statement on it | — |
| `OutboxRelay` | the API's relay: start, interval, stop, crash, and each await of a cycle | extends `EventOutbox` |
| `KafkaRelay` | the Kafka service's relay of the same table | extends `EventOutbox` |
| `OutboxPipeline` | both relays, the trigger and the clock together; implements `DeliveryQueue` | — |
| `OutboxProofs` | its invariant and the refinement | — |
| `OutboxClaimsProofs` | who holds what: cycles, claims, repeated deliveries | — |
| `WalletBook` | what a driver's wallet promises of a withdrawal | specification |
| `Withdrawals` | a withdrawal from the request to its end: driver, workers, provider, admin; implements `WalletBook` | — |
| `WithdrawalsProofs` | its safety and the refinement | — |
| `OrderOutcome` | what the settlement of an order promises | specification |
| `OrderSettlement` | one order between the driver's arrival and its end: requests, sweeps, events, the lock, an abstract booking; implements `OrderOutcome` | — |
| `SettlementProofs` | its safety and the refinement | — |
| `DeadLetterQueue` | what the dead-letter queue promises | specification |
| `DeadLetters` | the webhook's route, the table `webhook_failures` with its RPCs, and the workers; implements `DeadLetterQueue` | — |
| `DeadLettersProofs` | its invariant and the refinement | — |
| `EventConsumer` | the consumers of the topics with side effects, the replay of dead letters, the registry, its lock and the offsets; the registry implements `DeliveryQueue` | — |
| `EventConsumerProofs` | its invariant, that nothing is forgotten, handlers at the same time, how often an event takes effect, and the refinement | — |
| `MCEscrow`, `MCOutbox`, `MCWithdrawals`, `MCSettlement`, `MCDeadLetters`, `MCEvents` | the instances TLC checks | — |

### The escrow contract

Variables have the names of the storage they stand for. A function without an
external call is one step, and a call that reverts is none. `withdraw` and
`emergencyRecover` call the payee in the middle: `CallOut` opens `call` and
saves the storage, the payee's re-entrant calls are steps taken while it is
open, and `CallReturns` or `CallReverts` ends it; the second restores the saved
storage, which is what the EVM does. `nonReentrant` is `call = NoCall`, so the
functions without that modifier (`createBooking`, `lockPayment`, `receive`,
`markBookingStarted`, `raiseDispute`, `pause`, `unpause`) can run inside a call,
if the caller is a contract. Two history variables, `opened` and `creditedAt`,
exist for the properties only. An owner-signed commitment is a record that may
be presented at any time after it was signed; the signature itself is membership
in `Signed`. `ecrecover`, `keccak256`, `createdAt`, the events and
`setTrustedRelayer` are left out.

### The event outbox

Each SQL statement is one transaction and one step. A row keeps its status, its
attempt number and whether `next_attempt_at` is past; that bit may turn true at
any time (`Expire`), which covers every lease, retry delay and speed. A relay
works on *claims*, pairs of an event and the attempt number its claim got: the
fencing token that the newer statements compare and the older ones ignore.
Every await of `runRelayCycle` is a step, so a stop, a crash, another cycle or
the end of the lease can come between any two. Every call may be lost before or
after the database or the broker did its part; each loss, crash and lapse of a
lease in use counts one in `faults`.

The dead-letter sweep at the head of a cycle works on the legacy tables
`outbox_events` and `outbox_dlq`, which nothing else here reads: it is a step
that succeeds or throws.

### Withdrawals

A statement of the database is one step, and so is each await of a worker. A
worker decides by `seen`, what its SELECT said of a row when the cycle began; the
WHERE of each statement decides by the row as it is. A reference is one bit,
recorded or not. A request whose worker has stopped waiting is `late` and may
still be paid. Whether the provider pays one reference twice is the constant
`OncePerReference`: the code sends a stable reference and relies on the provider
to recognise it, so the checks of the protocol's own care (`withdrawals_race`)
assume it does not. `CallFails` is a statement of the database that fails, or
whose answer is lost where the worker acts on it (the claim); a later statement
that did take effect before its answer was lost looks to the row like a crash
right after it. An error after `fetch` is ambiguous (`Unsure`) unless its text
names a rejection by the bank (`Decline`), which
`isAmbiguousDispatchError` takes as proof that nothing was paid. `Storable` is the
set of values that the column's CHECK lets through.

`WalletBook` is the same with nobody in it: an amount is asked for, set aside,
and then paid out, which takes a payout, or given back. `StageOf` maps the status
to it; a dead letter is still open, so an admin's retry is a stutter, and a payout
that comes late is `Wire`, whatever the row says by then.

Left out: notifications, the length of the backoff (a retry may come due at any
time), the batch limit of 50, the order of a batch, and credits to the wallet
from deliveries, which add to `wallet_confirmed` and touch no withdrawal.

### Order settlement

A *job* is a request or a sweep in progress: `op` says which, `at` where it is,
`row` is the order as it was read when the job began, and `hash` the transaction
(or the milestone) it works on. A step is what the code does between two awaits,
so between any two steps another job, a mined transaction or an event may change
everything that `row` still shows. A guard on `order` is a WHERE or a second
SELECT of the code; a guard on `job[j].row` is a decision from the first one.

| Operations | Code |
|---|---|
| `Milestone` .. `StartBooking` | `OrderMilestoneService` with `update_order_status_tx`: no lock, and an update that no status guards |
| `VerifyDelivery` .. `FinishDelivery`, `ResendOtp` | `deliveryVerificationService.js`, `escrowRelease`, `complete_trip_tx` |
| `Sweep`, `TakeUp`, `PassOver`, `ConsultChain` .. `FinalizeRelease` | `escrowReleaseReconciliation.js`: the batch, the order's turn, and what is done with it |
| `Cancel` .. `CompensateRefund` | the cancellation saga of `orderLifecycleService.js` as `sagaCoordinator.js` runs it |
| `SweepRefund`, `TakeUpRefund`, `ClaimRefund`, `ClaimFails` .. `FinalizeRefund` | `escrowRefundReconciliation.js` with `claim_refund_reconciliation` |
| `PaymentReleased` .. `SettleEvent`, `BookingCancelled` | `escrowWebhookProcessor.js` |
| `Lock`, `End`, `LockExpires`, `LockLapses` | `lib/redisLock.js` |
| `Effect`, `Send`, `Mine` | the guards of `TruxifyEscrow.sol` on one booking, and the relayer's transactions |

A transaction hash is the transaction's place in `txs`, 0 being NULL. Transactions
are mined in the order of their nonces; the contract's guards are evaluated when
one is sent (the gas estimate) and again when it is mined, so one may revert
because another came first. `agreed` says whether the booking holds the amount
the order expects; the release refuses otherwise, until an operator has corrected
the amount (`CorrectAmount`, external). `lock = "orphan"` is the lock of a dead
process until its TTL ends. `LockLapses` is a lock that runs out while its holder
works, or two processes that both fell back to a local lock; `lapsed` remembers
it. `overlap` remembers that two milestone writes were under way at once.
`confirmed` remembers that the customer's OTP has matched.

Both sweeps select their orders once per batch, before any of them is locked; a
sweep's job waits at `"batch"` until the order's turn comes, and everything may
happen in between. Under the lock the release sweep reads the order again but looks
only at `status` (`escrowReleaseReconciliation.js:159-166`), so it may take up an
order that has been refunded since it was listed; `stale` remembers that one did.
The refund sweep goes on with the hash and the fee of its batch; where its claim
throws, it works unclaimed (`ClaimFails`), which `FinalizeRefund` then refuses to
record. It gives up a booking that is started, unless it cannot read the booking, in
which case it sends the refund (`ResubmitRefund`, which counts a fault). The release
sweep gives `escrowRelease` no idempotency key, and the key made in its place
(`escrow.js:916`) uses `ethers.utils`, which the ethers 6 of `package.json` does not
have: with `MakesKeys` FALSE, the code as it is, the sweep's retry always fails and
only a delivery sends a release; with TRUE it works as written.

Abstracted: statuses the guards treat alike are one status; amounts are `agreed`
and whether a cancellation fee was recorded; the geofence, the OTP's digits,
generation and lifetime, notifications, tracking tokens, back-off, the sweeps'
batch limits and global locks, the in-process flags against overlapping sweeps (two
sweeps at once stand for two processes), and the retries inside one database
call except the repeated milestone. `StartBooking` sends and waits in one step,
and a claim of the refund sweep is taken over only when its holder is gone (a
holder that outlives its lease has lost its lock as well, which is `LockLapses`).

### The webhook dead-letter queue

An event stands for its `dedupe_key`. A row has the columns the RPCs compare;
`due` is whether `next_retry_at` (of a pending row) or `lease_expires_at` (of one
that is processing) is past, and may turn true at any time, which covers every
delay, lease and speed. A worker works on *tickets*, rows as its claim returned
them, with the attempt number that `admit` and `settle` compare. `Rows` and
`EventOf` bound how many rows the table can have for each event: more than one
matters, because a row that was given up is not in the unique index and the event
may be queued again. What the handler does is left open here: it may succeed, fail,
or have its effect and still report a failure, and it is not stopped when its
lease ends. Crashes and lost calls are not bounded, since what they can do is
bounded by the code (`MaxAttempts`, `Backoffs`), which is a property.
A worker that was stopped is one that does not tick. Left out: the batch limit
of 50 and the order of a batch.

### The event consumers

A *worker* is a process: a consumer of the group, or a replay job. It has one
claim at a time, so its name stands for the values the claim goes by: the value
of the lock and `started_at`, the fencing token of `markCompleted` and
`markFailed`. A step is what lies between two awaits. The messages are those of
one partition, `Log`, in which an event may occur twice.

| Operations | Code |
|---|---|
| `Assign`, `Deliver`, `Resolve`, `Commit` | `consumeMessages` on kafkajs: the group gives the partition away, perhaps from a process at work; no error leaves `eachMessage`, so every message is resolved |
| `AcquireLock` .. `ReleaseLock` | `claimProcessing`: lock, upsert, SELECT, UPDATE, and the release of the lock where the claim is refused or fails |
| `Handle`, `StoreDeadLetter`, `FanOut`, `Mark` | `OrderConsumer`'s `messageHandler` in `startConsuming` (`order.consumer.js:153-262`): the handlers, the letter a throwing handler costs, the fan-out to the EventBus, and the `finally`; the letter that `consumeMessages` stores for an error |
| `ListPending` .. `Recount` | `replayDeadLetters`, with the claim and the marks above |
| `GrowsStale`, `OrphanExpires`, `LockLapses`, `Crash` | time and failures |

`stale` is whether `started_at` is more than five minutes ago and may turn true at
any time. `lock = Orphan` is the lock of a process that died, could not delete it,
or never heard that it got it; nobody renews it. A lock that could not be had
because Redis was away, and one that ran out under its holder, count in `lapses`
as well as in `faults`. Each statement may fail, before or after it took effect.
The handlers may return, throw before their effect, or throw after it; `effects`
counts the effects. `dropped` remembers a letter that could not be stored, which
the code only logs.

After its handlers a consumer passes the event on to an EventBus, if it was given
one (`Bus`). A fan-out that fails marks the claim `failed`, but stores no letter and
throws nothing, so the offset moves on; `unsent` remembers the event. `kafka/index.js`
gives its consumer no EventBus, so `Bus` is FALSE of the service as it is started and
TRUE where `setEventBus` was called, as the tests do.

Left out: the handlers of a topic are one (they run in a row under one claim);
`markStatus` reads and writes in one step; the limit and the order of
`listPending`; a message without an event id, which is handled without a claim;
and the topics that build the order read model. Those call `apply_order_event`,
whose `on conflict (topic, event_id)` matches no constraint since
`20260813120000_kafka_processed_events_consumer_group.sql` put the group into the
primary key, so at this commit it does nothing but raise.

## 3. What is checked

Escrow (`MCEscrow`):

| Run | Shows |
|---|---|
| `escrow` | Two accounts that are each customer and driver, the owner one of them and with code; two slots, used again. `Solvency`: the coin held is exactly the amounts locked plus the amounts owed, during re-entrant calls and after rollbacks. `PaidOnce`: a slot holds coin exactly while its booking is undecided. `DisputeFreezes`: a disputed booking changes only by the owner's split or after the timeout. `RecoveryWaitsForLastCredit`: the owner cannot push out an amount before `WITHDRAWAL_TIMEOUT` has passed since the last settlement that credited the payee. `OneKeyPerDelivery`, `CommitmentOpensOnce`: keys and signatures that are presented again. |

`SavedSafe`, `PauseFreezes` and `DeliveredIsFinal` are proved (section 4) and are in
no run.

Outbox (`MCOutbox`):

| Run | Shows |
|---|---|
| `outbox_lease` | The fenced RPCs alone: two processes, three cycles (two of them in one process), one event. `LiveClaimIsItsHolders`, `OneCyclePerProcess`, `ClaimsAreExclusive`, `StoppedBeginsNothing`, and `RepeatsNeedFaults`: an event goes out at most once more than there were faults. |
| `outbox_live` | Both relays as deployed, batches of two: the inductive invariant `OutboxInv`, the refinement `AtLeastOnce`, and `EveryEventPublished`. |
| `outbox_unfenced` | a violation, see section 6. |

In `outbox_live` the API's relay has no `kafka` adapter, because no code
registers one, and fails every event: the run shows that the Kafka service's
relay gets every event out nevertheless.

Withdrawals (`MCWithdrawals`):

| Run | Shows |
|---|---|
| `withdrawals_race` | Two workers, one withdrawal, a provider that pays whatever it is sent, a fault and an admin's retry. `OneDispatcher`: no two workers dispatch it, however old their SELECTs, unless an admin took the claim away. `RequestsAreCounted`: every request after the first is a retry the row has counted. `KeepsBook`: the refinement of `WalletBook`, with which a withdrawal is only completed after a payout (`CompletedWasPaid`) and a closed one stays closed (`ClosedIsFinal`). `RecordedPayoutCloses`: a payout whose reference is known does not stay pending. |
| `withdrawals_wallet` | Two withdrawals from one wallet. `ReservedIsOwed`: the reserve is the sum of what is unresolved. `NothingMinted`: the wallet loses what was completed and nothing else. `WithinDailyCap`. |
| `withdrawals_retry` | a violation, see section 6. |

Order settlement (`MCSettlement`):

| Run | Shows |
|---|---|
| `settlement` | Two jobs of any kind at a time, two transactions, one fault. `ReleaseIsConfirmed`: the contract pays the driver only after the OTP matched, whichever job sends the release. `CreditNeedsRelease`: as long as the lock keeps the jobs apart, the row and the wallet say what the chain did, although `paid` is true of both ends and one event is emitted for both. `KeepsOutcome`: the refinement of `OrderOutcome`, with which a refund is only recorded for a booking that was refunded (`RefundedIsRefunded`), and neither side is ever changed for the other. `CreditedOnce`: one credit for one delivery, unless milestone writes overlap. `ReleaseIsFinalized`: a payment the contract made is finalised and credited in the end. |
| `settlement_unheard`, `settlement_stale` | violations, see section 6. |

The exceptions are part of the statements because the code needs them. The lock
keeps the jobs apart (`Apart`) if it never ran out under its holder and no sweep took
up, from an old batch, an order that had been refunded since. With a lock that ran
out, a delivery and a cancellation can both be decided; with an old batch, a booking
that was refunded is recorded as released, which `settlement_stale` shows; with two
milestone writes at once, the later one puts an order that is already paid back to
`arriving`, and it is completed a second time.

Dead letters (`MCDeadLetters`):

| Run | Shows |
|---|---|
| `dead_letters` | Two workers that share a name, an event with room for two rows, crashes and lost calls without bound. `AttemptsBounded`: a row is claimed fewer than `MaxAttempts + Backoffs` times. `AttemptIsItsHolders`: a running attempt is ended only by the worker that was given it. `AcknowledgedIsKept`: a failed delivery that got its 202 is open or has been applied. `KeepsPromise`: the refinement of `DeadLetterQueue`. `EveryEventLeaves`: no event is owed for ever. |

Event consumers (`MCEvents`):

| Run | Shows |
|---|---|
| `events` | One event, two consumers between which the partition moves once, a replay job, one fault of any kind. `EventsInv`: the inductive invariant; with it, what is recorded as completed or replayed has had its effect. `HandlersNeedLapses`: two handlers of an event run at once only if a lock was lost. `EffectsNeedFaults`: the handlers take effect once, however often the event is delivered, replayed and reclaimed, and once more for each fault, for a lost lock twice. `KeepsRegistry`: the registry, seen as a `DeliveryQueue`, never takes up again what is done, nor is done before an effect. `NothingForgotten`: behind the committed offset every event is completed, has a letter, or is in somebody's hands, unless a process died, a letter could not be stored, or the EventBus refused an event whose handlers were done. |

Each property has a mutant in its module, a changed definition next to the real
one, under which TLC finds it violated.

**Bounds.** `Supply` is 2: enough for a top-up, an uneven split, a payment beside
an amount still owed, and a deposit that re-enters while another is paid out.
`MaxBookings` of 2
lets a slot be cancelled and taken again while another booking lives. Both timeouts
are 1 and the `Horizon` is 3, so that "one tick early" and "one tick late" both
occur, after an earlier credit too. There are two keys and commitments with two
successive nonces for each slot (the slots are interchangeable, hence the
symmetry). Only the owner has code: what it can call from within a payment includes
what anybody else could. What is proved of the contract holds for any number of
each. In the outbox, `MaxFaults` of 2 or 3 allows a lapse, a loss and a crash in one
behaviour, the combinations the claim protocol is about; `MaxStops` of 1 gives an
old and a new generation at once, in a process that has room for two cycles; and
`Limit` of 1 and 2 covers a claim of some and of all rows. `attempts` is unbounded
but grows only finitely often in the safety runs, as each claim after the first
needs a fault. In the liveness runs retries go on for ever, so there `Bumped` wraps
after 3. That could confuse only a relay that still
holds a claim three attempts old. The API's relay cannot (each claim that the other
one makes in the meantime and does not complete is a fault, and there are two), and
the Kafka service's can, but its statements do not compare the number.

In `settlement`, two jobs are the least at which a stale read can hurt, and every
hazard listed for this part is a race of two; `MaxTxs` of 2 lets a release and a
refund, or a second attempt after a reverted one, meet; `MaxRetries` of 2 lets a
sweep fail, try again, and give up; the fault is one crash, lost answer, failed
write or lapsed lock (interrupted refund sweeps come on top, bounded by their own
attempts). `MakesKeys` is TRUE there, which lets the sweep do all that it may; in the
two violations it is FALSE, as in the code, and `settlement_stale` needs no fault at
all. What is proved of it holds for any number of each. In `dead_letters`,
`MaxAttempts` and `Backoffs` of 2 put a crash and a failure before and at either
limit, and the shared name is the hard case of the fence, as it leaves only the
attempt number. In `events` the one event is what all claims are about; one
rebalance gives a process at work and a second one with the same message, the
replay job a third, `Bus` TRUE the fan-out, and `MaxReplays` of 1 a letter that is tried again and one that
is given up. Two rebalances, two faults, and the event twice in the partition were
checked one at a time while the model was written; they take longer than a run
may, and all its properties are proved for any number of each.

`withdrawals_race` keeps one row, as races are about the same row, and
`withdrawals_wallet` one worker and two rows, as the wallet is where two rows meet;
both have one retry, one failed settlement, one fault and one retry by an admin,
so that each counter is at and past its limit once. `ReservedIsOwed` and
`NothingMinted` are proved for any number of each. A settlement that fails and is
tried again before the limit occurs in `withdrawals_retry` (`SettleLimit` 2); the
other two were checked with 2 as well while the model was written, in about two and
three minutes on four cores.
The cap equals the larger amount, so two withdrawals compete for it, and the wallet
holds 3, so the cap binds before the balance in some states and after it in others.

**Fairness** (the `FairSpec` of each module, in `outbox_live`, `withdrawals_race`,
`dead_letters`, `settlement` and `settlement_unheard`). Timers fire, awaits
return (the Supabase and Kafka clients have timeouts, and an error is a return),
a process that is down is started again by its supervisor, and time passes: weak
fairness of each. The Kafka service's poll is strongly fair: when the API's
relay keeps failing a row, the row is pending for its retry delay, which grows
from 1 s to 5 min (`outboxService.js:140`), while the poll runs every 5 s and
takes pending rows whatever their retry time, so it sees the row again and again
and each time for longer than its period. Crashes, losses and lapses are finite
in number (`MaxFaults`), which is the usual "if it stops failing for long
enough". In `Withdrawals` a worker's steps (`Work`) and the passing of
`next_retry_at` (`ComesDue`) are weakly fair, for the same reasons: the interval
fires, `fetch` is aborted by a timeout and the database client answers or fails.
Nothing is assumed of the provider, the driver or the admin. In `DeadLetters` time
passes for each row and each worker goes on (`Step`); a crash does not stop a
worker for good, and the route needs no fairness. In `OrderSettlement` a job that
has begun goes on until it ends or is stopped, transactions are mined, and a dead
process's lock expires; the driver tries a delivery again while it can be
verified, the release sweep has its timer, and an event is delivered again by the
dead-letter queue until it is handled (strongly fair, because the slots in `Jobs`
are a bound of the model: a delivery must not be kept waiting by other jobs). Nobody has to cancel, to resend an OTP, to
correct an amount or to run the refund sweep. `EventConsumer` states no fairness:
no code runs the replay, so nothing has to become of a dead letter.

## 4. What is proved

TLAPS checks these for every value of the constants, under the assumptions the
modules name (`EscrowAssumption`, `OutboxAssumption`, `RelayAssumption`,
`WithdrawalAssumption`, `SettlementAssumption`, `DeadLetterAssumption`,
`ConsumerAssumption`).

*Contract.* `SafetyInv` is inductive: `TypeOK`, `Solvency`, `PaidOnce` and
`SavedSafe`. They need one another. `balance - amount` stays a natural number
because the contract is solvent; crediting `booking.driver` is well typed because
a slot with coin has payees, which is `PaidOnce`; and a revert restores a good
state because the saved one was good, which is `SavedSafe`. `Solvency` speaks of
two sums over sets of unknown size; `TotalsProofs!TotalUpdate` says how a sum
changes with one value, and every action's effect on the two sums follows from
that. Results: `Safety`, `TypeCorrect`, `Solvent`, `EachPaidOnce`, `RollbackSafe`.

*Contract slots.* A rollback is the one step that can undo anything, so each
invariant here is claimed twice, of the ledger as it is and of the one a revert
would restore. `SlotMoves` lists the ways in which a slot can change; disputes and
the pause follow from it (`DisputesFreeze`, `PauseHolds`). `SavedFinal`: a booking
that was decided before a call is so in the saved ledger too, since nothing that
`nonReentrant` lets in decides one (`DecidedStays`). `NonceInv`: a commitment that
opened a booking has a nonce its slot is past (`CommitmentOnce`). `KeyInv`:
as many keys are used up as bookings are delivered (`KeysMatch`). `DeadlineInv`:
a deadline is never earlier than the timeout after the payee's last credit
(`RecoveryWaits`).

*Outbox.* `OutboxInv` is inductive: types, `PublishedWasDelivered`, and for each
relay that what it is about to settle as delivered has been delivered
(`RelayHonest`, `ForwarderHonest`). The last two are needed because the
settlement is a later step than the delivery. `Refinement` maps each row to a
stage of `DeliveryQueue` and shows that every step is one of its steps or a
stutter, with both relays and every fault. The only assumption on `Bumped` is
that it yields a natural number (`BumpsToNat`), so the wrapping counter of
`outbox_live` is covered.

*Outbox claims.* `OutboxClaimsProofs` adds who holds what. `CycleInv` ties the flag of a
process to its cycles and the callbacks it still has to its generation: `OneCycle`,
`StoppedStays`. The others assume that an attempt is a larger number than the one
before it (`BumpsUp`), so they do not speak of the wrapping counter of
`outbox_live`. `ClaimsOld` says that nobody holds a claim newer than its row, so a
new claim is nobody's yet: `OneHolder`, for both kinds of relay. `ClaimHolds` is
`LiveClaimIsItsHolders` when there are no relays of the old kind; with one it is
false, which `outbox_unfenced` shows. `RepeatsFaulted` counts: for each event the
deliveries, the claims that may still deliver and the row's own chance of a new
claim are together at most one more than the faults (`Fits`), because whoever lets
a claim go without a settlement, loses an answer or outlives a lease has counted a
fault; `Tidy` says which of a relay's sets an event can be in at once.

*Withdrawals.* `WithdrawalInv` is inductive: types, `ReservedIsOwed`,
`NothingMinted` and `RefsArePaid` (a recorded reference, and a worker about to
record one or to settle, stand for a payout that was made). The RPCs floor the
reserve at zero; `ReservedIsOwed` says that the amount of an unresolved row is in
the reserve, so the floor never bites and an admin's refund is of the whole
amount, without which `NothingMinted` would not be preserved. `Completed` rows were
paid because `Settle` follows a reference, which is `RefsArePaid`; it is needed
since the worker that settles is often not the one that dispatched. Results:
`WithdrawalInvariance`, `WithdrawalTypes`, `ReserveBalanced`, `WalletBalanced`,
`PaidBeforeCompleted`, `ClosedForGood`, `CapHolds`. `BookKept` is the refinement of
`WalletBook`. `Closes` is what `Settle`, `Refuse` and `AdminRefund` have in common,
one open row closed and its amount moved, and each is `PayOut` or `GiveBack`, the
first because of `RefsArePaid`, both with the whole amount because of
`ReservedIsOwed`; `AskedInv` says that a row in a worker's hand, or with a request
on the wire, was asked for, so what the provider pays is `Wire`. `CountInv` adds the workers to
the count: the holders of a row that is being dispatched, with the row's own
chance of being claimed, are at most one more than the admin's retries, and the
payouts, the late requests and the workers about to ask are at most one more than
the counted retries: `DispatchedAlone`, `RequestsCounted`. They hold for any CHECK that admits
`pending` and `failed`, any provider, and any number of workers, retries and
faults.

*Order settlement.* The argument of `IInv` is that an order takes one of two sides,
decided under its lock: *confirmed*, when the OTP has matched (`confirmed`), and
*refund*, when the saga has written `refund_pending`. `SideInv` says that on the
first side no refund was sent and none can begin, and on the second no release;
`LockInv`, that a job which relies on the lock holds it, so nobody changes sides
in between; `HashInv`, that a hash in the row or in a job's hand belongs to a
transaction of the right kind; `ChainInv`, that the booking is the outcome of one
mined transaction; `OtpInv` and `WebhookInv`, what the OTP and the event in
hand stand for; `RowInv` and `CreditInv`, that the row and the wallet agree
with the side. The first kind of conjunct holds always; those about sides are
claimed while the lock keeps the jobs apart (`Apart`), as they are false afterwards.
`ConfirmedRelease` needs no lock at all. Results: `InvHolds`, `TypeCorrect`,
`ConfirmedRelease`, `RefundRecorded`, `ReleaseRecorded`, `OneCredit`, for any
number of jobs, transactions, retries and faults, with and without events.
`OneOutcome` is the refinement of `OrderOutcome`. `Sides` reads from `IInv` which
way the order has gone, where the money is and what the row may say, before a step
and after it; so of each action it only has to be known that it writes to the row
and the wallet in one of few ways (`Books`). A recorded release is never taken
back; a recorded refund may be put back into reconciliation (`Reopen`), which the
compensation of the saga does (`CompensateRefund`).

*Dead letters.* `DeadLetterInv` is inductive: types; `Counted` (a row's attempts
are at most its retries plus the claims that ran out, which bounds them);
`TicketsGood` (no ticket is newer than its row, so an attempt number identifies a
claim); `Honest` (a worker about to report success has seen the handler succeed);
and `OneRow` (at most one row of an event is in the unique index). The last two are
what the refinement needs: `Fate` of an event reads several rows, and only because
one of them can be open or done does each step change it by one step of
`DeadLetterQueue`. Results: `TypeCorrect`, `Bounded`, `Fenced`, `Kept`, `Promise`,
for any number of workers with any names.

*Event consumers.* `EventsInv` is inductive. What is *recorded* of an event (a row
that is completed, a letter, or the memory of a fault: a crash, a lost letter, a fan-out
that failed after the handlers took effect) stays; an event is *seen to*
(`Seen`) when it is recorded or a consumer has it in hand that will record it unless
it dies. `RowInv` is the heart: whatever makes a worker leave an event alone, a row
that is `processing` or `failed` or a lock that is taken, says that the event is
seen to; so a consumer that is refused a claim may go on, which is `ConsumerInv`,
and the committed offset may follow, which is `OffsetInv`. A replay job never
carries that duty, since its event has a letter (`ReplayInv`). `WorkerInv` says
what a worker about to record an effect has seen. Each step is shown to keep what
was recorded (`Grows`) and seen (`SeenStays`); from those two, `OthersKept`,
`RowsKept` and `OffsetKept` give the invariant for everything the step does not
touch. Results: `Invariance`, `Forgotten`. `Handlings` counts the workers that claim
or handle an event without its lock (`Lockless`): there are at most as many as
there were lapses, and at most one more worker has the lock. `Effects` counts what
an event is *charged* with: its effects, its running handlers, one if nobody holds
its claim under the lock (`Open`: the next one to get both may still handle it), and
two for each worker that is claiming it without the lock (`Takers`: its own handler,
and the one of whoever it takes the claim from). The charge starts at one, and
`ChargeInv` says that faults and lapses pay for the rest: each step pays for what it
changes of an event (`Pays`), and as a step of a worker is about one event, it is
enough to show it there (`Elsewhere`). What keeps the count from growing without a
fault is that a claim that is marked completed is never given again, and that of
one marked failed the handlers had no effect or a fault was counted. `RegistryKept`
is the refinement of `DeliveryQueue` by the registry: making or taking over a claim
is `Enqueue` or a stutter, an effect `Deliver`, `markCompleted` `Complete`, each by
what `WorkerInv` says of the worker.

*Model-checked only.* The liveness properties, `RecordedPayoutCloses`,
`ReleaseIsFinalized`, `EveryEventPublished` and `EveryEventLeaves`: fairness and
ENABLED are outside what TLAPS handles here.

## 5. What is not modelled

Gas, transaction ordering by miners, chain reorganisations and the exact bytes
of hashes and signatures; the contents of events, their `version` numbers and
the order in which a batch is worked through (any order is allowed); row locks
(`SKIP LOCKED` makes two claims disjoint, which is what one step each gives);
and the parts with status `not_modelled`, each with its reason in
`PROJECT.json`. By lines these are most of the repository: its applications,
route plumbing, machine learning and prototypes keep no state of the kind a model
checker can say something about, so the modules cover a small share of it, and
within that share what moves money or must not lose an event.

Of the event consumers, beyond what section 2 leaves out:

* `order.consumer.js` (lines 3-9) and `kafka.config.js` (lines 1-7) declare imported
  names twice and do not load at this commit; their bodies are what is modelled. The
  function `replayDeadLetters` at `order.consumer.js:11` calls repository functions
  that do not exist; modelled is the method of `OrderConsumer` at line 300.
* A fan-out that fails leaves the event `failed` without a letter and the offset
  moves on (`order.consumer.js:218-249`, asserted by `order.consumer.test.js:226-243`).
  The comment at lines 243-246 counts on "the next delivery", and nothing delivers
  the event again. This is why `NothingForgotten` makes an exception of `unsent`.
* No code but the tests calls `OrderConsumer.replayDeadLetters`; it is modelled as a job in a process of
  its own. In the process of a consumer, two claims of one event would share an entry of
  `activeClaims`.
* There is one group. The handlers are one map for all the groups of a process, so
  each group that reads a topic runs all of its handlers, under a claim of its own;
  and a letter does not say from which group it is, so a replay claims it for the
  group it is called with (the order service by default), under which the event may
  be new.
* A process that dies inside a claim leaves a fresh `processing` row. Kafka gives
  the partition away after 30 s, long before the five minutes after which a claim is
  stale: the redelivery is refused and its offset committed, and nothing delivers
  the event again. `processedEvent.repository.js:9-11` says that it "can be
  re-claimed by the next delivery instead of being skipped forever". This is why
  `NothingForgotten` makes an exception of crashes.
* `processedEvent.repository.js:175-176` says of the UPDATE that "only one concurrent
  reclaimer wins". The UPDATE compares the status alone, which a stale
  `processing` row keeps, so without the lock both win. This is what
  `HandlersNeedLapses` allows for each lapse.

Of the order's settlement in particular:

* There are two milestone handlers. The one modelled is `OrderMilestoneService`'s.
  `_updateMilestoneInner` (`orderLifecycleService.js:523-615`), which
  `controllers/orderController.js` calls, takes a 10 s lock but never marks the
  booking started, so a release after it is refused by the contract ("Trip not
  started").
* `escrowRefundReconciliation.js` (lines 1 and 8) and
  `escrowReleaseReconciliation.js` (lines 3-14) import the same names more than
  once and do not load at this commit, nor does `escrow.js`, which imports `ethers`
  and `logger` three times (lines 3, 77-78, 142-151); their bodies are what is
  modelled. `TruxifyEscrow.sol` begins with a second contract of the same name
  (lines 2-41, a single `withdrawFunds`), so it does not compile either; modelled is
  the one at line 60, with all that follows.
* Left out: bid acceptance and funding with its sweep, `changeDrop` (refused once
  an order is funded), disputes raised through the API, and
  `services/blockchain/` monitoring.
* Seen while modelling, and covered by no property: a retried cancellation of an
  order that is already `cancelled` recomputes no penalty, so it may refund in
  full although a fee was recorded (`orderLifecycleService.js:833-842`, beside
  `escrowRefundReconciliation.js:177-178`); a milestone of the driver takes an
  order out of `cancelled`; a crash between marking a milestone and the status
  update leaves an order that no later call can move; a delivery that read the
  booking as paid writes a NULL over a hash the webhook has filled in; the hash of
  a refund that reverted stays in the row and is waited for again; and with a
  lapsed lock, an event may be recorded as a refund of a booking that was
  released.
* Comments that do not match: `orderMilestoneService.js:123-124` and
  `escrowRefundReconciliation.js:158-160` say that a penalty refund of a started
  booking reverts, but `cancelWithPenalty` (`TruxifyEscrow.sol:502`) has no such
  guard; `escrowRefundReconciliation.js:229` says that the hash is stored
  "immediately after submission", and the code stores it after the confirmation.

## 6. Disagreements found

* `settlement_unheard`: the driver was paid on the chain, and the hash of the
  release was lost, because its write failed or the process died before it
  (`deliveryVerificationService.js:626-645`). The release sweep finds the booking
  paid, but calls `complete_trip_tx` with a NULL hash, which raises
  (`20260812130000_complete_trip_tx_fail_closed_on_missing_wallet.sql:109-129`);
  after 10 attempts the order is not selected again. The sweep's comment says that
  it heals this case. It is healed when the chain's event reaches the webhook,
  which `settlement` assumes.
* `settlement_stale`: the release sweep lists a funded order; before its turn the
  customer cancels and the booking is refunded, and a milestone that was under way
  writes its status over the cancellation. Under the lock the sweep sees an order that
  is under way and a booking that is `paid`, writes `released` over `refunded`, and the
  next sweep completes the trip once the webhook has filled in the refund's hash: the driver is
  credited for a booking that was refunded, with no fault and no lapsed lock. The code
  calls what it goes by "Release confirmed on-chain"
  (`escrowReleaseReconciliation.js:197`).
* `outbox_unfenced`: that relay settles rows without comparing the attempt, so it
  can take a row away from a live claim of the API's relay, which
  `docs/architecture/outbox-claim-protocol.md` rules out (and asks to replace all
  old relays for that reason; `backend/kafka/index.js` still starts one).
* `withdrawals_retry`: an admin's retry of a dead letter clears the claim and the
  reference of a payout that was made, and the next cycle sends it again. The
  comment beside it relies on `settled_at`, which a dead letter never has; an
  earlier version of the function refused such a retry. `OneDispatcher` and
  `RequestsAreCounted` therefore make an exception of rows an admin has retried.

Found by reading, and not a run of its own: the CHECK on the status column of
`wallet_transactions` (`docs/supabase_setup.sql:691`) admits neither `completed` nor
`settlement_failed`, and no migration widens it. A payout that was made can then be
neither settled nor given up, which the migration
`20260813000000_withdrawal_settlement_terminal.sql` was written to end. The runs take
the CHECK as widened; with `Storable <- Shipped` in `MCWithdrawalsRace.cfg`, TLC finds
`RecordedPayoutCloses` violated within seconds.

## 7. Plan

Done: the contract, the event outbox, withdrawals, the order's settlement, the
webhook's dead-letter queue and the event consumers, each with its proofs. What would come next:

1. Bid acceptance and funding: the deposit's confirmation, its rollback and the
   funding sweep, in front of `OrderSettlement`, whose `Init` is a funded order.
2. `order_outbox`, with ownership and a retry budget, as another implementation
   of `DeliveryQueue`, and the composition of an outbox with `EventConsumer`, whose
   `Log` is what the outbox delivers.
3. The stale-order sweep: a lease, a cancellation that outlives it, a bid.
4. A proof of `RepeatsNeedFaults` for a counter that wraps, which needs a bound on
   how old a claim in hand can be.
