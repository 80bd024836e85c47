---------------------------- MODULE DeadLetters ----------------------------
(***************************************************************************)
(* The webhook dead-letter queue: the route POST /webhooks/escrow, which   *)
(* runs the handler itself and queues what failed (routes/webhookRoutes.js,*)
(* services/webhook/dlqService.js), the table webhook_failures with its    *)
(* RPCs (supabase/migrations/), and the workers that retry                 *)
(* (workers/dlqWorker.js, one per API process).                            *)
(*                                                                         *)
(* An event stands for its dedupe_key.  What the handler does is left to   *)
(* it: it may succeed, fail, or succeed in part, and is not stopped when   *)
(* its lease runs out.  A crash or a lost call may happen at any time, and *)
(* any number of times.                                                    *)
(***************************************************************************)
EXTENDS Integers, FiniteSets

CONSTANTS
    Events,
    Rows,           \* bound: the rows the table has room for
    EventOf,        \* the event a row is for
    Requests,       \* requests of the provider that may be in progress at once
    Workers,        \* API processes
    Names, NameOf,  \* getWorkerId: the same for a container started again
    Nobody,         \* claimed_by IS NULL
    Backoffs,       \* RETRY_BACKOFF.length
    MaxAttempts     \* DEFAULT_MAX_ATTEMPTS

ASSUME DeadLetterAssumption ==
    /\ EventOf \in [Rows -> Events] /\ NameOf \in [Workers -> Names]
    /\ Nobody \notin Names
    /\ Backoffs \in Nat \ {0} /\ MaxAttempts \in Nat \ {0}

VARIABLES
    rows,           \* webhook_failures; `due` is whether next_retry_at (of a
                    \* pending row) or lease_expires_at (processing) is past
    request,        \* per request: the failure not yet queued, as a set
    at,             \* where its cycle is
    batch,          \* rows of the claim it has not come to, as they were read
    hand,           \* the one it works on, as a set
    applied         \* history: the handler has succeeded for an event

worker == <<at, batch, hand>>
vars == <<rows, request, worker, applied>>

Statuses == {"none", "pending", "processing", "resolved", "failed_permanently"}
Row == [status : Statuses, owner : Names \cup {Nobody},
        attempt : Nat, retry : Nat, due : BOOLEAN]

\* A claimed row as the worker has it: attempt_count and retry_count are the
\* ones of the claim.
Tickets == [row : Rows, attempt : Nat, retry : Nat]

Failures == {"retryable", "permanent"}

Init ==
    /\ rows = [r \in Rows |-> [status |-> "none", owner |-> Nobody,
                               attempt |-> 0, retry |-> 0, due |-> FALSE]]
    /\ request = [q \in Requests |-> {}]
    /\ at = [w \in Workers |-> "idle"]
    /\ batch = [w \in Workers |-> {}]
    /\ hand = [w \in Workers |-> {}]
    /\ applied = [e \in Events |-> FALSE]

RowsOf(e) == {r \in Rows : EventOf[r] = e}
Open(r) == rows[r].status \in {"pending", "processing"}

\* The time in the row passes: a retry comes due, or a lease ends.
ComesDue(r) ==
    /\ Open(r) /\ ~rows[r].due
    /\ rows' = [rows EXCEPT ![r].due = TRUE]
    /\ UNCHANGED <<request, worker, applied>>

-----------------------------------------------------------------------------
(* The route                                                               *)

\* The handler's effect is complete when it succeeds, and may be when its
\* answer says that it failed.
Handled(e, outcome) ==
    applied' \in {[applied EXCEPT ![e] = b] :
                    b \in IF outcome = "ok" THEN {TRUE} ELSE {applied[e], TRUE}}

\* POST /escrow: the handler succeeds (200), or fails and is to be queued.
Post(q, e) ==
    /\ request[q] = {}
    /\ \/ Handled(e, "ok") /\ UNCHANGED request
       \/ \E failure \in Failures :
             /\ Handled(e, failure)
             /\ request' = [request EXCEPT ![q] = {<<e, failure>>}]
    /\ UNCHANGED <<rows, worker>>

\* Mutant: rows that are not in the index by status block an insert as well.
BlockingEverything(e) == {r \in RowsOf(e) : rows[r].status # "none"}

\* idx_webhook_failures_dedupe_key: the rows an insert collides with.
Blocking(e) ==
    {r \in RowsOf(e) : rows[r].status \notin {"none", "failed_permanently"}}

\* The row enqueueFailure inserts; one that is born dead is not in the index.
Inserted(r, failure) ==
    /\ rows[r].status = "none"
    /\ failure = "retryable" => Blocking(EventOf[r]) = {}
    /\ rows' = [rows EXCEPT ![r].status =
                   IF failure = "permanent" THEN "failed_permanently"
                                            ELSE "pending"]

\* enqueueFailure and a 202: for a new row, and for a collision with a row that
\* is there already.
Enqueue(q) ==
    /\ \E e \in Events, failure \in Failures :
          /\ request[q] = {<<e, failure>>}
          /\ \/ \E r \in RowsOf(e) : Inserted(r, failure)
             \/ failure = "retryable" /\ Blocking(e) # {} /\ UNCHANGED rows
    /\ request' = [request EXCEPT ![q] = {}]
    /\ UNCHANGED <<worker, applied>>

\* The insert fails, or its answer is lost (500), or the process dies: the
\* provider has no 202 and will send the event again.
Unanswered(q) ==
    /\ request[q] # {}
    /\ \/ UNCHANGED rows
       \/ \E r \in Rows, failure \in Failures :
             request[q] = {<<EventOf[r], failure>>} /\ Inserted(r, failure)
    /\ request' = [request EXCEPT ![q] = {}]
    /\ UNCHANGED <<worker, applied>>

-----------------------------------------------------------------------------
(* The RPCs                                                                *)

\* claim_webhook_failure_batch, first statement: leases that ran out once too
\* often.
Lost(r) ==
    /\ rows[r].status = "processing" /\ rows[r].due
    /\ rows[r].attempt >= MaxAttempts

\* Mutant: rows under a lease that has run out are not taken.
EligibleIfPending(r) == rows[r].status = "pending" /\ rows[r].due

\* Its second statement: what is due, and what the first has left.
Eligible(r) == Open(r) /\ rows[r].due /\ ~Lost(r)

\* The table after a claim in the name n.
Claimed(n) ==
    [r \in Rows |->
        IF Lost(r) THEN [rows[r] EXCEPT !.status = "failed_permanently"]
        ELSE IF Eligible(r)
        THEN [rows[r] EXCEPT !.status = "processing", !.owner = n,
                             !.attempt = @ + 1, !.due = FALSE]
        ELSE rows[r]]

\* What the claim returns.
Taken ==
    {[row |-> r, attempt |-> rows[r].attempt + 1, retry |-> rows[r].retry] :
        r \in {s \in Rows : Eligible(s)}}

\* Mutant: the worker's name is the only fence.
LiveByName(w, t) ==
    /\ rows[t.row].status = "processing" /\ ~rows[t.row].due
    /\ rows[t.row].owner = NameOf[w]

\* The guard of admit_webhook_failure_attempt and settle_webhook_failure_attempt.
Live(w, t) ==
    /\ rows[t.row].status = "processing" /\ ~rows[t.row].due
    /\ rows[t.row].owner = NameOf[w] /\ rows[t.row].attempt = t.attempt

\* Mutant: the settlement does not look at the row.
SettledAnyway(w, t, status, retry) ==
    rows' = [rows EXCEPT ![t.row] =
                [@ EXCEPT !.status = status, !.owner = Nobody,
                          !.retry = retry, !.due = FALSE]]

\* settle_webhook_failure_attempt.
Settled(w, t, status, retry) ==
    rows' = IF Live(w, t)
            THEN [rows EXCEPT ![t.row] =
                    [@ EXCEPT !.status = status, !.owner = Nobody,
                              !.retry = retry, !.due = FALSE]]
            ELSE rows

-----------------------------------------------------------------------------
(* The worker                                                              *)

\* The process dies; another comes up, perhaps under the same name.
Crash(w) ==
    /\ at' = [at EXCEPT ![w] = "idle"]
    /\ batch' = [batch EXCEPT ![w] = {}]
    /\ hand' = [hand EXCEPT ![w] = {}]
    /\ UNCHANGED <<rows, request, applied>>

\* The interval, which cycleOwner keeps from overlapping, and processQueue up to the answer of claimBatch.
Tick(w) ==
    /\ at[w] = "idle"
    /\ rows' = Claimed(NameOf[w])
    /\ \/ /\ at' = [at EXCEPT ![w] = "loop"]
          /\ batch' = [batch EXCEPT ![w] = Taken]
       \/ UNCHANGED <<at, batch>>     \* the answer is lost
    /\ UNCHANGED <<request, hand, applied>>

\* The for loop goes on to its next row, or is over.
Loop(w) ==
    /\ at[w] = "loop"
    /\ IF batch[w] = {}
       THEN at' = [at EXCEPT ![w] = "idle"] /\ UNCHANGED <<batch, hand>>
       ELSE \E t \in batch[w] :
               /\ batch' = [batch EXCEPT ![w] = @ \ {t}]
               /\ hand' = [hand EXCEPT ![w] = {t}]
               /\ at' = [at EXCEPT ![w] = "admit"]
    /\ UNCHANGED <<rows, request, applied>>

\* Mutant: the row is not let go.
ContinueHolding(w) == at' = [at EXCEPT ![w] = "loop"] /\ UNCHANGED hand

\* The loop's `continue`.
Continue(w) ==
    /\ at' = [at EXCEPT ![w] = "loop"]
    /\ hand' = [hand EXCEPT ![w] = {}]

\* admitClaim renews a lease that still runs, so the row stays as it is; a
\* refusal, or an answer that is lost, skips the row.
Admit(w) ==
    /\ at[w] = "admit"
    /\ \/ /\ \A t \in hand[w] : Live(w, t)
          /\ at' = [at EXCEPT ![w] = "handle"]
          /\ UNCHANGED hand
       \/ Continue(w)
    /\ UNCHANGED <<rows, request, batch, applied>>

\* await handler(...): how it ends.
Handle(w) ==
    /\ at[w] = "handle"
    /\ \E t \in hand[w], outcome \in Failures \cup {"ok"} :
          /\ Handled(EventOf[t.row], outcome)
          /\ at' = [at EXCEPT ![w] = outcome]
    /\ UNCHANGED <<rows, request, batch, hand>>

\* Mutant: the retries of a row are not counted.
RecordFailureUncounted(w, t) ==
    IF at[w] = "permanent" \/ t.retry + 1 >= Backoffs
    THEN Settled(w, t, "failed_permanently", t.retry + 1)
    ELSE Settled(w, t, "pending", t.retry)

\* recordFailure.
RecordFailure(w, t) ==
    IF at[w] = "permanent" \/ t.retry + 1 >= Backoffs
    THEN Settled(w, t, "failed_permanently", t.retry + 1)
    ELSE Settled(w, t, "pending", t.retry + 1)

\* completeClaim or recordFailure; the call may fail and change nothing, and
\* what it answers is only counted.
Settle(w) ==
    /\ at[w] \in Failures \cup {"ok"}
    /\ \/ \E t \in hand[w] :
             IF at[w] = "ok" THEN Settled(w, t, "resolved", rows[t.row].retry)
                             ELSE RecordFailure(w, t)
       \/ UNCHANGED rows
    /\ Continue(w)
    /\ UNCHANGED <<request, batch, applied>>

Step(w) == Tick(w) \/ Loop(w) \/ Admit(w) \/ Handle(w) \/ Settle(w)

Next ==
    \/ \E r \in Rows : ComesDue(r)
    \/ \E q \in Requests :
          Enqueue(q) \/ Unanswered(q) \/ \E e \in Events : Post(q, e)
    \/ \E w \in Workers : Crash(w) \/ Step(w)

Spec == Init /\ [][Next]_vars

\* Time passes, intervals fire and awaits return; a process that dies or is
\* stopped is started again.
FairSpec ==
    /\ Spec
    /\ \A r \in Rows : WF_vars(ComesDue(r))
    /\ \A w \in Workers : WF_vars(Step(w))

-----------------------------------------------------------------------------
(* Properties                                                              *)

\* Every variable has its type, and a worker has a row in hand exactly where
\* its code uses one.
TypeOK ==
    /\ rows \in [Rows -> Row]
    /\ request \in [Requests -> {{}} \cup {{x} : x \in Events \X Failures}]
    /\ at \in [Workers -> {"idle", "loop", "admit", "handle", "ok"} \cup Failures]
    /\ batch \in [Workers -> SUBSET Tickets]
    /\ hand \in [Workers -> SUBSET Tickets]
    /\ \A w \in Workers :
          IF at[w] \in {"idle", "loop"} THEN hand[w] = {}
                                        ELSE \E t \in hand[w] : hand[w] = {t}
    /\ applied \in [Events -> BOOLEAN]

\* Crashes and retries together cannot run a handler for ever: MaxAttempts
\* bounds the leases that run out and Backoffs the failures, and the claim of a
\* pending row does not look at attempt_count (claim_webhook_failure_batch).
AttemptsBounded ==
    \A r \in Rows : rows[r].attempt < MaxAttempts + Backoffs

\* While the lease of an attempt runs, nobody but the worker that was given
\* this attempt closes the row or puts it back, even when processes share a
\* name and an old one answers late (settle_webhook_failure_attempt).
AttemptIsItsHolders ==
    [][\A r \in Rows :
          /\ rows[r].status = "processing" /\ ~rows[r].due
          /\ rows'[r].status # "processing"
          => \E w \in Workers : \E t \in hand[w] \ hand'[w] :
                t.row = r /\ t.attempt = rows[r].attempt]_vars

\* A delivery that failed and was answered with 202 is not forgotten: its event
\* is being retried, has been applied, or lies where an operator sees it
\* (enqueueFailure treats a collision as success).
AcknowledgedIsKept ==
    [][\A q \in Requests, e \in Events :
          /\ Enqueue(q) /\ <<e, "retryable">> \in request[q]
          => applied[e] \/ \E r \in RowsOf(e) : Open(r)']_vars

\* What became of an event.
Fate(e) ==
    IF \E r \in RowsOf(e) : rows[r].status = "resolved" THEN "done"
    ELSE IF \E r \in RowsOf(e) : Open(r) THEN "owed"
    ELSE IF \E r \in RowsOf(e) : rows[r].status = "failed_permanently"
    THEN "dead" ELSE "none"

Queue == INSTANCE DeadLetterQueue WITH fate <- [e \in Events |-> Fate(e)]

\* The queue keeps its promise: an event is done only if its handler has
\* succeeded, and is done for good.
KeepsPromise == Queue!DSafety

\* However often workers die and calls fail, a queued event leaves the queue.
EveryEventLeaves == Queue!DLiveness
=============================================================================
