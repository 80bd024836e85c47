----------------------------- MODULE EventOutbox -----------------------------
(***************************************************************************)
(* The table event_outbox and the statements its two relays run on it.     *)
(* The API's relay uses the RPCs of supabase/migrations/20261001115108_    *)
(* fence_event_outbox_claims.sql, which compare the attempt number and the *)
(* lease; the Kafka service's relay still uses those of 20260810000000_    *)
(* event_outbox_and_read_model.sql, which look at the status alone.        *)
(*                                                                         *)
(* Every statement is one transaction and so one step.  Of next_attempt_at *)
(* only what the SQL compares is kept -- whether it is past (`due`) -- and *)
(* it may become past at any time: this covers every lease, retry delay    *)
(* and speed of the relays.                                                *)
(***************************************************************************)
EXTENDS Naturals, FiniteSets

CONSTANTS
    Events,
    Limit,          \* the most rows one claim takes
    Bumped(_),      \* attempts + 1; a run in which retries may go on for ever
                    \* lets it wrap, and no other run reaches the wrap
    MaxFaults       \* bound: crashes, lost calls, broker errors, lapsed leases

ASSUME OutboxAssumption ==
    /\ Limit \in Nat \ {0} /\ MaxFaults \in Nat

VARIABLES
    rows,           \* event_outbox: status, attempts, and whether it is due
    deliveries,     \* external: how many times Kafka got the event
    faults          \* history: faults so far

table == <<rows, deliveries, faults>>

-----------------------------------------------------------------------------
Rows ==
    [status : {"none", "pending", "publishing", "published"},
     attempts : Nat, due : BOOLEAN]

\* An event and the attempt number its claim got: the lease's fencing token.
Claims == Events \X Nat
NoClaim == <<>>

NoRow == [status |-> "none", attempts |-> 0, due |-> FALSE]

TableInit ==
    /\ rows = [e \in Events |-> NoRow]
    /\ deliveries = [e \in Events |-> 0]
    /\ faults = 0

TableOK ==
    /\ rows \in [Events -> Rows] /\ deliveries \in [Events -> Nat]
    /\ faults \in 0..MaxFaults

\* The claim that a relay is working on, as a set.
InHand(cl) == IF cl = NoClaim THEN {} ELSE {cl}

\* A claim is of a row that exists.
Inserted(cl) == rows[cl[1]].status # "none"

\* Kafka has got the event of the claim.
Delivered(cl) == deliveries[cl[1]] > 0

\* Something goes wrong: it may, up to the bound.
Fault == faults < MaxFaults /\ faults' = faults + 1
NoFault == UNCHANGED faults

\* Kafka acknowledges, or does not acknowledge, a message it has taken.
Sent(e) == deliveries' = [deliveries EXCEPT ![e] = @ + 1]

\* The row that trg_orders_event_outbox inserts together with the order.
NewRow == [status |-> "pending", attempts |-> 0, due |-> TRUE]

-----------------------------------------------------------------------------
(* Claims                                                                  *)

\* Mutant: a claim takes a row whose lease still runs.
ClaimableAlways ==
    {e \in Events : rows[e].status \in {"pending", "publishing"}}

\* What claim_leased_outbox_events may take.
Due ==
    {e \in Events :
        rows[e].status \in {"pending", "publishing"} /\ rows[e].due}

\* What claim_outbox_events may take: a pending row whatever its retry time.
Claimable ==
    {e \in Events : \/ rows[e].status = "pending"
                    \/ rows[e].status = "publishing" /\ rows[e].due}

\* A batch of S: as many rows as the limit allows.
Batches(S) ==
    {B \in SUBSET S :
        Cardinality(B) = IF Cardinality(S) < Limit THEN Cardinality(S)
                                                   ELSE Limit}

\* Mutant: a claim does not count as an attempt.
TakenUncounted(B) ==
    [e \in Events |->
        IF e \in B THEN [rows[e] EXCEPT !.status = "publishing", !.due = FALSE]
                   ELSE rows[e]]

\* Both claims: a new attempt, under a lease.
Taken(B) ==
    [e \in Events |->
        IF e \in B THEN [status |-> "publishing",
                         attempts |-> Bumped(rows[e].attempts), due |-> FALSE]
                   ELSE rows[e]]

\* The claims that the rows of B come back with.
Tickets(B) == {<<e, Bumped(rows[e].attempts)>> : e \in B}

-----------------------------------------------------------------------------
(* Settlements                                                             *)

\* Mutant: the claim's attempt is not compared with the row's.
LiveUnfenced(cl) ==
    rows[cl[1]].status = "publishing" /\ ~rows[cl[1]].due

\* The WHERE clause that renew and settle share: the row is still under the
\* claim's own attempt, and its lease is not past.
Live(cl) ==
    /\ rows[cl[1]].status = "publishing"
    /\ rows[cl[1]].attempts = cl[2]
    /\ ~rows[cl[1]].due

\* The row's status after a settlement; a failure's retry time is ahead.
Verdict(e, delivered) ==
    [rows EXCEPT ![e] =
        [status |-> IF delivered THEN "published" ELSE "pending",
         attempts |-> rows[e].attempts, due |-> delivered /\ rows[e].due]]

\* Mutant: the settlement does not use the verdict it is given.
PublishedAnyway(cl, delivered) ==
    IF Live(cl) THEN Verdict(cl[1], TRUE) ELSE rows

\* settle_leased_outbox_event.
Settled(cl, delivered) ==
    IF Live(cl) THEN Verdict(cl[1], delivered) ELSE rows

\* mark_outbox_published and fail_outbox_events: any claim will do.
Marked(cl, delivered) ==
    IF rows[cl[1]].status = "publishing" THEN Verdict(cl[1], delivered)
                                         ELSE rows
=============================================================================
