---------------------------- MODULE DeliveryQueue ----------------------------
(***************************************************************************)
(* What a queue of deliveries promises, with nothing said of how: every    *)
(* event that is enqueued is delivered at least once and then, once and    *)
(* for ever, done.  Duplicates are allowed, even after an event is done;   *)
(* an event that is done without a delivery, or is enqueued again, is not. *)
(* OutboxPipeline implements this with deliveries to the broker, and the   *)
(* registry of EventConsumer with effects of its handlers.                 *)
(***************************************************************************)
EXTENDS Naturals

CONSTANT Events

VARIABLES
    stage,      \* of an event: "none", "queued" or "done"
    sent        \* how many times it was delivered

qvars == <<stage, sent>>

QInit ==
    /\ stage = [e \in Events |-> "none"]
    /\ sent = [e \in Events |-> 0]

Enqueue(e) ==
    /\ stage[e] = "none"
    /\ stage' = [stage EXCEPT ![e] = "queued"]
    /\ UNCHANGED sent

Deliver(e) ==
    /\ stage[e] # "none"
    /\ sent' = [sent EXCEPT ![e] = @ + 1]
    /\ UNCHANGED stage

Complete(e) ==
    /\ stage[e] = "queued" /\ sent[e] > 0
    /\ stage' = [stage EXCEPT ![e] = "done"]
    /\ UNCHANGED sent

QNext == \E e \in Events : Enqueue(e) \/ Deliver(e) \/ Complete(e)

\* The safety half: at least once, and done for good.
QSafety == QInit /\ [][QNext]_qvars

\* The liveness half: no event stays queued.
QLiveness == \A e \in Events : stage[e] = "queued" ~> stage[e] = "done"
=============================================================================
