--------------------------- MODULE OutboxPipeline ----------------------------
(***************************************************************************)
(* event_outbox with everything that runs on it: the order transactions    *)
(* that insert rows, the API's relay and the Kafka service's relay.        *)
(***************************************************************************)
EXTENDS OutboxRelay, KafkaRelay

vars == <<table, relay, forwarder>>

Init == TableInit /\ RelayInit /\ ForwarderInit

-----------------------------------------------------------------------------
\* An order is inserted or changes status, and the trigger adds the event.
Insert(e) ==
    /\ rows[e].status = "none"
    /\ rows' = [rows EXCEPT ![e] = NewRow]
    /\ UNCHANGED <<deliveries, faults, relay, forwarder>>

\* Some relay is still to use the row's current claim.
InUse(e) ==
    /\ rows[e].status = "publishing"
    /\ \/ \E c \in Cycles : <<e, rows[e].attempts>> \in Held(c)
       \/ \E f \in Forwarders : <<e, rows[e].attempts>> \in FHeld(f)

\* next_attempt_at passes.  That is the normal end of a retry delay and of the
\* lease of a claim that nobody holds any more; of a claim in use it is a fault.
Expire(e) ==
    /\ rows[e].status \in {"pending", "publishing"} /\ ~rows[e].due
    /\ rows' = [rows EXCEPT ![e].due = TRUE]
    /\ IF InUse(e) THEN Fault ELSE NoFault
    /\ UNCHANGED <<deliveries, relay, forwarder>>

Next ==
    \/ \E e \in Events : Insert(e) \/ Expire(e)
    \/ RelayNext /\ UNCHANGED forwarder
    \/ ForwarderNext /\ UNCHANGED relay

Spec == Init /\ [][Next]_vars

-----------------------------------------------------------------------------
(* Fairness: timers fire, awaits return, a process that is down comes back *)
(* (the supervisor restarts it), and time passes.  The Kafka service's     *)
(* poll is strongly fair: a row that the API's relay keeps failing is      *)
(* pending for its retry delay, which doubles from 1 s to 5 min, while the *)
(* poll runs every 5 s and takes pending rows whatever their retry time.   *)

RelayFairness ==
    /\ \A p \in Procs :
          /\ WF_vars(Start(p) /\ UNCHANGED forwarder)
          /\ WF_vars(Fire(p, gen[p]) /\ UNCHANGED forwarder)
    /\ \A c \in Cycles : WF_vars(Step(c) /\ UNCHANGED forwarder)

ForwarderFairness ==
    \A f \in Forwarders :
        /\ SF_vars((\E B \in SUBSET Events : Take(f, B)) /\ UNCHANGED relay)
        /\ WF_vars(ForwarderStep(f) /\ UNCHANGED relay)

FairSpec ==
    /\ Spec /\ RelayFairness /\ ForwarderFairness
    /\ \A e \in Events : WF_vars(Expire(e))

-----------------------------------------------------------------------------
(* Properties                                                              *)

\* Every variable has its type, and a relay has a claim in hand exactly where
\* its code uses one.
TypeOK == TableOK /\ RelayOK /\ ForwarderOK

\* No two relays ever work under the same claim: an attempt number is given
\* out once, whoever asks and however often calls are lost or relays restart
\* (claim_leased_outbox_events and claim_outbox_events).
ClaimsAreExclusive ==
    /\ \A c, d \in Cycles : c # d => Held(c) \cap Held(d) = {}
    /\ \A c \in Cycles, f \in Forwarders : Held(c) \cap FHeld(f) = {}
    /\ \A f, g \in Forwarders : f # g => FHeld(f) \cap FHeld(g) = {}

\* No row is published that Kafka has not got.
PublishedWasDelivered ==
    \A e \in Events : rows[e].status = "published" => deliveries[e] > 0

\* The inductive invariant behind AtLeastOnce: what a relay is about to settle
\* as delivered has been delivered, and it works on rows that exist.
OutboxInv == TypeOK /\ RelayHonest /\ ForwarderHonest /\ PublishedWasDelivered

\* A process never runs two cycles at once, across stop and restart
\* (_cycleRunning, outboxRelayWorker.js).
OneCyclePerProcess ==
    \A c, d \in Cycles :
        ProcOf[c] = ProcOf[d] /\ at[c] # "idle" /\ at[d] # "idle" => c = d

\* An event goes to Kafka more than once only if something went wrong: each
\* repeat has a crash, a lost call or a lapsed lease of its own.
RepeatsNeedFaults == \A e \in Events : deliveries[e] <= 1 + faults

\* While the lease of a claim runs, its row is changed by the relay that holds
\* the claim and by no other (settle_leased_outbox_event).
LiveClaimIsItsHolders ==
    [][\A c \in Cycles :
          \A cl \in Held(c) :
             Live(cl) /\ rows'[cl[1]].status # "publishing"
             => at[c] = "settle" /\ claim[c] = cl]_vars

\* A stopped worker begins no cycle until it is started again: an interval
\* callback captured before the stop does nothing (stopOutboxRelayWorker).
StoppedBeginsNothing ==
    [][\A c \in Cycles : at[c] = "idle" /\ at'[c] # "idle"
                         => timer'[ProcOf[c]]]_vars

-----------------------------------------------------------------------------
(* What all this implements                                                *)

Stage(status) ==
    CASE status = "none" -> "none"
      [] status \in {"pending", "publishing"} -> "queued"
      [] status = "published" -> "done"

Queue == INSTANCE DeliveryQueue WITH
            stage <- [e \in Events |-> Stage(rows[e].status)],
            sent <- deliveries

\* The pipeline is a queue that delivers at least once: no row is published
\* that Kafka has not got, and none leaves "published" again.
AtLeastOnce == Queue!QSafety

\* Every event that is committed is published in the end.
EveryEventPublished == Queue!QLiveness
=============================================================================
