----------------------------- MODULE KafkaRelay ------------------------------
(***************************************************************************)
(* The Kafka service's relay of event_outbox, backend/kafka/relay/outbox.  *)
(* relay.js with repositories/outbox.repository.js, which backend/kafka/   *)
(* index.js starts.  One publishPending runs at a time in a process, and   *)
(* every await is a step.  Every event type that the order trigger writes  *)
(* has a topic, so the branch for a type without one is left out.          *)
(***************************************************************************)
EXTENDS EventOutbox

CONSTANT Forwarders     \* Kafka service processes

VARIABLES
    fAt,        \* where a process is
    fBatch,     \* the rows it has claimed and not come to yet
    fClaim,     \* the row it is working on, or NoClaim
    fOk         \* whether the broker took it

forwarder == <<fAt, fBatch, fClaim, fOk>>

FPlaces == {"poll", "loop", "publish", "mark"}

ForwarderInit ==
    /\ fAt = [f \in Forwarders |-> "poll"]
    /\ fBatch = [f \in Forwarders |-> {}]
    /\ fClaim = [f \in Forwarders |-> NoClaim]
    /\ fOk = [f \in Forwarders |-> FALSE]

ForwarderOK ==
    /\ fAt \in [Forwarders -> FPlaces]
    /\ fBatch \in [Forwarders -> SUBSET Claims]
    /\ fClaim \in [Forwarders -> Claims \cup {NoClaim}]
    /\ fOk \in [Forwarders -> BOOLEAN]
    /\ \A f \in Forwarders :
          fClaim[f] # NoClaim <=> fAt[f] \in {"publish", "mark"}

\* The claims a process holds, whether or not they are still good.
FHeld(f) == fBatch[f] \cup InHand(fClaim[f])

\* As RelayHonest.
ForwarderHonest ==
    \A f \in Forwarders :
        /\ \A cl \in FHeld(f) : Inserted(cl)
        /\ fOk[f] => fAt[f] = "mark" /\ Delivered(fClaim[f])

FGoto(f, place) == fAt' = [fAt EXCEPT ![f] = place]

\* claimPending; when the call is lost, before or after the database has done
\* its part, the relay sleeps and polls again.
Take(f, B) ==
    /\ fAt[f] = "poll" /\ B \in Batches(Claimable) /\ B # {}
    /\ \/ /\ NoFault
          /\ rows' = Taken(B)
          /\ fBatch' = [fBatch EXCEPT ![f] = Tickets(B)]
          /\ FGoto(f, "loop")
       \/ Fault /\ rows' = Taken(B) /\ UNCHANGED <<fAt, fBatch>>
    /\ UNCHANGED <<fClaim, fOk, deliveries>>

\* Mutant: the run loop ends with its first batch.
EachOfOneBatch(f) ==
    /\ fAt[f] = "loop" /\ fBatch[f] # {}
    /\ \E cl \in fBatch[f] :
          /\ fClaim' = [fClaim EXCEPT ![f] = cl]
          /\ fBatch' = [fBatch EXCEPT ![f] = @ \ {cl}]
    /\ FGoto(f, "publish")
    /\ UNCHANGED <<fOk, table>>

\* The head of the for loop.
Each(f) ==
    /\ fAt[f] = "loop"
    /\ IF fBatch[f] = {}
       THEN FGoto(f, "poll") /\ UNCHANGED <<fBatch, fClaim>>
       ELSE /\ \E cl \in fBatch[f] :
                  /\ fClaim' = [fClaim EXCEPT ![f] = cl]
                  /\ fBatch' = [fBatch EXCEPT ![f] = @ \ {cl}]
            /\ FGoto(f, "publish")
    /\ UNCHANGED <<fOk, table>>

\* On to markPublished or, from the catch block, markFailed.
FReport(f, sent) ==
    /\ FGoto(f, "mark")
    /\ fOk' = [fOk EXCEPT ![f] = sent]
    /\ UNCHANGED <<fBatch, fClaim>>

\* publisher: the lease is not looked at.
Forward(f) ==
    /\ fAt[f] = "publish"
    /\ \/ Sent(fClaim[f][1]) /\ NoFault /\ FReport(f, TRUE)
       \/ Sent(fClaim[f][1]) /\ Fault /\ FReport(f, FALSE)
       \/ UNCHANGED deliveries /\ Fault /\ FReport(f, FALSE)
    /\ UNCHANGED rows

\* The next row.
FContinue(f) ==
    /\ FGoto(f, "loop")
    /\ fClaim' = [fClaim EXCEPT ![f] = NoClaim]
    /\ fOk' = [fOk EXCEPT ![f] = FALSE]
    /\ UNCHANGED fBatch

\* markPublished or markFailed.  A markPublished that throws is followed by a
\* markFailed; a markFailed that throws is logged.
Mark(f) ==
    /\ fAt[f] = "mark"
    /\ \/ rows' = Marked(fClaim[f], fOk[f]) /\ NoFault /\ FContinue(f)
       \/ rows' = rows /\ ~fOk[f] /\ Fault /\ FContinue(f)
       \/ /\ fOk[f] /\ Fault
          /\ rows' \in {rows, Marked(fClaim[f], TRUE)}
          /\ FReport(f, FALSE)
    /\ UNCHANGED deliveries

\* The process dies, or exits on a signal with a batch in hand.
Exit(f) ==
    /\ fAt[f] # "poll" /\ Fault
    /\ FGoto(f, "poll")
    /\ fBatch' = [fBatch EXCEPT ![f] = {}]
    /\ fClaim' = [fClaim EXCEPT ![f] = NoClaim]
    /\ fOk' = [fOk EXCEPT ![f] = FALSE]
    /\ UNCHANGED <<rows, deliveries>>

ForwarderStep(f) == Each(f) \/ Forward(f) \/ Mark(f)

ForwarderNext ==
    \E f \in Forwarders :
        \/ \E B \in SUBSET Events : Take(f, B)
        \/ ForwarderStep(f) \/ Exit(f)
=============================================================================
