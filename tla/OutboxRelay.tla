----------------------------- MODULE OutboxRelay -----------------------------
(***************************************************************************)
(* The API's relay, backend/api/src/workers/outboxRelayWorker.js with      *)
(* services/outbox/outboxService.js.  Every await of a cycle is a step of  *)
(* its own, so other cycles, a stop, a crash or a lapse of the lease may   *)
(* come between any two.                                                   *)
(*                                                                         *)
(* A renewal only moves a time that is not yet past, so here it reads the  *)
(* row and changes nothing.  Left out: what the dead-letter sweep does (it *)
(* works on the legacy tables outbox_events and outbox_dlq, which nothing  *)
(* here reads) and the compatibility requeue and writeEvent, which no code *)
(* calls.                                                                  *)
(***************************************************************************)
EXTENDS EventOutbox

CONSTANTS
    Procs,          \* API processes
    Cycles,         \* executions of runRelayCycle that may overlap
    ProcOf,         \* the process an execution belongs to
    KafkaAdapter,   \* whether someone has registered one with the event bus
    MaxStops        \* bound: calls of stopOutboxRelayWorker per process

ASSUME RelayAssumption ==
    /\ ProcOf \in [Cycles -> Procs]
    /\ KafkaAdapter \in BOOLEAN /\ MaxStops \in Nat

VARIABLES
    gen,            \* _relayGeneration of a process
    timer,          \* _relayTimer is set
    callbacks,      \* generations whose interval callback may still run
    running,        \* _cycleRunning
    stops,          \* history: stops so far
    at,             \* where a cycle is
    cycleGen,       \* the generation a cycle was started with
    batch,          \* the claims a cycle has not come to yet
    claim,          \* the claim a cycle is working on, or NoClaim
    ok              \* what the cycle will settle: delivered or failed

process == <<gen, timer, callbacks, running, stops>>
cycle == <<at, cycleGen, batch, claim, ok>>
relay == <<process, cycle>>

Places == {"idle", "sweep", "claim", "loop", "renew", "publish", "settle"}

RelayInit ==
    /\ gen = [p \in Procs |-> 0]
    /\ timer = [p \in Procs |-> FALSE]
    /\ callbacks = [p \in Procs |-> {}]
    /\ running = [p \in Procs |-> FALSE]
    /\ stops = [p \in Procs |-> 0]
    /\ at = [c \in Cycles |-> "idle"]
    /\ cycleGen = [c \in Cycles |-> 0]
    /\ batch = [c \in Cycles |-> {}]
    /\ claim = [c \in Cycles |-> NoClaim]
    /\ ok = [c \in Cycles |-> FALSE]

RelayOK ==
    /\ gen \in [Procs -> Nat] /\ timer \in [Procs -> BOOLEAN]
    /\ callbacks \in [Procs -> SUBSET Nat] /\ running \in [Procs -> BOOLEAN]
    /\ stops \in [Procs -> Nat]
    /\ at \in [Cycles -> Places] /\ cycleGen \in [Cycles -> Nat]
    /\ batch \in [Cycles -> SUBSET Claims]
    /\ claim \in [Cycles -> Claims \cup {NoClaim}]
    /\ ok \in [Cycles -> BOOLEAN]
    /\ \A c \in Cycles :
          claim[c] # NoClaim <=> at[c] \in {"renew", "publish", "settle"}

\* The claims a cycle holds, whether or not they are still good.
Held(c) == batch[c] \cup InHand(claim[c])

\* A cycle works on rows that exist and reports no delivery that did not happen.
RelayHonest ==
    \A c \in Cycles :
        /\ \A cl \in Held(c) : Inserted(cl)
        /\ ok[c] => at[c] = "settle" /\ Delivered(claim[c])

CyclesOf(p) == {c \in Cycles : ProcOf[c] = p}

-----------------------------------------------------------------------------
(* The process: start, the interval, stop, crash                           *)

\* Mutant: the guard does not look at _cycleRunning.
MayRunOverlapping(p, g) == g = gen'[p]

\* Mutant: the guard does not look at the generation.
MayRunAnyGeneration(p, g) == ~running[p]

\* The guard of runRelayCycle.
MayRun(p, g) == g = gen'[p] /\ ~running[p]

\* runRelayCycle(g) up to its first await: a cycle begins, or returns at once.
Run(p, g) ==
    IF MayRun(p, g)
    THEN \E c \in CyclesOf(p) :
            /\ at[c] = "idle"
            /\ at' = [at EXCEPT ![c] = "sweep"]
            /\ cycleGen' = [cycleGen EXCEPT ![c] = g]
            /\ running' = [running EXCEPT ![p] = TRUE]
            /\ UNCHANGED <<batch, claim, ok>>
    ELSE UNCHANGED <<cycle, running>>

\* startOutboxRelayWorker: a new generation, its first cycle, its interval.
Start(p) ==
    /\ ~timer[p]
    /\ gen' = [gen EXCEPT ![p] = @ + 1]
    /\ Run(p, gen[p] + 1)
    /\ timer' = [timer EXCEPT ![p] = TRUE]
    /\ callbacks' = [callbacks EXCEPT ![p] = @ \cup {gen[p] + 1}]
    /\ UNCHANGED <<stops, table>>

\* The interval's callback, which may have been captured before a stop.
Fire(p, g) ==
    /\ g \in callbacks[p]
    /\ UNCHANGED <<gen, timer, callbacks, stops, table>>
    /\ Run(p, g)

\* stopOutboxRelayWorker: it invalidates the generation even without a timer.
Stop(p) ==
    /\ stops[p] < MaxStops
    /\ stops' = [stops EXCEPT ![p] = @ + 1]
    /\ timer' = [timer EXCEPT ![p] = FALSE]
    /\ gen' = [gen EXCEPT ![p] = @ + 1]
    /\ UNCHANGED <<callbacks, running, cycle, table>>

\* The process dies and comes back with a fresh module.
Crash(p) ==
    /\ gen[p] > 0 /\ Fault
    /\ gen' = [gen EXCEPT ![p] = 0]
    /\ timer' = [timer EXCEPT ![p] = FALSE]
    /\ callbacks' = [callbacks EXCEPT ![p] = {}]
    /\ running' = [running EXCEPT ![p] = FALSE]
    /\ at' = [c \in Cycles |-> IF c \in CyclesOf(p) THEN "idle" ELSE at[c]]
    /\ cycleGen' = [c \in Cycles |->
                       IF c \in CyclesOf(p) THEN 0 ELSE cycleGen[c]]
    /\ batch' = [c \in Cycles |-> IF c \in CyclesOf(p) THEN {} ELSE batch[c]]
    /\ claim' = [c \in Cycles |->
                    IF c \in CyclesOf(p) THEN NoClaim ELSE claim[c]]
    /\ ok' = [c \in Cycles |-> IF c \in CyclesOf(p) THEN FALSE ELSE ok[c]]
    /\ UNCHANGED <<stops, rows, deliveries>>

-----------------------------------------------------------------------------
(* The cycle                                                               *)

\* The cycle goes on to `place`.
Goto(c, place) == at' = [at EXCEPT ![c] = place]

\* return, and the finally block.
Finish(c) ==
    /\ at' = [at EXCEPT ![c] = "idle"]
    /\ running' = [running EXCEPT ![ProcOf[c]] = FALSE]
    /\ batch' = [batch EXCEPT ![c] = {}]
    /\ UNCHANGED <<gen, timer, callbacks, stops, cycleGen, claim, ok>>

\* deadLetterExhaustedEvents returns, or throws and ends the cycle.
Sweep(c) ==
    /\ at[c] = "sweep"
    /\ \/ Goto(c, "claim") /\ NoFault
          /\ UNCHANGED <<process, cycleGen, batch, claim, ok>>
       \/ Finish(c) /\ Fault
    /\ UNCHANGED <<rows, deliveries>>

\* claimBatch: the rows, or nothing when the call fails -- before or after the
\* database has done its part.
Claim(c) ==
    /\ at[c] = "claim"
    /\ Goto(c, "loop")
    /\ \/ /\ NoFault
          /\ \E B \in Batches(Due) :
                /\ rows' = Taken(B)
                /\ batch' = [batch EXCEPT ![c] = Tickets(B)]
       \/ /\ Fault
          /\ \E B \in Batches(Due) : rows' \in {rows, Taken(B)}
          /\ UNCHANGED batch
    /\ UNCHANGED <<process, cycleGen, claim, ok, deliveries>>

\* The head of the for loop: the generation is looked at here only.
Loop(c) ==
    /\ at[c] = "loop"
    /\ IF batch[c] = {} \/ cycleGen[c] # gen[ProcOf[c]]
       THEN Finish(c)
       ELSE /\ \E cl \in batch[c] :
                  /\ claim' = [claim EXCEPT ![c] = cl]
                  /\ batch' = [batch EXCEPT ![c] = @ \ {cl}]
            /\ Goto(c, "renew")
            /\ UNCHANGED <<process, cycleGen, ok>>
    /\ UNCHANGED table

\* Mutant: the claim is kept.
ContinueHolding(c) ==
    /\ Goto(c, "loop")
    /\ UNCHANGED <<process, cycleGen, batch, claim, ok>>

\* continue: the claim is let go.
Continue(c) ==
    /\ Goto(c, "loop")
    /\ claim' = [claim EXCEPT ![c] = NoClaim]
    /\ ok' = [ok EXCEPT ![c] = FALSE]
    /\ UNCHANGED <<process, cycleGen, batch>>

\* On to the settlement of the claim in hand.
Report(c, delivered) ==
    /\ Goto(c, "settle")
    /\ ok' = [ok EXCEPT ![c] = delivered]
    /\ UNCHANGED <<process, cycleGen, batch, claim>>

\* renewClaim: true, false, an error (also false), or it throws.
Renew(c) ==
    /\ at[c] = "renew"
    /\ \/ /\ Live(claim[c]) /\ NoFault
          /\ Goto(c, "publish")
          /\ UNCHANGED <<process, cycleGen, batch, claim, ok>>
       \/ ~Live(claim[c]) /\ NoFault /\ Continue(c)
       \/ Fault /\ (Continue(c) \/ Report(c, FALSE))
    /\ UNCHANGED <<rows, deliveries>>

\* publishAndReport: the broker takes the event and says so, takes it and its
\* answer is lost, or does not take it.  Without an adapter of that name it is
\* a failure, always.
Publish(c) ==
    /\ at[c] = "publish"
    /\ UNCHANGED rows
    /\ IF KafkaAdapter
       THEN \/ Sent(claim[c][1]) /\ NoFault /\ Report(c, TRUE)
            \/ Sent(claim[c][1]) /\ Fault /\ Report(c, FALSE)
            \/ UNCHANGED deliveries /\ Fault /\ Report(c, FALSE)
       ELSE UNCHANGED deliveries /\ NoFault /\ Report(c, FALSE)

\* markPublished or markFailed: what it answers is only logged.  The call may
\* be lost, and a markPublished that throws is followed by a markFailed.
Settle(c) ==
    /\ at[c] = "settle"
    /\ \/ rows' = Settled(claim[c], ok[c]) /\ NoFault /\ Continue(c)
       \/ rows' = rows /\ Fault /\ Continue(c)
       \/ /\ ok[c] /\ Fault
          /\ rows' \in {rows, Settled(claim[c], TRUE)}
          /\ Report(c, FALSE)
    /\ UNCHANGED deliveries

Step(c) ==
    Sweep(c) \/ Claim(c) \/ Loop(c) \/ Renew(c) \/ Publish(c) \/ Settle(c)

RelayNext ==
    \/ \E p \in Procs :
          \/ Start(p) \/ Stop(p) \/ Crash(p)
          \/ \E g \in callbacks[p] : Fire(p, g)
    \/ \E c \in Cycles : Step(c)
=============================================================================
