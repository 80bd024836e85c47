--------------------------- MODULE EventConsumer ---------------------------
(***************************************************************************)
(* The consumers of the Kafka service (backend/kafka/consumers/            *)
(* order.consumer.js) on the topics with side effects: the consumers of    *)
(* one group, the job that replays dead letters, the registry              *)
(* kafka_processed_events (processedEvent.repository.js) with its Redis    *)
(* lock, and the table kafka_dead_letters.                                 *)
(*                                                                         *)
(* The messages are those of one partition, in order; an event may be in   *)
(* it twice, as the relays deliver at least once.  A worker is a process:  *)
(* a consumer, or a replay job (which no process of the service runs by    *)
(* itself).  It has one claim at a time, so its name stands for the values *)
(* its claim goes by, the lock value and started_at, the fencing token.    *)
(* A step is what lies between two awaits.                                 *)
(***************************************************************************)
EXTENDS Integers, Sequences, FiniteSets

CONSTANTS
    Consumers, Replayers,
    Events,
    Log,            \* the partition: a sequence of events
    NoOne,          \* NULL
    Orphan,         \* a lock whose holder is gone, or does not know of it
    Bus,            \* TRUE: the consumer was given an EventBus (setEventBus)
    MaxReplays,     \* MAX_REPLAY_ATTEMPTS
    MaxMoves,       \* bound: times the partition is taken from a live consumer
    MaxFaults       \* bound: crashes, lapsed locks, failed and lost calls

Workers == Consumers \cup Replayers

ASSUME ConsumerAssumption ==
    /\ Consumers \cap Replayers = {}
    /\ Log \in Seq(Events)
    /\ NoOne \notin Workers \cup Events
    /\ Orphan \notin Workers \cup {NoOne}
    /\ Bus \in BOOLEAN
    /\ MaxReplays \in Nat /\ MaxMoves \in Nat /\ MaxFaults \in Nat

VARIABLES
    owner, offset,  \* the partition's consumer, and its committed offset
    position,       \* per consumer: the offset up to which it has worked
    row,            \* kafka_processed_events; `stale` is whether started_at is
                    \* more than DEFAULT_STALE_PROCESSING_MS ago
    lock,           \* per event: the value of its key in Redis
    letters,        \* kafka_dead_letters
    job,            \* what each worker is at
    effects,        \* history: times the handlers took effect
    dropped,        \* history: events with a letter that was not stored
    unsent,         \* history: events whose fan-out to the EventBus failed
    moves, faults, lapses, crashes

partition == <<owner, offset, position, moves>>
history == <<effects, dropped, unsent>>
counts == <<faults, lapses, crashes>>
vars == <<partition, row, lock, letters, job, history, counts>>

Statuses == {"none", "processing", "completed", "failed"}
Letter == [event : Events, status : {"pending", "replayed", "failed"},
           retries : Nat]
Entry == [id : Nat, retries : Nat]      \* a letter as listPending read it

Places == {"idle", "next", "lock", "insert", "read", "reclaim", "handle",
           "store", "fan", "mark", "unlock", "status", "close", "recount", "final", "done"}

\* `then` is where a worker goes on after it has released the lock; `saw` is
\* existing.status; `ok` is ~handlerFailed; `claimed` is claimedEventId; `quits`
\* says that an error is on its way out of replayDeadLetters.
Idle == [at |-> "idle", then |-> "idle", event |-> NoOne, saw |-> "none",
         ok |-> TRUE, claimed |-> FALSE, quits |-> FALSE,
         todo |-> {}, entry |-> [id |-> 0, retries |-> 0]]
Jobs == [at : Places, then : Places, event : Events \cup {NoOne}, saw : Statuses,
         ok : BOOLEAN, claimed : BOOLEAN, quits : BOOLEAN,
         todo : SUBSET Entry, entry : Entry]

Init ==
    /\ owner = NoOne /\ offset = 0
    /\ position = [c \in Consumers |-> 0]
    /\ row = [e \in Events |-> [status |-> "none", by |-> NoOne, stale |-> FALSE]]
    /\ lock = [e \in Events |-> NoOne]
    /\ letters = <<>>
    /\ job = [w \in Workers |-> Idle]
    /\ effects = [e \in Events |-> 0]
    /\ dropped = {} /\ unsent = {}
    /\ moves = 0 /\ faults = 0 /\ lapses = 0 /\ crashes = 0

-----------------------------------------------------------------------------
(* Steps of a worker                                                       *)

Goes(w, place) == job' = [job EXCEPT ![w].at = place]
GoesOn(w, place) ==
    job' = [job EXCEPT ![w].at = "unlock", ![w].then = place, ![w].saw = "none"]

\* What comes after a claim that was not made, or that failed.
Skips(w) == IF w \in Consumers THEN "done" ELSE "status"
\* Mutant: the consumer swallows the error, and consumeMessages sees none.
GivesUpQuietly(w) == IF w \in Consumers THEN "done" ELSE "recount"
GivesUp(w) == IF w \in Consumers THEN "final" ELSE "recount"

Fault ==
    /\ faults < MaxFaults
    /\ faults' = faults + 1
NoFault == UNCHANGED counts
OtherFault == Fault /\ UNCHANGED <<lapses, crashes>>

-----------------------------------------------------------------------------
(* Kafka: kafka.config.js consumeMessages on kafkajs                       *)

\* The group gives the partition to a consumer, which goes on at the committed
\* offset.  The one that had it may be alive and at work on a message.
Assign(c) ==
    /\ owner # c /\ job[c].at = "idle"
    /\ owner # NoOne => moves < MaxMoves
    /\ owner' = c
    /\ position' = [position EXCEPT ![c] = offset]
    /\ moves' = moves + (IF owner = NoOne THEN 0 ELSE 1)
    /\ UNCHANGED <<offset, row, lock, letters, job, history, counts>>

\* eachMessage.
Deliver(c) ==
    /\ owner = c /\ job[c].at = "idle" /\ position[c] < Len(Log)
    /\ job' = [job EXCEPT ![c].at = "lock", ![c].event = Log[position[c] + 1]]
    /\ UNCHANGED <<partition, row, lock, letters, history, counts>>

\* eachMessage has returned: errors never get out of it, so the message is
\* behind the consumer, if it still has the partition.
Resolve(c) ==
    /\ job[c].at = "done"
    /\ job' = [job EXCEPT ![c] = Idle]
    /\ position' = IF owner = c THEN [position EXCEPT ![c] = @ + 1] ELSE position
    /\ UNCHANGED <<owner, offset, moves, row, lock, letters, history, counts>>

\* autoCommit.
Commit(c) ==
    /\ owner = c /\ offset # position[c]
    /\ offset' = position[c]
    /\ UNCHANGED <<owner, position, moves, row, lock, letters, job, history, counts>>

-----------------------------------------------------------------------------
(* claimProcessing                                                         *)

\* Mutant: SET without NX.
FreeAlways(e) == TRUE
Free(e) == lock[e] = NoOne

\* acquireLock: SET NX PX; without Redis the claim goes on without a lock.
AcquireLock(w) ==
    LET e == job[w].event IN
    /\ job[w].at = "lock"
    /\ \/ /\ Free(e)
          /\ lock' = [lock EXCEPT ![e] = w]
          /\ Goes(w, "insert")
          /\ NoFault
       \/ /\ ~Free(e)
          /\ Goes(w, Skips(w))
          /\ NoFault /\ UNCHANGED lock
       \/ /\ lock' \in {lock, [lock EXCEPT ![e] = IF @ = NoOne THEN Orphan ELSE @]}
          /\ Goes(w, "insert")
          /\ Fault
          /\ lapses' = lapses + 1 /\ UNCHANGED crashes
    /\ UNCHANGED <<partition, row, letters, history>>

Claimed(w) ==
    [row EXCEPT ![job[w].event] =
        [status |-> "processing", by |-> w, stale |-> FALSE]]
HasClaim(w) ==
    job' = [job EXCEPT ![w].at = "handle", ![w].claimed = TRUE, ![w].saw = "none"]

\* A statement of the claim throws, perhaps after it took effect.
ClaimFails(w, effect) ==
    /\ row' \in {row, effect}
    /\ GoesOn(w, GivesUp(w))
    /\ OtherFault

\* The upsert with ignoreDuplicates.
Insert(w) ==
    LET fresh == row[job[w].event].status = "none" IN
    /\ job[w].at = "insert"
    /\ \/ fresh /\ row' = Claimed(w) /\ HasClaim(w) /\ NoFault
       \/ ~fresh /\ Goes(w, "read") /\ NoFault /\ UNCHANGED row
       \/ ClaimFails(w, IF fresh THEN Claimed(w) ELSE row)
    /\ UNCHANGED <<partition, lock, letters, history>>

\* Mutant: what has been completed may be claimed again.
TakenInHand(r) == r.status = "processing" /\ ~r.stale
\* Completed, or in somebody's hands and not stale, is left alone.
Taken(r) == r.status = "completed" \/ (r.status = "processing" /\ ~r.stale)

\* The SELECT.
Read(w) ==
    LET r == row[job[w].event] IN
    /\ job[w].at = "read"
    /\ \/ Taken(r) /\ GoesOn(w, Skips(w)) /\ NoFault /\ UNCHANGED row
       \/ /\ ~Taken(r)
          /\ job' = [job EXCEPT ![w].at = "reclaim", ![w].saw = r.status]
          /\ NoFault /\ UNCHANGED row
       \/ ClaimFails(w, row)
    /\ UNCHANGED <<partition, lock, letters, history>>

\* The UPDATE, if the status is still the one that was read.
Reclaim(w) ==
    LET same == row[job[w].event].status = job[w].saw IN
    /\ job[w].at = "reclaim"
    /\ \/ same /\ row' = Claimed(w) /\ HasClaim(w) /\ NoFault
       \/ ~same /\ GoesOn(w, Skips(w)) /\ NoFault /\ UNCHANGED row
       \/ ClaimFails(w, IF same THEN Claimed(w) ELSE row)
    /\ UNCHANGED <<partition, lock, letters, history>>

\* releaseLock: it deletes the key if it has this worker's value, and never
\* throws.  A lock that could not be deleted lives until its TTL ends.
ReleaseLock(w) ==
    LET e == job[w].event
        held == lock[e] = w
    IN
    /\ job[w].at = "unlock"
    /\ job' = [job EXCEPT ![w].at = job[w].then, ![w].then = "idle"]
    /\ \/ lock' = [lock EXCEPT ![e] = IF held THEN NoOne ELSE @] /\ NoFault
       \/ held /\ lock' = [lock EXCEPT ![e] = Orphan] /\ OtherFault
    /\ UNCHANGED <<partition, row, letters, history>>

-----------------------------------------------------------------------------
(* The handlers, and what became of them                                   *)

\* Where a consumer goes on after the handlers, and the letters they cost.
AfterHandlers == IF Bus THEN "fan" ELSE "mark"

\* The handlers return, or throw, perhaps after they took effect.
Handle(w) ==
    LET e == job[w].event
        took == [effects EXCEPT ![e] = @ + 1]
        throws == job' = [job EXCEPT ![w].ok = FALSE,
                    ![w].at = IF w \in Consumers THEN "store" ELSE "recount"]
    IN
    /\ job[w].at = "handle"
    /\ \/ /\ effects' = took /\ NoFault
          /\ Goes(w, IF w \in Consumers THEN AfterHandlers ELSE "close")
       \/ throws /\ NoFault /\ UNCHANGED effects
       \/ throws /\ effects' = took /\ OtherFault
    /\ UNCHANGED <<partition, row, lock, letters, dropped, unsent>>

\* storeDeadLetter: after a handler's error, or by consumeMessages for an error
\* that came out of messageHandler.  deadLetterRepository.store never throws; an
\* error before it is one more way for the letter not to be stored.
StoreDeadLetter(c) ==
    LET e == job[c].event IN
    /\ job[c].at \in {"store", "final"}
    /\ Goes(c, IF job[c].at = "store" THEN AfterHandlers ELSE "done")
    /\ \/ /\ letters' = Append(letters, [event |-> e, status |-> "pending",
                                         retries |-> 0])
          /\ NoFault /\ UNCHANGED dropped
       \/ dropped' = dropped \cup {e} /\ OtherFault /\ UNCHANGED letters
    /\ UNCHANGED <<partition, row, lock, effects, unsent>>

\* The event goes on to the EventBus.  If that throws the claim is failed, and no
\* letter is stored.
FanOut(c) ==
    /\ job[c].at = "fan"
    /\ \/ Goes(c, "mark") /\ NoFault /\ UNCHANGED unsent
       \/ /\ job' = [job EXCEPT ![c].at = "mark", ![c].ok = FALSE]
          /\ unsent' = unsent \cup {job[c].event} /\ OtherFault
    /\ UNCHANGED <<partition, row, lock, letters, effects, dropped>>

\* Where a worker goes on after markCompleted or markFailed.
AfterMark(w) ==
    IF w \in Consumers THEN "done" ELSE IF job[w].quits THEN "idle" ELSE "next"

\* Mutant: the finally completes the claim whatever the handlers did.
OutcomeAlways(w) == "completed"
Outcome(w) == IF job[w].ok THEN "completed" ELSE "failed"

\* markCompleted and markFailed: fenced by started_at; the lock is released
\* whatever happens.  A consumer's error makes consumeMessages store a letter.
Mark(w) ==
    LET e == job[w].event
        mark == IF row[e].status = "processing" /\ row[e].by = w
                THEN [row EXCEPT ![e].status = Outcome(w)]
                ELSE row
    IN
    /\ job[w].at = "mark"
    /\ \/ row' = mark /\ GoesOn(w, AfterMark(w)) /\ NoFault
       \/ /\ row' \in {row, mark} /\ OtherFault
          /\ GoesOn(w, IF w \in Consumers THEN "final" ELSE AfterMark(w))
    /\ UNCHANGED <<partition, lock, letters, history>>

-----------------------------------------------------------------------------
(* replayDeadLetters                                                       *)

Pending == {i \in DOMAIN letters : letters[i].status = "pending"}

\* listPending.
ListPending(w) ==
    /\ job[w].at = "idle" /\ Pending # {}
    /\ job' = [job EXCEPT ![w].at = "next",
                 ![w].todo = {[id |-> i, retries |-> letters[i].retries] : i \in Pending}]
    /\ UNCHANGED <<partition, row, lock, letters, history, counts>>

\* The next letter, or the end.
NextLetter(w) ==
    /\ job[w].at = "next"
    /\ \/ job[w].todo = {} /\ job' = [job EXCEPT ![w] = Idle]
       \/ \E t \in job[w].todo :
             job' = [job EXCEPT ![w] = [Idle EXCEPT
                        !.at = "lock", !.event = letters[t.id].event,
                        !.todo = job[w].todo \ {t}, !.entry = t]]
    /\ UNCHANGED <<partition, row, lock, letters, history, counts>>

\* getStatus of an event that could not be claimed.  An error ends the replay.
GetStatus(w) ==
    /\ job[w].at = "status"
    /\ \/ /\ Goes(w, IF row[job[w].event].status = "completed" THEN "close" ELSE "next")
          /\ NoFault
       \/ job' = [job EXCEPT ![w] = Idle] /\ OtherFault
    /\ UNCHANGED <<partition, row, lock, letters, history>>

\* markStatus(replayed).
Close(w) ==
    LET closed == [letters EXCEPT ![job[w].entry.id].status = "replayed"] IN
    /\ job[w].at = "close"
    /\ \/ letters' = closed /\ NoFault
          /\ Goes(w, IF job[w].claimed THEN "mark" ELSE "next")
       \/ /\ letters' \in {letters, closed} /\ OtherFault
          /\ job' = IF job[w].claimed
                    THEN [job EXCEPT ![w].at = "recount", ![w].ok = FALSE]
                    ELSE [job EXCEPT ![w] = Idle]
    /\ UNCHANGED <<partition, row, lock, history>>

\* markStatus(failed), or pending with one retry more (its read and its write
\* as one step).
Recount(w) ==
    LET t == job[w].entry
        counted == IF t.retries >= MaxReplays
                   THEN [letters EXCEPT ![t.id].status = "failed"]
                   ELSE [letters EXCEPT ![t.id].status = "pending", ![t.id].retries = @ + 1]
    IN
    /\ job[w].at = "recount"
    /\ \/ letters' = counted /\ NoFault
          /\ Goes(w, IF job[w].claimed THEN "mark" ELSE "next")
       \/ /\ letters' \in {letters, counted} /\ OtherFault
          /\ job' = IF job[w].claimed
                    THEN [job EXCEPT ![w].at = "mark", ![w].quits = TRUE]
                    ELSE [job EXCEPT ![w] = Idle]
    /\ UNCHANGED <<partition, row, lock, history>>

-----------------------------------------------------------------------------
(* Time and failures                                                       *)

\* A claim grows old.
GrowsStale(e) ==
    /\ row[e].status = "processing" /\ ~row[e].stale
    /\ row' = [row EXCEPT ![e].stale = TRUE]
    /\ UNCHANGED <<partition, lock, letters, job, history, counts>>

\* LOCK_TTL_MS of a lock that nobody renews.
OrphanExpires(e) ==
    /\ lock[e] = Orphan
    /\ lock' = [lock EXCEPT ![e] = NoOne]
    /\ UNCHANGED <<partition, row, letters, job, history, counts>>

\* A lock runs out under its holder: its renewals failed or came late.
LockLapses(e) ==
    /\ lock[e] \in Workers
    /\ lock' = [lock EXCEPT ![e] = NoOne]
    /\ Fault /\ lapses' = lapses + 1 /\ UNCHANGED crashes
    /\ UNCHANGED <<partition, row, letters, job, history>>

\* A process dies and is started again.
Crash(w) ==
    /\ job[w].at # "idle"
    /\ Fault /\ crashes' = crashes + 1 /\ UNCHANGED lapses
    /\ job' = [job EXCEPT ![w] = Idle]
    /\ lock' = [e \in Events |-> IF lock[e] = w THEN Orphan ELSE lock[e]]
    /\ owner' = IF owner = w THEN NoOne ELSE owner
    /\ UNCHANGED <<offset, position, moves, row, letters, history>>

-----------------------------------------------------------------------------

ClaimStep(w) == AcquireLock(w) \/ Insert(w) \/ Read(w) \/ Reclaim(w) \/ ReleaseLock(w)
Step(w) == ClaimStep(w) \/ Handle(w) \/ Mark(w)

ConsumerStep(c) ==
    Step(c) \/ Deliver(c) \/ Resolve(c) \/ Commit(c) \/ StoreDeadLetter(c) \/ FanOut(c)
ReplayStep(w) ==
    Step(w) \/ ListPending(w) \/ NextLetter(w) \/ GetStatus(w) \/ Close(w) \/ Recount(w)

Next ==
    \/ \E c \in Consumers : ConsumerStep(c) \/ Assign(c)
    \/ \E w \in Replayers : ReplayStep(w)
    \/ \E e \in Events : GrowsStale(e) \/ OrphanExpires(e) \/ LockLapses(e)
    \/ \E w \in Workers : Crash(w)

Spec == Init /\ [][Next]_vars

-----------------------------------------------------------------------------
(* Properties                                                              *)

\* Types; and nobody is at work without an event, or on a letter that is not.
TypeOK ==
    /\ owner \in Consumers \cup {NoOne} /\ offset \in 0 .. Len(Log)
    /\ position \in [Consumers -> 0 .. Len(Log)]
    /\ row \in [Events -> [status : Statuses, by : Workers \cup {NoOne}, stale : BOOLEAN]]
    /\ lock \in [Events -> Workers \cup {NoOne, Orphan}]
    /\ letters \in Seq(Letter)
    /\ job \in [Workers -> Jobs]
    /\ \A w \in Workers : job[w].at \notin {"idle", "next"} => job[w].event \in Events
    /\ effects \in [Events -> Nat] /\ dropped \subseteq Events
    /\ unsent \subseteq Events
    /\ moves \in Nat /\ faults \in Nat /\ lapses \in Nat /\ crashes \in Nat

Handlers(e) == {w \in Workers : job[w].at = "handle" /\ job[w].event = e}

\* "The side effect is never applied twice concurrently"
\* (processedEvent.repository.js:166-167): each further handler that runs at the
\* same time has a lock that was lost, or not to be had, although the UPDATE
\* alone lets any number of reclaimers of a stale claim win.
HandlersNeedLapses == \A e \in Events : Cardinality(Handlers(e)) <= 1 + lapses

\* However often an event is delivered, replayed and reclaimed, its handlers
\* take effect once, and once more for each fault.  A lost lock counts twice: its
\* worker may take a claim from another one, and lose it to a third.
EffectsNeedFaults == \A e \in Events : effects[e] <= 1 + faults + lapses

\* An event is only recorded as completed, and a dead letter as replayed, after
\* its handlers took effect (issue #11192, order.consumer.js:182-187).
DoneHadEffect ==
    /\ \A e \in Events : row[e].status = "completed" => effects[e] > 0
    /\ \A i \in DOMAIN letters :
          letters[i].status = "replayed" => effects[letters[i].event] > 0

\* What is left of an event that nobody works on, for somebody to find: unless a
\* worker died, a letter could not be stored, or the EventBus failed to take an
\* event that the handlers were done with, of which no letter is kept
\* (order.consumer.js:234-237).
Recorded(e) ==
    \/ row[e].status = "completed"
    \/ \E i \in DOMAIN letters : letters[i].event = e
    \/ Bus /\ e \in unsent /\ effects[e] > 0
    \/ e \in dropped \/ crashes > 0

\* The offset of a message is committed although its claim may have been refused
\* or have failed: the event is recorded, or a worker has it in hand.  Without
\* crashes and lost letters no more than its fan-out is lost, and nothing where
\* there is no EventBus.
NothingForgotten ==
    \A i \in 1 .. offset :
        \/ Recorded(Log[i])
        \/ \E w \in Workers : job[w].at # "idle" /\ job[w].event = Log[i]

-----------------------------------------------------------------------------
(* The inductive invariant                                                 *)

\* A consumer that will see its event recorded, if it lives; and one that has
\* claimed it before.
HasClaimed(c) ==
    \/ job[c].at \in {"handle", "store", "final"}
    \/ job[c].at \in {"fan", "mark"} /\ job[c].ok
    \/ job[c].at = "unlock" /\ job[c].then = "final"
SeesTo(c) == HasClaimed(c) \/ job[c].at \in {"insert", "read", "reclaim"}

Seen(e) == Recorded(e) \/ \E c \in Consumers : job[c].event = e /\ SeesTo(c)

\* A worker about to record an effect has seen one; and what it knows of the row.
WorkerInv(w) ==
    /\ job[w].at = "close" => effects[job[w].event] > 0
    /\ job[w].at \in {"fan", "mark"} /\ job[w].ok => effects[job[w].event] > 0
    /\ job[w].at = "store" => ~job[w].ok
    /\ job[w].at = "fan" => Bus
    /\ job[w].at = "recount" /\ job[w].claimed => ~job[w].ok
    /\ job[w].at \in {"read", "reclaim", "handle", "fan"} =>
          row[job[w].event].status # "none"
    /\ job[w].at = "reclaim" => job[w].saw \in {"processing", "failed"}

\* Whatever makes a worker leave an event alone says that it is seen to.
RowInv(e) ==
    /\ row[e].status = "failed" => Recorded(e)
    /\ row[e].status = "processing" =>
          \/ Recorded(e)
          \/ \E c \in Consumers : row[e].by = c /\ job[c].event = e /\ HasClaimed(c)
    /\ lock[e] # NoOne => Seen(e)

ConsumerInv(c) ==
    /\ job[c].at = "done" => Seen(job[c].event)
    /\ job[c].at = "unlock" =>
          /\ job[c].then \in {"done", "final"}
          /\ job[c].then = "done" => Seen(job[c].event)
    /\ job[c].at \in {"fan", "mark"} /\ ~job[c].ok => Recorded(job[c].event)
    /\ job[c].at = "reclaim" /\ job[c].saw = "failed" => Recorded(job[c].event)
    /\ job[c].at \in {"store", "mark"} => row[job[c].event].status # "none"
    /\ job[c].at \in {"idle", "lock", "insert", "read", "reclaim", "handle"} => job[c].ok

\* A replayed event has its letter; a claim is known as one's own only when it is.
ReplayInv(w) ==
    /\ \A t \in job[w].todo : t.id \in DOMAIN letters
    /\ job[w].at \notin {"idle", "next"} =>
          /\ job[w].entry.id \in DOMAIN letters
          /\ letters[job[w].entry.id].event = job[w].event
    /\ job[w].at \in {"lock", "insert", "read", "reclaim"} => ~job[w].claimed
    /\ job[w].at \in {"lock", "insert", "read", "reclaim", "handle"} => job[w].ok
    /\ job[w].at = "unlock" =>
          /\ job[w].then \in {"status", "recount", "next", "idle"}
          /\ job[w].then = "recount" => ~job[w].claimed

\* The consumer of the partition is at the message after those it has resolved.
OffsetInv ==
    /\ \A i \in 1 .. offset : Seen(Log[i])
    /\ owner # NoOne =>
          /\ \A i \in 1 .. position[owner] : Seen(Log[i])
          /\ job[owner].at # "idle" =>
                position[owner] < Len(Log) /\ job[owner].event = Log[position[owner] + 1]

EventsInv ==
    /\ TypeOK /\ DoneHadEffect
    /\ \A w \in Workers : WorkerInv(w)
    /\ \A e \in Events : RowInv(e)
    /\ \A c \in Consumers : ConsumerInv(c)
    /\ \A w \in Replayers : ReplayInv(w)
    /\ OffsetInv

-----------------------------------------------------------------------------
(* The registry as a queue of deliveries                                   *)

\* A claim that failed, or that its holder left behind, leaves an event queued.
StageOf(s) ==
    CASE s = "none" -> "none"
      [] s = "completed" -> "done"
      [] OTHER -> "queued"

Registry == INSTANCE DeliveryQueue
                WITH stage <- [e \in Events |-> StageOf(row[e].status)],
                     sent <- effects

\* Although consumers and replays take stale and failed claims from each other
\* while their holders live, an event is entered once, its handlers run only
\* when it has been, and it is done, once and for ever, after they took effect.
KeepsRegistry == Registry!QSafety
=============================================================================
