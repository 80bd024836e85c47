------------------------- MODULE OutboxClaimsProofs --------------------------
(***************************************************************************)
(* Who holds what in OutboxPipeline, for any number of processes, cycles,  *)
(* relays and faults: a process runs one cycle at a time, a stopped one    *)
(* begins none, no two relays work under the same claim, as long as only   *)
(* fenced relays run no row leaves a claim that is not settling it, and    *)
(* each repeated delivery has a fault of its own.                          *)
(***************************************************************************)
EXTENDS OutboxProofs, FiniteSetTheorems

-----------------------------------------------------------------------------
(* Cycles and generations                                                  *)

\* A cycle that runs is the one its process knows of.
RunningInv == \A c \in Cycles : at[c] # "idle" => running[ProcOf[c]]

\* The callbacks that wait are of generations up to the present one, and a
\* stopped process has none of the present one.
TimerInv ==
    \A p \in Procs :
        /\ \A g \in callbacks[p] : g <= gen[p]
        /\ ~timer[p] => gen[p] \notin callbacks[p]

CycleInv == RelayOK /\ RunningInv /\ OneCyclePerProcess /\ TimerInv

\* What Start and Fire do to the cycles.
LEMMA RunKeepsOne ==
    ASSUME CycleInv, RelayOK', NEW p \in Procs, NEW g \in Nat, Run(p, g)
    PROVE  /\ RunningInv' /\ OneCyclePerProcess'
           /\ \A c \in Cycles : at[c] = "idle" /\ at'[c] # "idle" =>
                 ProcOf[c] = p /\ g = gen'[p]
<1> USE DEF CycleInv
<1>1. CASE ~MayRun(p, g)
  BY <1>1 DEF Run, RunningInv, OneCyclePerProcess, cycle
<1>2. CASE MayRun(p, g)
  <2>1. PICK c \in Cycles : /\ ProcOf[c] = p
                            /\ at' = [at EXCEPT ![c] = "sweep"]
                            /\ running' = [running EXCEPT ![p] = TRUE]
    BY <1>2 DEF Run, CyclesOf
  <2>2. g = gen'[p] /\ ~running[p]
    BY <1>2 DEF MayRun
  <2>3. /\ at'[c] = "sweep" /\ \A d \in Cycles \ {c} : at'[d] = at[d]
        /\ \A q \in Procs : running'[q] = (q = p \/ running[q])
    BY <2>1 DEF RelayOK
  <2>4. \A d \in Cycles : ProcOf[d] = p => at[d] = "idle"
    BY <2>2 DEF RunningInv
  <2>5. \A d \in Cycles : at'[d] # "idle" => at[d] # "idle" \/ d = c
    BY <2>3
  <2>6. RunningInv'
    BY <2>1, <2>3, <2>5, RelayAssumption DEF RunningInv
  <2>7. OneCyclePerProcess'
    BY <2>1, <2>4, <2>5 DEF OneCyclePerProcess
  <2> QED
    BY <2>1, <2>2, <2>5, <2>6, <2>7
<1> QED
  BY <1>1, <1>2

\* A cycle goes on, or ends.
LEMMA StepKeepsOne ==
    ASSUME CycleInv, RelayOK', NEW c \in Cycles, Step(c)
    PROVE  /\ CycleInv'
           /\ \A d \in Cycles : at[d] = "idle" => at'[d] = "idle"
<1> USE DEF CycleInv
<1>1. at[c] # "idle" /\ \A d \in Cycles \ {c} : at'[d] = at[d]
  BY DEF Step, Sweep, Claim, Loop, Renew, Publish, Settle, Finish, Continue,
         Report, Goto, RelayOK
<1>2. UNCHANGED <<gen, timer, callbacks>>
  BY DEF Step, Sweep, Claim, Loop, Renew, Publish, Settle, Finish, Continue,
         Report, Goto, process
<1>3. TimerInv'
  BY <1>2 DEF TimerInv
<1>4. OneCyclePerProcess'
  BY <1>1 DEF OneCyclePerProcess
<1>5. CASE Finish(c)
  <2>1. /\ at'[c] = "idle"
        /\ \A p \in Procs \ {ProcOf[c]} : running'[p] = running[p]
    BY <1>5 DEF Finish, RelayOK
  <2>2. \A d \in Cycles \ {c} : at[d] # "idle" => ProcOf[d] # ProcOf[c]
    BY <1>1 DEF OneCyclePerProcess
  <2>3. RunningInv'
    BY <1>1, <2>1, <2>2, RelayAssumption DEF RunningInv
  <2> QED
    BY <1>1, <1>3, <1>4, <2>3
<1>6. CASE ~Finish(c)
  <2>1. running' = running
    BY <1>6 DEF Step, Sweep, Claim, Loop, Renew, Publish, Settle, Continue,
                Report, Goto, process
  <2>2. RunningInv'
    BY <1>1, <2>1 DEF RunningInv
  <2> QED
    BY <1>1, <1>3, <1>4, <2>2
<1> QED
  BY <1>5, <1>6

\* A process starts, stops or dies, or its interval fires.
LEMMA ProcessKeepsOne ==
    ASSUME CycleInv, RelayOK', NEW p \in Procs,
           \/ Start(p) \/ Stop(p) \/ Crash(p)
           \/ \E g \in callbacks[p] : Fire(p, g)
    PROVE  /\ CycleInv'
           /\ \A c \in Cycles : at[c] = "idle" /\ at'[c] # "idle" =>
                 timer'[ProcOf[c]]
<1> USE DEF CycleInv
<1>1. CASE Start(p)
  <2>1. gen[p] + 1 \in Nat /\ Run(p, gen[p] + 1)
    BY <1>1 DEF Start, RelayOK
  <2>2. /\ gen'[p] = gen[p] + 1 /\ timer'[p]
        /\ callbacks'[p] = callbacks[p] \cup {gen[p] + 1}
        /\ \A q \in Procs \ {p} : /\ gen'[q] = gen[q] /\ timer'[q] = timer[q]
                                  /\ callbacks'[q] = callbacks[q]
    BY <1>1 DEF Start, RelayOK
  <2>3. TimerInv'
    BY <2>2 DEF TimerInv, RelayOK
  <2> QED
    BY <2>1, <2>2, <2>3, RunKeepsOne
<1>2. CASE \E g \in callbacks[p] : Fire(p, g)
  <2>1. PICK g \in callbacks[p] : Fire(p, g)
    BY <1>2
  <2>2. g \in Nat /\ Run(p, g) /\ UNCHANGED <<gen, timer, callbacks>>
    BY <2>1 DEF Fire, RelayOK
  <2>3. TimerInv'
    BY <2>2 DEF TimerInv
  <2>4. g = gen[p] => timer[p]
    BY DEF TimerInv
  <2> QED
    BY <2>2, <2>3, <2>4, RunKeepsOne
<1>3. CASE Stop(p)
  <2>1. /\ gen'[p] = gen[p] + 1 /\ callbacks' = callbacks
        /\ \A q \in Procs \ {p} : gen'[q] = gen[q] /\ timer'[q] = timer[q]
        /\ UNCHANGED <<running, at>>
    BY <1>3 DEF Stop, RelayOK, cycle
  <2>2. TimerInv'
    BY <2>1 DEF TimerInv, RelayOK
  <2> QED
    BY <2>1, <2>2 DEF RunningInv, OneCyclePerProcess
<1>4. CASE Crash(p)
  <2>1. /\ gen'[p] = 0 /\ callbacks'[p] = {}
        /\ \A q \in Procs \ {p} : /\ gen'[q] = gen[q] /\ timer'[q] = timer[q]
                                  /\ callbacks'[q] = callbacks[q]
                                  /\ running'[q] = running[q]
        /\ \A c \in Cycles :
              at'[c] = IF ProcOf[c] = p THEN "idle" ELSE at[c]
    BY <1>4 DEF Crash, RelayOK, CyclesOf
  <2>2. TimerInv'
    BY <2>1 DEF TimerInv
  <2>3. RunningInv' /\ OneCyclePerProcess'
    BY <2>1, RelayAssumption DEF RunningInv, OneCyclePerProcess
  <2> QED
    BY <2>1, <2>2, <2>3
<1> QED
  BY <1>1, <1>2, <1>3, <1>4

LEMMA CyclesStep ==
    ASSUME CycleInv, RelayOK', [Next]_vars
    PROVE  /\ CycleInv'
           /\ \A c \in Cycles : at[c] = "idle" /\ at'[c] # "idle" =>
                 timer'[ProcOf[c]]
<1>1. CASE UNCHANGED relay
  BY <1>1 DEF CycleInv, RunningInv, OneCyclePerProcess, TimerInv, relay,
              process, cycle
<1>2. CASE RelayNext
  BY <1>2, ProcessKeepsOne, StepKeepsOne DEF RelayNext
<1> QED
  BY <1>1, <1>2 DEF Next, Insert, Expire, vars

LEMMA CyclesInit == Init => CycleInv
<1> SUFFICES ASSUME Init PROVE CycleInv
  OBVIOUS
<1>1. RelayOK
  BY InvInit DEF OutboxInv, TypeOK
<1> QED
  BY <1>1, RelayAssumption
     DEF Init, RelayInit, CycleInv, RunningInv, OneCyclePerProcess, TimerInv

LEMMA CyclesInvariance == ASSUME BumpsToNat PROVE Spec => [](CycleInv /\ RelayOK)
<1>1. OutboxInv' => RelayOK'
  BY DEF OutboxInv, TypeOK
<1>2. CycleInv /\ OutboxInv' /\ [Next]_vars => CycleInv'
  BY <1>1, CyclesStep
<1>3. CycleInv => RelayOK
  BY DEF CycleInv
<1> QED
  BY <1>2, <1>3, CyclesInit, Invariance, PTL DEF Spec

\* Across stops, restarts, crashes and late callbacks, a process never has two
\* cycles under way (_cycleRunning and the generation, outboxRelayWorker.js).
THEOREM OneCycle == ASSUME BumpsToNat PROVE Spec => []OneCyclePerProcess
<1>1. CycleInv => OneCyclePerProcess
  BY DEF CycleInv
<1> QED
  BY <1>1, CyclesInvariance, PTL

\* Whatever callbacks were captured before it, a stop is not followed by a new
\* cycle until the worker is started again (stopOutboxRelayWorker).
THEOREM StoppedStays == ASSUME BumpsToNat PROVE Spec => StoppedBeginsNothing
<1>1. CycleInv /\ RelayOK' /\ [Next]_vars =>
        [\A c \in Cycles : at[c] = "idle" /\ at'[c] # "idle"
                           => timer'[ProcOf[c]]]_vars
  BY CyclesStep
<1> QED
  BY <1>1, CyclesInvariance, PTL DEF Spec, StoppedBeginsNothing

-----------------------------------------------------------------------------
(* Claims                                                                  *)

\* An attempt is a new number.
BumpsUp == \A n \in Nat : Bumped(n) \in Nat /\ Bumped(n) > n

\* No claim is of a later attempt than its row's.
ClaimsOld ==
    /\ \A c \in Cycles : \A cl \in Held(c) : cl[2] <= rows[cl[1]].attempts
    /\ \A f \in Forwarders : \A cl \in FHeld(f) : cl[2] <= rows[cl[1]].attempts

ClaimsInv == ClaimsOld /\ ClaimsAreExclusive

\* The attempts of a row that exists never go down.
AttemptsGrow ==
    \A e \in Events : rows[e].status # "none" =>
                         rows'[e].attempts >= rows[e].attempts

\* What is held are claims, of rows that exist.
LEMMA HeldAreClaims ==
    ASSUME OutboxInv
    PROVE  /\ \A c \in Cycles : \A cl \in Held(c) :
                 cl \in Claims /\ cl[1] \in Events /\ rows[cl[1]].status # "none"
           /\ \A f \in Forwarders : \A cl \in FHeld(f) :
                 cl \in Claims /\ cl[1] \in Events /\ rows[cl[1]].status # "none"
  BY DEF OutboxInv, TypeOK, RelayOK, ForwarderOK, RelayHonest, ForwarderHonest,
         Held, FHeld, InHand, Inserted, Claims

\* Nothing new is held.
NothingTaken ==
    /\ \A c \in Cycles : Held(c)' \subseteq Held(c)
    /\ \A f \in Forwarders : FHeld(f)' \subseteq FHeld(f)

LEMMA NothingTakenStep ==
    ASSUME OutboxInv, OutboxInv', ClaimsInv, AttemptsGrow, NothingTaken
    PROVE  ClaimsInv'
<1>1. \A e \in Events : rows[e].attempts \in Nat /\ rows'[e].attempts \in Nat
  BY DEF OutboxInv, TypeOK, TableOK, Rows
<1>2. ClaimsOld'
  <2>1. ASSUME NEW c \in Cycles, NEW cl \in Held(c)'
        PROVE  cl[2] <= rows'[cl[1]].attempts
    <3>1. cl \in Held(c) /\ cl \in Claims /\ cl[1] \in Events
          /\ rows[cl[1]].status # "none"
      BY <2>1, HeldAreClaims DEF NothingTaken
    <3>2. cl[2] <= rows[cl[1]].attempts /\ cl[2] \in Nat
      BY <3>1 DEF ClaimsInv, ClaimsOld, Claims
    <3>3. rows'[cl[1]].attempts >= rows[cl[1]].attempts
      BY <3>1 DEF AttemptsGrow
    <3> QED
      BY <1>1, <3>1, <3>2, <3>3
  <2>2. ASSUME NEW f \in Forwarders, NEW cl \in FHeld(f)'
        PROVE  cl[2] <= rows'[cl[1]].attempts
    <3>1. cl \in FHeld(f) /\ cl \in Claims /\ cl[1] \in Events
          /\ rows[cl[1]].status # "none"
      BY <2>2, HeldAreClaims DEF NothingTaken
    <3>2. cl[2] <= rows[cl[1]].attempts /\ cl[2] \in Nat
      BY <3>1 DEF ClaimsInv, ClaimsOld, Claims
    <3>3. rows'[cl[1]].attempts >= rows[cl[1]].attempts
      BY <3>1 DEF AttemptsGrow
    <3> QED
      BY <1>1, <3>1, <3>2, <3>3
  <2> QED
    BY <2>1, <2>2 DEF ClaimsOld
<1>3. ClaimsAreExclusive'
  BY DEF ClaimsInv, ClaimsAreExclusive, NothingTaken
<1> QED
  BY <1>2, <1>3 DEF ClaimsInv

\* A batch's claims are newer than every claim there is, and become their rows'.
LEMMA TicketsAreNew ==
    ASSUME BumpsUp, OutboxInv, ClaimsInv, NEW B \in SUBSET Claimable,
           rows' \in {rows, Taken(B)}
    PROVE  /\ AttemptsGrow
           /\ \A cl \in Tickets(B) :
                 /\ cl[2] = Taken(B)[cl[1]].attempts
                 /\ \A c \in Cycles : cl \notin Held(c)
                 /\ \A f \in Forwarders : cl \notin FHeld(f)
           /\ \A e \in Events : Taken(B)[e].attempts \in Nat
<1>1. \A e \in Events : rows[e].attempts \in Nat
  BY DEF OutboxInv, TypeOK, TableOK, Rows
<1>2. \A e \in Events :
          /\ Taken(B)[e].attempts \in Nat
          /\ Taken(B)[e].attempts >= rows[e].attempts
  BY <1>1 DEF BumpsUp, Taken
<1>3. ASSUME NEW cl \in Tickets(B)
      PROVE  /\ cl[2] = Taken(B)[cl[1]].attempts
             /\ cl[1] \in Events /\ cl[2] > rows[cl[1]].attempts
  <2>1. PICK e \in B : cl = <<e, Bumped(rows[e].attempts)>>
    BY <1>3 DEF Tickets
  <2>2. e \in Events
    BY DEF Claimable
  <2> QED
    BY <1>1, <2>1, <2>2 DEF BumpsUp, Taken
<1>4. ASSUME NEW cl \in Tickets(B)
      PROVE  /\ \A c \in Cycles : cl \notin Held(c)
             /\ \A f \in Forwarders : cl \notin FHeld(f)
  <2>1. cl[1] \in Events /\ cl[2] > rows[cl[1]].attempts
    BY <1>3
  <2>2. cl \in Claims => cl[2] \in Nat
    BY DEF Claims
  <2> QED
    BY <1>1, <2>1, <2>2, HeldAreClaims DEF ClaimsInv, ClaimsOld
<1> QED
  BY <1>1, <1>2, <1>3, <1>4 DEF AttemptsGrow

\* The API's relay.
LEMMA RelayTakesNothing ==
    ASSUME OutboxInv, RelayNext, NEW d \in Cycles, ~Claim(d) \/ UNCHANGED batch
    PROVE  Held(d)' \subseteq Held(d)
<1> USE DEF OutboxInv, TypeOK
<1>1. CASE UNCHANGED <<batch, claim>>
  BY <1>1 DEF Held, InHand
<1>2. ASSUME NEW p \in Procs, Crash(p) PROVE Held(d)' \subseteq Held(d)
  <2>1. /\ batch'[d] = batch[d] \/ batch'[d] = {}
        /\ claim'[d] = claim[d] \/ claim'[d] = NoClaim
    BY <1>2 DEF Crash
  <2> QED
    BY <2>1 DEF Held, InHand
<1>3. ASSUME NEW p \in Procs,
             Start(p) \/ Stop(p) \/ \E g \in callbacks[p] : Fire(p, g)
      PROVE  UNCHANGED <<batch, claim>>
  BY <1>3 DEF Start, Stop, Fire, Run, cycle
<1>4. ASSUME NEW c \in Cycles, Finish(c) \/ Continue(c)
      PROVE  Held(d)' \subseteq Held(d)
  <2>1. /\ batch'[d] = batch[d] \/ batch'[d] = {}
        /\ claim'[d] = claim[d] \/ claim'[d] = NoClaim
    BY <1>4 DEF Finish, Continue, RelayOK
  <2> QED
    BY <2>1 DEF Held, InHand
<1>5. ASSUME NEW c \in Cycles, Claim(c) PROVE Held(d)' \subseteq Held(d)
  <2>1. batch'[d] = batch[d] /\ claim' = claim
    BY <1>5 DEF Claim, RelayOK
  <2> QED
    BY <2>1 DEF Held, InHand
<1>6. ASSUME NEW c \in Cycles, Loop(c) PROVE Held(d)' \subseteq Held(d)
  <2>1. CASE Finish(c)
    BY <1>4, <2>1
  <2>2. CASE ~Finish(c)
    <3>1. PICK cl \in batch[c] : /\ claim' = [claim EXCEPT ![c] = cl]
                                 /\ batch' = [batch EXCEPT ![c] = @ \ {cl}]
      BY <1>6, <2>2 DEF Loop
    <3>2. \/ batch'[d] = batch[d] /\ claim'[d] = claim[d]
          \/ batch'[d] \subseteq batch[d] /\ claim'[d] \in batch[d]
      BY <3>1 DEF RelayOK
    <3> QED
      BY <3>2 DEF Held, InHand
  <2> QED
    BY <2>1, <2>2
<1>7. ASSUME NEW c \in Cycles, Sweep(c) \/ Renew(c) \/ Publish(c) \/ Settle(c)
      PROVE  UNCHANGED <<batch, claim>> \/ Finish(c) \/ Continue(c)
  BY <1>7 DEF Sweep, Renew, Publish, Settle, Report
<1> QED
  BY <1>1, <1>2, <1>3, <1>4, <1>5, <1>6, <1>7 DEF RelayNext, Step

\* A settlement leaves the attempts as they are.
LEMMA SettlementKeepsAttempts ==
    ASSUME TableOK, NEW cl \in Claims, NEW delivered \in BOOLEAN,
           rows' \in {rows, Settled(cl, delivered), Marked(cl, delivered)}
    PROVE  AttemptsGrow
<1>1. \A e \in Events : rows[e].attempts \in Nat
  BY DEF TableOK, Rows
<1>2. \A e \in Events : Verdict(cl[1], delivered)[e].attempts = rows[e].attempts
  BY DEF Verdict, TableOK
<1> QED
  BY <1>1, <1>2 DEF AttemptsGrow, Settled, Marked

LEMMA RelayAttempts ==
    ASSUME BumpsUp, OutboxInv, ClaimsInv, RelayNext
    PROVE  AttemptsGrow
<1> USE DEF OutboxInv, TypeOK
<1>1. CASE UNCHANGED rows
  BY <1>1 DEF AttemptsGrow, TableOK, Rows
<1>2. ASSUME NEW p \in Procs, \/ Start(p) \/ Stop(p) \/ Crash(p)
                              \/ \E g \in callbacks[p] : Fire(p, g)
      PROVE  UNCHANGED rows
  BY <1>2 DEF Start, Stop, Crash, Fire, table
<1>3. ASSUME NEW c \in Cycles, Sweep(c) \/ Loop(c) \/ Renew(c) \/ Publish(c)
      PROVE  UNCHANGED rows
  BY <1>3 DEF Sweep, Loop, Renew, Publish, table
<1>4. ASSUME NEW c \in Cycles, Claim(c) PROVE AttemptsGrow
  <2>1. PICK B \in Batches(Due) : rows' \in {rows, Taken(B)}
    BY <1>4 DEF Claim
  <2> QED
    BY <2>1, BatchesOf, TicketsAreNew
<1>5. ASSUME NEW c \in Cycles, Settle(c) PROVE AttemptsGrow
  <2>1. claim[c] \in Claims /\ ok[c] \in BOOLEAN
    BY <1>5, InHandIsClaim DEF Settle, RelayOK
  <2>2. \E delivered \in BOOLEAN : rows' \in {rows, Settled(claim[c], delivered)}
    BY <1>5, <2>1 DEF Settle
  <2> QED
    BY <2>1, <2>2, SettlementKeepsAttempts
<1> QED
  BY <1>1, <1>2, <1>3, <1>4, <1>5 DEF RelayNext, Step

LEMMA RelayClaims ==
    ASSUME BumpsUp, OutboxInv, OutboxInv', ClaimsInv, RelayNext,
           UNCHANGED forwarder
    PROVE  ClaimsInv'
<1>1. AttemptsGrow
  BY RelayAttempts
<1>2. \A f \in Forwarders : FHeld(f)' = FHeld(f)
  BY DEF FHeld, InHand, forwarder
<1>3. CASE \A d \in Cycles : ~Claim(d) \/ UNCHANGED batch
  BY <1>1, <1>2, <1>3, RelayTakesNothing, NothingTakenStep DEF NothingTaken
<1>4. CASE \E c \in Cycles : Claim(c) /\ ~UNCHANGED batch
  <2>1. PICK c \in Cycles : Claim(c) /\ batch' # batch
    BY <1>4
  <2>2. PICK B \in Batches(Due) : /\ rows' = Taken(B)
                                  /\ batch' = [batch EXCEPT ![c] = Tickets(B)]
    BY <2>1 DEF Claim
  <2>3. claim' = claim /\ claim[c] = NoClaim
    BY <2>1 DEF Claim, OutboxInv, TypeOK, RelayOK
  <2>4. Held(c)' = Tickets(B) /\ \A d \in Cycles \ {c} : Held(d)' = Held(d)
    BY <2>2, <2>3 DEF Held, InHand, OutboxInv, TypeOK, RelayOK
  <2>5. B \in SUBSET Claimable
    BY BatchesOf
  <2> HIDE DEF ClaimsInv
  <2>6. /\ \A cl \in Tickets(B) :
              /\ cl[2] = rows'[cl[1]].attempts /\ cl[2] \in Nat
              /\ \A d \in Cycles : cl \notin Held(d)
              /\ \A f \in Forwarders : cl \notin FHeld(f)
    <3>1. \A cl \in Tickets(B) : cl[1] \in Events
      BY <2>5 DEF Tickets, Claimable
    <3> QED
      BY <2>2, <2>5, <3>1, TicketsAreNew
  <2>7. \A e \in Events : rows[e].attempts \in Nat /\ rows'[e].attempts \in Nat
    BY DEF OutboxInv, TypeOK, TableOK, Rows
  <2>8. ASSUME NEW cl \in Claims, cl[1] \in Events, rows[cl[1]].status # "none",
               cl[2] <= rows[cl[1]].attempts
        PROVE  cl[2] <= rows'[cl[1]].attempts
    BY <1>1, <2>7, <2>8 DEF AttemptsGrow, Claims
  <2>9. ClaimsOld'
    <3>1. \A d \in Cycles : \A cl \in Held(d)' : cl[2] <= rows'[cl[1]].attempts
      BY <2>4, <2>6, <2>8, HeldAreClaims DEF ClaimsInv, ClaimsOld
    <3>2. \A f \in Forwarders : \A cl \in FHeld(f)' :
              cl[2] <= rows'[cl[1]].attempts
      BY <1>2, <2>8, HeldAreClaims DEF ClaimsInv, ClaimsOld
    <3> QED
      BY <3>1, <3>2 DEF ClaimsOld
  <2>10. ClaimsAreExclusive'
    BY <1>2, <2>4, <2>6 DEF ClaimsInv, ClaimsAreExclusive
  <2> QED
    BY <2>9, <2>10 DEF ClaimsInv
<1> QED
  BY <1>3, <1>4

\* The Kafka service's relay.
LEMMA ForwarderClaims ==
    ASSUME BumpsUp, OutboxInv, OutboxInv', ClaimsInv, ForwarderNext,
           UNCHANGED relay
    PROVE  ClaimsInv'
<1> USE DEF OutboxInv, TypeOK
<1>1. \A c \in Cycles : Held(c)' = Held(c)
  BY DEF Held, InHand, relay, cycle
<1>2. ASSUME NEW f \in Forwarders, NEW B \in SUBSET Events, Take(f, B)
      PROVE  ClaimsInv'
  <2>1. B \in SUBSET Claimable /\ rows' = Taken(B) /\ fClaim' = fClaim
        /\ fClaim[f] = NoClaim
    BY <1>2, BatchesOf DEF Take, ForwarderOK
  <2>2. AttemptsGrow
    BY <2>1, TicketsAreNew
  <2>3. CASE UNCHANGED fBatch
    <3>1. \A g \in Forwarders : FHeld(g)' = FHeld(g)
      BY <2>1, <2>3 DEF FHeld, InHand
    <3> QED
      BY <1>1, <2>2, <3>1, NothingTakenStep DEF NothingTaken
  <2>4. CASE fBatch' = [fBatch EXCEPT ![f] = Tickets(B)]
    <3>1. /\ FHeld(f)' = Tickets(B)
          /\ \A g \in Forwarders \ {f} : FHeld(g)' = FHeld(g)
      BY <2>1, <2>4 DEF FHeld, InHand, ForwarderOK
    <3>2. \A cl \in Tickets(B) : cl[1] \in Events
      BY <2>1 DEF Tickets, Claimable
    <3>3. \A cl \in Tickets(B) :
              /\ cl[2] = rows'[cl[1]].attempts /\ cl[2] \in Nat
              /\ \A c \in Cycles : cl \notin Held(c)
              /\ \A g \in Forwarders : cl \notin FHeld(g)
      BY <2>1, <3>2, TicketsAreNew
    <3>4. \A e \in Events : rows[e].attempts \in Nat /\ rows'[e].attempts \in Nat
      BY DEF TableOK, Rows
    <3>5. ASSUME NEW cl \in Claims, cl[1] \in Events,
                 rows[cl[1]].status # "none", cl[2] <= rows[cl[1]].attempts
          PROVE  cl[2] <= rows'[cl[1]].attempts
      BY <2>2, <3>4, <3>5 DEF AttemptsGrow, Claims
    <3>6. \A c \in Cycles : \A cl \in Held(c)' : cl[2] <= rows'[cl[1]].attempts
      BY <1>1, <3>5, HeldAreClaims DEF ClaimsInv, ClaimsOld
    <3>7. \A g \in Forwarders : \A cl \in FHeld(g)' :
              cl[2] <= rows'[cl[1]].attempts
      BY <3>1, <3>3, <3>5, HeldAreClaims DEF ClaimsInv, ClaimsOld
    <3>8. ClaimsAreExclusive'
      BY <1>1, <3>1, <3>3 DEF ClaimsInv, ClaimsAreExclusive
    <3> QED
      BY <3>6, <3>7, <3>8 DEF ClaimsInv, ClaimsOld
  <2> QED
    BY <1>2, <2>3, <2>4 DEF Take
<1>3. ASSUME NEW f \in Forwarders, ForwarderStep(f) \/ Exit(f)
      PROVE  ClaimsInv'
  <2>1. AttemptsGrow
    <3>1. CASE Mark(f)
      <4>1. fClaim[f] \in Claims /\ fOk[f] \in BOOLEAN
        BY <3>1, FInHandIsClaim DEF Mark, ForwarderOK
      <4>2. \E delivered \in BOOLEAN :
                rows' \in {rows, Marked(fClaim[f], delivered)}
        BY <3>1, <4>1 DEF Mark
      <4> QED
        BY <4>1, <4>2, SettlementKeepsAttempts
    <3>2. CASE ~Mark(f)
      <4>1. rows' = rows
        BY <1>3, <3>2 DEF ForwarderStep, Each, Forward, Exit, table
      <4>2. \A e \in Events : rows[e].attempts \in Nat
        BY DEF TableOK, Rows
      <4> QED
        BY <4>1, <4>2 DEF AttemptsGrow
    <3> QED
      BY <3>1, <3>2
  <2>2. \A g \in Forwarders :
            \/ fBatch'[g] = fBatch[g] /\ fClaim'[g] = fClaim[g]
            \/ fBatch'[g] \subseteq fBatch[g] /\ fClaim'[g] = NoClaim
            \/ fBatch'[g] \subseteq fBatch[g] /\ fClaim'[g] \in fBatch[g]
    BY <1>3 DEF ForwarderStep, Each, Forward, Mark, Exit, FContinue, FReport,
                ForwarderOK
  <2>3. \A g \in Forwarders : FHeld(g)' \subseteq FHeld(g)
    BY <2>2 DEF FHeld, InHand
  <2> QED
    BY <1>1, <2>1, <2>3, NothingTakenStep DEF NothingTaken
<1> QED
  BY <1>2, <1>3 DEF ForwarderNext

LEMMA ClaimsStep ==
    ASSUME BumpsUp, OutboxInv, OutboxInv', ClaimsInv, [Next]_vars
    PROVE  ClaimsInv'
<1>1. CASE UNCHANGED <<relay, forwarder>> /\ AttemptsGrow
  <2>1. NothingTaken
    BY <1>1 DEF NothingTaken, Held, FHeld, InHand, relay, cycle, forwarder
  <2> QED
    BY <1>1, <2>1, NothingTakenStep
<1>2. ASSUME NEW e \in Events, Insert(e) \/ Expire(e)
      PROVE  UNCHANGED <<relay, forwarder>> /\ AttemptsGrow
  <2>1. \A x \in Events : rows[x].attempts \in Nat
    BY DEF OutboxInv, TypeOK, TableOK, Rows
  <2>2. CASE Insert(e)
    BY <2>1, <2>2 DEF Insert, AttemptsGrow, OutboxInv, TypeOK, TableOK
  <2>3. CASE Expire(e)
    <3>1. rows' = [rows EXCEPT ![e] = [rows[e] EXCEPT !.due = TRUE]]
      BY <2>3 DEF Expire
    <3>2. \A x \in Events : rows'[x].attempts = rows[x].attempts
      BY <3>1 DEF OutboxInv, TypeOK, TableOK, Rows
    <3> QED
      BY <2>1, <2>3, <3>2 DEF Expire, AttemptsGrow
  <2> QED
    BY <1>2, <2>2, <2>3
<1>3. CASE UNCHANGED vars
  <2>1. AttemptsGrow
    BY <1>3 DEF vars, table, AttemptsGrow, OutboxInv, TypeOK, TableOK, Rows
  <2> QED
    BY <1>1, <1>3, <2>1 DEF vars
<1> QED
  BY <1>1, <1>2, <1>3, RelayClaims, ForwarderClaims DEF Next

LEMMA ClaimsInvariance ==
    ASSUME BumpsUp PROVE Spec => [](OutboxInv /\ ClaimsInv)
<1>1. BumpsToNat
  BY DEF BumpsUp, BumpsToNat
<1>2. Init => ClaimsInv
  BY DEF Init, RelayInit, ForwarderInit, ClaimsInv, ClaimsOld,
         ClaimsAreExclusive, Held, FHeld, InHand
<1>3. OutboxInv /\ OutboxInv' /\ ClaimsInv /\ [Next]_vars => ClaimsInv'
  BY ClaimsStep
<1> QED
  BY <1>1, <1>2, <1>3, Invariance, PTL DEF Spec

\* No two relays, old or new, ever work under the same claim: an attempt number
\* is given out once, whatever is lost and whoever restarts (both claim RPCs).
THEOREM OneHolder == ASSUME BumpsUp PROVE Spec => []ClaimsAreExclusive
<1>1. ClaimsInv => ClaimsAreExclusive
  BY DEF ClaimsInv
<1> QED
  BY <1>1, ClaimsInvariance, PTL

\* As long as every relay compares the attempt (no Kafka service's relay runs),
\* a row leaves a live claim only by the settlement of that claim
\* (settle_leased_outbox_event).
THEOREM ClaimHolds ==
    ASSUME BumpsUp, Forwarders = {} PROVE Spec => LiveClaimIsItsHolders
<1>1. ASSUME OutboxInv, ClaimsInv, Next,
             NEW c \in Cycles, NEW cl \in Held(c),
             Live(cl), rows'[cl[1]].status # "publishing"
      PROVE  at[c] = "settle" /\ claim[c] = cl
  <2> USE <1>1 DEF OutboxInv, TypeOK
  <2>1. cl \in Claims /\ cl[1] \in Events
    BY HeldAreClaims
  <2>2. rows[cl[1]].status = "publishing" /\ ~rows[cl[1]].due
        /\ rows[cl[1]].attempts = cl[2]
    BY DEF Live
  <2>3. ASSUME NEW e \in Events, Insert(e) \/ Expire(e) PROVE FALSE
    BY <2>1, <2>2, <2>3 DEF Insert, Expire, TableOK, Rows
  <2>4. ~UNCHANGED rows
    BY <2>2
  <2>5. ASSUME NEW p \in Procs, \/ Start(p) \/ Stop(p) \/ Crash(p)
                                \/ \E g \in callbacks[p] : Fire(p, g)
        PROVE  FALSE
    BY <2>4, <2>5 DEF Start, Stop, Crash, Fire, table
  <2>6. ASSUME NEW d \in Cycles, Sweep(d) \/ Loop(d) \/ Renew(d) \/ Publish(d)
        PROVE  FALSE
    BY <2>4, <2>6 DEF Sweep, Loop, Renew, Publish, table
  <2>7. ASSUME NEW d \in Cycles, Claim(d) PROVE FALSE
    BY <2>1, <2>2, <2>4, <2>7 DEF Claim, Taken
  <2>8. ~ForwarderNext
    BY DEF ForwarderNext
  <2>9. PICK d \in Cycles : Settle(d)
    BY <2>3, <2>5, <2>6, <2>7, <2>8 DEF Next, RelayNext, Step
  <2>10. claim[d] \in Claims /\ claim[d] \in Held(d) /\ at[d] = "settle"
    BY <2>9, InHandIsClaim DEF Settle, RelayOK, Held, InHand
  <2>11. \E delivered \in BOOLEAN : rows' = Settled(claim[d], delivered)
    BY <2>4, <2>9 DEF Settle, RelayOK
  <2>12. Live(claim[d]) /\ claim[d][1] = cl[1]
    BY <2>1, <2>2, <2>4, <2>10, <2>11 DEF Settled, Verdict, TableOK
  <2>13. claim[d] = cl
    BY <2>1, <2>2, <2>10, <2>12 DEF Live, Claims
  <2>14. c = d
    BY <2>10, <2>13 DEF ClaimsInv, ClaimsAreExclusive
  <2> QED
    BY <2>10, <2>13, <2>14
<1>2. ASSUME OutboxInv, ClaimsInv, [Next]_vars
      PROVE  [\A c \in Cycles : \A cl \in Held(c) :
                 Live(cl) /\ rows'[cl[1]].status # "publishing"
                 => at[c] = "settle" /\ claim[c] = cl]_vars
  BY <1>1, <1>2
<1> QED
  BY <1>2, ClaimsInvariance, PTL DEF Spec, LiveClaimIsItsHolders

-----------------------------------------------------------------------------
(* Repeats                                                                 *)

\* The claims a relay may still send under, or report as failed.
OpenAt(c) == batch[c] \cup (IF ok[c] THEN {} ELSE InHand(claim[c]))
FOpenAt(f) == fBatch[f] \cup (IF fOk[f] THEN {} ELSE InHand(fClaim[f]))

\* The claims of one event that are held, and that are open.
HeldFor(e) ==
    {cl \in Claims : /\ cl[1] = e
                     /\ \/ \E c \in Cycles : cl \in Held(c)
                        \/ \E f \in Forwarders : cl \in FHeld(f)}
OpenFor(e) ==
    {cl \in Claims : /\ cl[1] = e
                     /\ \/ \E c \in Cycles : cl \in OpenAt(c)
                        \/ \E f \in Forwarders : cl \in FOpenAt(f)}

\* Whether the event can be claimed without a further fault.
Room(e) ==
    IF \/ rows[e].status = "published"
       \/ /\ rows[e].status = "publishing" /\ ~rows[e].due
          /\ <<e, rows[e].attempts>> \in HeldFor(e)
    THEN 0 ELSE 1

\* The deliveries made, and those that open claims and a further one can still
\* make without a fault, have a fault each but for one.
Fits ==
    \A e \in Events :
        /\ IsFiniteSet(OpenFor(e))
        /\ deliveries[e] + Cardinality(OpenFor(e)) + Room(e) <= 1 + faults

\* The claim in hand is out of the batch, and a batch is gone before the next.
Tidy ==
    /\ \A c \in Cycles :
          /\ \A cl \in batch[c] : cl # claim[c]
          /\ at[c] \in {"idle", "sweep", "claim"} => batch[c] = {}
    /\ \A f \in Forwarders :
          /\ \A cl \in fBatch[f] : cl # fClaim[f]
          /\ fAt[f] = "poll" => fBatch[f] = {}

\* A step that keeps the balance for e: a delivery uses up an open claim or has
\* a fault, and so on.
Balanced(e) ==
    \/ /\ OpenFor(e)' \subseteq OpenFor(e) /\ deliveries'[e] = deliveries[e]
       /\ \/ faults' = faults + 1
          \/ faults' = faults /\ Room(e)' <= Room(e)
          \/ faults' = faults /\ \E x \in OpenFor(e) : x \notin OpenFor(e)'
    \/ /\ deliveries'[e] = deliveries[e] + 1 /\ Room(e)' <= Room(e)
       /\ \/ /\ faults' = faults
             /\ \E x \in OpenFor(e) : OpenFor(e)' \subseteq OpenFor(e) \ {x}
          \/ faults' = faults + 1 /\ OpenFor(e)' \subseteq OpenFor(e)
    \/ /\ deliveries'[e] = deliveries[e]
       /\ \E x : OpenFor(e)' \subseteq OpenFor(e) \cup {x}
       /\ \/ faults' = faults + 1 /\ Room(e)' <= Room(e)
          \/ faults' = faults /\ Room(e) = 1 /\ Room(e)' = 0

LEMMA RoomType == \A e \in Events : Room(e) \in {0, 1} /\ Room(e)' \in {0, 1}
  BY DEF Room

LEMMA SizeOfSubset ==
    ASSUME NEW S, IsFiniteSet(S), NEW T
    PROVE  /\ T \subseteq S => /\ IsFiniteSet(T) /\ Cardinality(T) \in Nat
                               /\ Cardinality(T) <= Cardinality(S)
           /\ \A x : T \subseteq S \ {x} /\ x \in S =>
                 /\ IsFiniteSet(T) /\ Cardinality(T) \in Nat
                 /\ Cardinality(T) + 1 <= Cardinality(S)
           /\ \A x : T \subseteq S \cup {x} =>
                 /\ IsFiniteSet(T) /\ Cardinality(T) \in Nat
                 /\ Cardinality(T) <= Cardinality(S) + 1
<1>1. ASSUME T \subseteq S
      PROVE  IsFiniteSet(T) /\ Cardinality(T) \in Nat /\ Cardinality(T) <= Cardinality(S)
  <2>1. T \in SUBSET S
    BY <1>1
  <2> QED
    BY <2>1, FS_Subset, FS_CardinalityType
<1>2. ASSUME NEW x \in S, T \subseteq S \ {x}
      PROVE  /\ IsFiniteSet(T) /\ Cardinality(T) \in Nat
             /\ Cardinality(T) + 1 <= Cardinality(S)
  <2>1. /\ IsFiniteSet(S \ {x}) /\ Cardinality(S \ {x}) = Cardinality(S) - 1
        /\ Cardinality(S) \in Nat
    BY FS_RemoveElement, FS_CardinalityType
  <2>2. T \in SUBSET (S \ {x})
    BY <1>2
  <2>3. IsFiniteSet(T) /\ Cardinality(T) <= Cardinality(S \ {x})
    BY <2>1, <2>2, FS_Subset
  <2> QED
    BY <2>1, <2>3, FS_CardinalityType
<1>3. ASSUME NEW x, T \subseteq S \cup {x}
      PROVE  /\ IsFiniteSet(T) /\ Cardinality(T) \in Nat
             /\ Cardinality(T) <= Cardinality(S) + 1
  <2>1. /\ IsFiniteSet(S \cup {x}) /\ Cardinality(S \cup {x}) <= Cardinality(S) + 1
        /\ Cardinality(S) \in Nat /\ Cardinality(S \cup {x}) \in Nat
    BY FS_AddElement, FS_CardinalityType
  <2>2. T \in SUBSET (S \cup {x})
    BY <1>3
  <2>3. IsFiniteSet(T) /\ Cardinality(T) <= Cardinality(S \cup {x})
    BY <2>1, <2>2, FS_Subset
  <2> QED
    BY <2>1, <2>3, FS_CardinalityType
<1> QED
  BY <1>1, <1>2, <1>3

LEMMA BalancedFits ==
    ASSUME OutboxInv, OutboxInv', Fits, \A e \in Events : Balanced(e)
    PROVE  Fits'
<1> SUFFICES ASSUME NEW e \in Events
             PROVE  /\ IsFiniteSet(OpenFor(e)')
                    /\ deliveries'[e] + Cardinality(OpenFor(e)') + Room(e)' <= 1 + faults'
  BY DEF Fits, OpenFor, Claims
<1> DEFINE S == OpenFor(e)
           T == OpenFor(e)'
           n == Cardinality(S)
           m == Cardinality(T)
           r == Room(e)
           s == Room(e)'
           d == deliveries[e]
<1>1. IsFiniteSet(S) /\ n \in Nat /\ d + n + r <= 1 + faults
  BY FS_CardinalityType DEF Fits
<1>2. d \in Nat /\ faults \in Nat /\ r \in {0, 1} /\ s \in {0, 1}
  BY RoomType DEF OutboxInv, TypeOK, TableOK
<1>3. Balanced(e)
  OBVIOUS
<1>4. \/ /\ T \subseteq S /\ deliveries'[e] = d
         /\ \/ faults' = faults + 1
            \/ faults' = faults /\ s <= r
            \/ faults' = faults /\ \E x \in S : x \notin T
      \/ /\ deliveries'[e] = d + 1 /\ s <= r
         /\ \/ faults' = faults /\ \E x \in S : T \subseteq S \ {x}
            \/ faults' = faults + 1 /\ T \subseteq S
      \/ /\ deliveries'[e] = d /\ \E x : T \subseteq S \cup {x}
         /\ \/ faults' = faults + 1 /\ s <= r
            \/ faults' = faults /\ r = 1 /\ s = 0
  BY <1>3 DEF Balanced
<1> HIDE DEF S, T, r, s, d
<1>5. ASSUME T \subseteq S
      PROVE  IsFiniteSet(T) /\ deliveries'[e] + m + s <= 1 + faults'
  <2>1. IsFiniteSet(T) /\ m \in Nat /\ m <= n
    BY <1>1, <1>5, SizeOfSubset
  <2>2. (\E x \in S : x \notin T) => m + 1 <= n
    <3> SUFFICES ASSUME NEW x \in S, x \notin T PROVE m + 1 <= n
      OBVIOUS
    <3>1. T \subseteq S \ {x}
      BY <1>5
    <3> QED
      BY <1>1, <3>1, SizeOfSubset
  <2>3. (\E x \in S : T \subseteq S \ {x}) => \E x \in S : x \notin T
    OBVIOUS
  <2>4. (\E x : T \subseteq S \cup {x}) => m <= n + 1
    BY <1>1, SizeOfSubset
  <2> HIDE DEF m, n
  <2> QED
    BY <1>1, <1>2, <1>4, <2>1, <2>2, <2>3
<1>6. ASSUME ~(T \subseteq S)
      PROVE  IsFiniteSet(T) /\ deliveries'[e] + m + s <= 1 + faults'
  <2>1. /\ deliveries'[e] = d /\ \E x : T \subseteq S \cup {x}
        /\ \/ faults' = faults + 1 /\ s <= r
           \/ faults' = faults /\ r = 1 /\ s = 0
    BY <1>4, <1>6
  <2>2. IsFiniteSet(T) /\ m \in Nat /\ m <= n + 1
    BY <1>1, <2>1, SizeOfSubset
  <2> HIDE DEF m, n
  <2> QED
    BY <1>1, <1>2, <2>1, <2>2
<1>7. IsFiniteSet(T) /\ deliveries'[e] + m + s <= 1 + faults'
  BY <1>5, <1>6
<1> QED
  BY <1>7 DEF T, s

\* What is open is held.
LEMMA OpenIsHeld ==
    /\ \A c \in Cycles : OpenAt(c) \subseteq Held(c)
    /\ \A f \in Forwarders : FOpenAt(f) \subseteq FHeld(f)
    /\ \A e : OpenFor(e) \subseteq HeldFor(e)
<1>1. /\ \A c \in Cycles : OpenAt(c) \subseteq Held(c)
      /\ \A f \in Forwarders : FOpenAt(f) \subseteq FHeld(f)
  BY DEF OpenAt, FOpenAt, Held, FHeld
<1> QED
  BY <1>1 DEF OpenFor, HeldFor

\* No relay opens a claim.
OpensNone ==
    /\ \A c \in Cycles : OpenAt(c)' \subseteq OpenAt(c)
    /\ \A f \in Forwarders : FOpenAt(f)' \subseteq FOpenAt(f)

\* And a claim that is let go was open, or was `x`.
LetsGo(x) ==
    /\ \A c \in Cycles : \A cl \in Held(c) : cl \in Held(c)' \cup OpenAt(c) \cup {x}
    /\ \A f \in Forwarders :
          \A cl \in FHeld(f) : cl \in FHeld(f)' \cup FOpenAt(f) \cup {x}

LEMMA OpensNoneFor ==
    ASSUME OpensNone
    PROVE  \A e \in Events : OpenFor(e)' \subseteq OpenFor(e)
  BY DEF OpensNone, OpenFor, Claims

\* Room for another claim comes only with an open one that was let go.
LEMMA RoomFromOpen ==
    ASSUME OpensNone, NEW x, LetsGo(x), NEW e \in Events, rows'[e] = rows[e],
           \/ rows[e].status # "publishing" \/ rows[e].due
           \/ <<e, rows[e].attempts>> # x
    PROVE  \/ Room(e)' <= Room(e)
           \/ \E y \in OpenFor(e) : y \notin OpenFor(e)'
<1> SUFFICES ASSUME ~(Room(e)' <= Room(e))
             PROVE  \E y \in OpenFor(e) : y \notin OpenFor(e)'
  OBVIOUS
<1>1. Room(e) = 0 /\ Room(e)' = 1
  BY RoomType
<1> DEFINE y == <<e, rows[e].attempts>>
<1>2. /\ rows[e].status = "publishing" /\ ~rows[e].due
      /\ y \in HeldFor(e) /\ y \notin HeldFor(e)'
  BY <1>1 DEF Room
<1>3. y # x /\ y \in Claims /\ y[1] = e
  BY <1>2 DEF HeldFor
<1>4. /\ \A c \in Cycles : y \notin Held(c)'
      /\ \A f \in Forwarders : y \notin FHeld(f)'
  BY <1>2, <1>3 DEF HeldFor, Claims
<1>5. y \in OpenFor(e)
  BY <1>2, <1>3, <1>4 DEF HeldFor, LetsGo, OpenFor
<1>6. y \notin OpenFor(e)'
  <2>1. /\ \A c \in Cycles : OpenAt(c)' \subseteq Held(c)'
        /\ \A f \in Forwarders : FOpenAt(f)' \subseteq FHeld(f)'
    BY DEF OpenAt, FOpenAt, Held, FHeld
  <2> QED
    BY <1>4, <2>1 DEF OpenFor
<1> QED
  BY <1>5, <1>6

\* A step without a fault that leaves rows and deliveries alone.
LEMMA LetsGoBalanced ==
    ASSUME OpensNone, LetsGo(NoClaim), UNCHANGED table
    PROVE  \A e \in Events : Balanced(e)
<1> SUFFICES ASSUME NEW e \in Events PROVE Balanced(e)
  OBVIOUS
<1>1. <<e, rows[e].attempts>> # NoClaim
  <2>1. Len(<<e, rows[e].attempts>>) = 2 /\ Len(<<>>) = 0
    OBVIOUS
  <2> QED
    BY <2>1 DEF NoClaim
<1>2. /\ OpenFor(e)' \subseteq OpenFor(e)
      /\ \/ Room(e)' <= Room(e)
         \/ \E y \in OpenFor(e) : y \notin OpenFor(e)'
  BY <1>1, OpensNoneFor, RoomFromOpen DEF table
<1> QED
  BY <1>2 DEF Balanced, table

\* A fault pays for what is let go.
LEMMA FaultBalanced ==
    ASSUME OpensNone, UNCHANGED deliveries, Fault
    PROVE  \A e \in Events : Balanced(e)
  BY OpensNoneFor DEF Balanced, Fault

\* A claim in hand is nobody else's, and not in the batch.
LEMMA Alone ==
    ASSUME OutboxInv, ClaimsInv, Tidy
    PROVE  /\ \A c \in Cycles : claim[c] \in Claims =>
                 /\ \A d \in Cycles \ {c} : claim[c] \notin Held(d)
                 /\ \A f \in Forwarders : claim[c] \notin FHeld(f)
                 /\ claim[c] \notin batch[c] /\ InHand(claim[c]) = {claim[c]}
           /\ \A f \in Forwarders : fClaim[f] \in Claims =>
                 /\ \A g \in Forwarders \ {f} : fClaim[f] \notin FHeld(g)
                 /\ \A c \in Cycles : fClaim[f] \notin Held(c)
                 /\ fClaim[f] \notin fBatch[f] /\ InHand(fClaim[f]) = {fClaim[f]}
<1>1. ASSUME NEW cl \in Claims PROVE InHand(cl) = {cl}
  BY ClaimIsSomething DEF InHand
<1>2. ASSUME NEW c \in Cycles, claim[c] \in Claims
      PROVE  /\ \A d \in Cycles \ {c} : claim[c] \notin Held(d)
             /\ \A f \in Forwarders : claim[c] \notin FHeld(f)
             /\ claim[c] \notin batch[c]
  <2>1. claim[c] \in Held(c)
    BY <1>1, <1>2 DEF Held
  <2> QED
    BY <1>2, <2>1 DEF ClaimsInv, ClaimsAreExclusive, Tidy
<1>3. ASSUME NEW f \in Forwarders, fClaim[f] \in Claims
      PROVE  /\ \A g \in Forwarders \ {f} : fClaim[f] \notin FHeld(g)
             /\ \A c \in Cycles : fClaim[f] \notin Held(c)
             /\ fClaim[f] \notin fBatch[f]
  <2>1. fClaim[f] \in FHeld(f)
    BY <1>1, <1>3 DEF FHeld
  <2> QED
    BY <1>3, <2>1 DEF ClaimsInv, ClaimsAreExclusive, Tidy
<1> QED
  BY <1>1, <1>2, <1>3

\* What a cycle's step does to the sets.
LEMMA ContinueSets ==
    ASSUME RelayOK, NEW c \in Cycles, Continue(c), UNCHANGED forwarder
    PROVE  /\ \A d \in Cycles \ {c} : OpenAt(d)' = OpenAt(d) /\ Held(d)' = Held(d)
           /\ \A f \in Forwarders : FOpenAt(f)' = FOpenAt(f) /\ FHeld(f)' = FHeld(f)
           /\ OpenAt(c)' = batch[c] /\ Held(c)' = batch[c]
<1>1. /\ batch' = batch /\ claim'[c] = NoClaim
      /\ \A d \in Cycles \ {c} : claim'[d] = claim[d] /\ ok'[d] = ok[d]
  BY DEF Continue, RelayOK
<1> QED
  BY <1>1 DEF OpenAt, Held, FOpenAt, FHeld, InHand, forwarder

LEMMA ReportSets ==
    ASSUME RelayOK, NEW c \in Cycles, NEW delivered \in BOOLEAN,
           Report(c, delivered), UNCHANGED forwarder
    PROVE  /\ \A d \in Cycles \ {c} : OpenAt(d)' = OpenAt(d)
           /\ \A d \in Cycles : Held(d)' = Held(d)
           /\ \A f \in Forwarders : FOpenAt(f)' = FOpenAt(f) /\ FHeld(f)' = FHeld(f)
           /\ OpenAt(c)' = batch[c] \cup (IF delivered THEN {} ELSE InHand(claim[c]))
<1>1. /\ batch' = batch /\ claim' = claim /\ ok' = [ok EXCEPT ![c] = delivered]
  BY DEF Report
<1>2. ok'[c] = delivered /\ \A d \in Cycles \ {c} : ok'[d] = ok[d]
  BY <1>1 DEF RelayOK
<1> QED
  BY <1>1, <1>2 DEF OpenAt, Held, FOpenAt, FHeld, InHand, forwarder

LEMMA FinishSets ==
    ASSUME RelayOK, NEW c \in Cycles, Finish(c), UNCHANGED forwarder
    PROVE  OpensNone /\ (~ok[c] => LetsGo(NoClaim))
<1>1. /\ claim' = claim /\ ok' = ok /\ batch'[c] = {}
      /\ \A d \in Cycles \ {c} : batch'[d] = batch[d]
  BY DEF Finish, RelayOK
<1> QED
  BY <1>1 DEF OpensNone, LetsGo, OpenAt, Held, FOpenAt, FHeld, InHand, forwarder

\* Nothing moves.
LEMMA SetsStay ==
    ASSUME UNCHANGED <<batch, claim, ok, forwarder>>
    PROVE  OpensNone /\ LetsGo(NoClaim)
  BY DEF OpensNone, LetsGo, OpenAt, Held, FOpenAt, FHeld, InHand, forwarder

\* The same of a step of one relay that has nothing delivered to report.
LEMMA UnreportedSets ==
    /\ \A c \in Cycles :
          /\ ~ok[c] /\ OpenAt(c)' \subseteq OpenAt(c) /\ UNCHANGED forwarder
          /\ \A d \in Cycles \ {c} : OpenAt(d)' = OpenAt(d) /\ Held(d)' = Held(d)
          => OpensNone /\ LetsGo(NoClaim)
    /\ \A f \in Forwarders :
          /\ ~fOk[f] /\ FOpenAt(f)' \subseteq FOpenAt(f) /\ UNCHANGED relay
          /\ \A g \in Forwarders \ {f} : FOpenAt(g)' = FOpenAt(g) /\ FHeld(g)' = FHeld(g)
          => OpensNone /\ LetsGo(NoClaim)
<1>1. ASSUME NEW c \in Cycles,
             ~ok[c], OpenAt(c)' \subseteq OpenAt(c), UNCHANGED forwarder,
             \A d \in Cycles \ {c} : OpenAt(d)' = OpenAt(d) /\ Held(d)' = Held(d)
      PROVE  OpensNone /\ LetsGo(NoClaim)
  <2>1. Held(c) = OpenAt(c)
    BY <1>1 DEF Held, OpenAt
  <2>2. \A f \in Forwarders : FOpenAt(f)' = FOpenAt(f) /\ FHeld(f)' = FHeld(f)
    BY <1>1 DEF FOpenAt, FHeld, InHand, forwarder
  <2> QED
    BY <1>1, <2>1, <2>2 DEF OpensNone, LetsGo
<1>2. ASSUME NEW f \in Forwarders,
             ~fOk[f], FOpenAt(f)' \subseteq FOpenAt(f), UNCHANGED relay,
             \A g \in Forwarders \ {f} : FOpenAt(g)' = FOpenAt(g) /\ FHeld(g)' = FHeld(g)
      PROVE  OpensNone /\ LetsGo(NoClaim)
  <2>1. FHeld(f) = FOpenAt(f)
    BY <1>2 DEF FHeld, FOpenAt
  <2>2. \A c \in Cycles : OpenAt(c)' = OpenAt(c) /\ Held(c)' = Held(c)
    BY <1>2 DEF OpenAt, Held, InHand, relay, cycle
  <2> QED
    BY <1>2, <2>1, <2>2 DEF OpensNone, LetsGo
<1> QED
  BY <1>1, <1>2

\* Nobody lets a claim go.
HeldStays ==
    /\ \A c \in Cycles : Held(c)' = Held(c)
    /\ \A f \in Forwarders : FHeld(f)' = FHeld(f)

\* A batch is claimed: each row of it had room, and has an open claim instead.
LEMMA TakenBalanced ==
    ASSUME BumpsUp, OutboxInv, NEW B \in SUBSET Claimable, rows' = Taken(B),
           UNCHANGED <<deliveries, faults>>,
           \A c \in Cycles : /\ OpenAt(c)' \subseteq OpenAt(c) \cup Tickets(B)
                             /\ Held(c) \subseteq Held(c)',
           \A f \in Forwarders : /\ FOpenAt(f)' \subseteq FOpenAt(f) \cup Tickets(B)
                                 /\ FHeld(f) \subseteq FHeld(f)',
           \A cl \in Tickets(B) : \/ \E c \in Cycles : cl \in Held(c)'
                                  \/ \E f \in Forwarders : cl \in FHeld(f)'
    PROVE  \A e \in Events : Balanced(e)
<1> SUFFICES ASSUME NEW e \in Events PROVE Balanced(e)
  OBVIOUS
<1>1. rows[e].attempts \in Nat
  BY DEF OutboxInv, TypeOK, TableOK, Rows
<1>2. CASE e \in B
  <2> DEFINE x == <<e, Bumped(rows[e].attempts)>>
  <2>1. x \in Tickets(B) /\ x \in Claims /\ x[1] = e
    BY <1>1, <1>2 DEF Tickets, Claims, BumpsUp
  <2>2. rows'[e].status = "publishing" /\ ~rows'[e].due
        /\ <<e, rows'[e].attempts>> = x
    BY <1>2 DEF Taken
  <2>3. \A cl \in Tickets(B) : cl[1] = e => cl = x
    BY DEF Tickets
  <2> HIDE DEF x
  <2>4. x \in HeldFor(e)'
    BY <2>1 DEF HeldFor, Claims
  <2>5. Room(e)' = 0
    BY <2>2, <2>4 DEF Room
  <2>6. Room(e) = 1
    BY <1>2 DEF Room, Claimable
  <2>7. OpenFor(e)' \subseteq OpenFor(e) \cup {x}
    BY <2>3 DEF OpenFor, Claims
  <2> QED
    BY <2>5, <2>6, <2>7 DEF Balanced
<1>3. CASE e \notin B
  <2>1. rows'[e] = rows[e]
    BY <1>3 DEF Taken
  <2>2. \A cl \in Tickets(B) : cl[1] # e
    BY <1>3 DEF Tickets
  <2>3. OpenFor(e)' \subseteq OpenFor(e)
    BY <2>2 DEF OpenFor, Claims
  <2>4. HeldFor(e) \subseteq HeldFor(e)'
    BY DEF HeldFor, Claims
  <2>5. Room(e)' <= Room(e)
    BY <2>1, <2>4 DEF Room
  <2> QED
    BY <2>3, <2>5 DEF Balanced
<1> QED
  BY <1>2, <1>3

LEMMA RoomStays ==
    ASSUME HeldStays, NEW e \in Events,
           rows'[e] = rows[e] \/ rows'[e].status = "published"
    PROVE  Room(e)' <= Room(e)
<1>1. HeldFor(e)' = HeldFor(e)
  BY DEF HeldFor, HeldStays, Claims
<1>2. CASE rows'[e] = rows[e]
  BY <1>1, <1>2 DEF Room
<1>3. CASE rows'[e].status = "published"
  BY <1>3, RoomType DEF Room
<1> QED
  BY <1>2, <1>3

\* The broker takes an event under the claim x.
LEMMA SentBalanced ==
    ASSUME OutboxInv, NEW x \in Claims, Sent(x[1]), UNCHANGED rows,
           OpensNone, HeldStays,
           \/ NoFault /\ x \in OpenFor(x[1]) /\ x \notin OpenFor(x[1])'
           \/ Fault
    PROVE  \A e \in Events : Balanced(e)
<1> SUFFICES ASSUME NEW e \in Events PROVE Balanced(e)
  OBVIOUS
<1>1. OpenFor(e)' \subseteq OpenFor(e) /\ Room(e)' <= Room(e)
  BY OpensNoneFor, RoomStays
<1>2. CASE e # x[1]
  <2>1. deliveries'[e] = deliveries[e]
    BY <1>2 DEF Sent, OutboxInv, TypeOK, TableOK
  <2> QED
    BY <1>1, <2>1 DEF Balanced, Fault, NoFault
<1>3. CASE e = x[1]
  <2>1. deliveries'[e] = deliveries[e] + 1
    BY <1>3 DEF Sent, OutboxInv, TypeOK, TableOK
  <2>2. CASE Fault
    BY <1>1, <2>1, <2>2 DEF Balanced, Fault
  <2>3. CASE NoFault /\ x \in OpenFor(e) /\ x \notin OpenFor(e)'
    <3>1. OpenFor(e)' \subseteq OpenFor(e) \ {x}
      BY <1>1, <2>3
    <3> QED
      BY <1>1, <2>1, <2>3, <3>1 DEF Balanced, NoFault
  <2> QED
    BY <1>3, <2>2, <2>3
<1> QED
  BY <1>2, <1>3

\* A settlement of the claim x, which is let go.
LEMMA SettledBalanced ==
    ASSUME OutboxInv, NEW x \in Claims, NEW delivered \in BOOLEAN,
           rows' \in {Settled(x, delivered), Marked(x, delivered)},
           UNCHANGED deliveries, NoFault, OpensNone, LetsGo(x),
           ~delivered => x \in OpenFor(x[1]) /\ x \notin OpenFor(x[1])'
    PROVE  \A e \in Events : Balanced(e)
<1> SUFFICES ASSUME NEW e \in Events PROVE Balanced(e)
  OBVIOUS
<1>1. OpenFor(e)' \subseteq OpenFor(e) /\ deliveries'[e] = deliveries[e]
      /\ faults' = faults
  BY OpensNoneFor DEF NoFault
<1>2. x[1] \in Events /\ x = <<x[1], x[2]>>
  BY DEF Claims
<1>3. ASSUME rows'[e] = rows[e],
             \/ rows[e].status # "publishing" \/ rows[e].due
             \/ <<e, rows[e].attempts>> # x
      PROVE  Balanced(e)
  BY <1>1, <1>3, RoomFromOpen DEF Balanced
<1>4. CASE e # x[1]
  <2>1. rows'[e] = rows[e]
    BY <1>2, <1>4 DEF Settled, Marked, Verdict, OutboxInv, TypeOK, TableOK
  <2>2. <<e, rows[e].attempts>> # x
    BY <1>2, <1>4
  <2> QED
    BY <1>3, <2>1, <2>2
<1>5. CASE e = x[1] /\ ~delivered
  BY <1>1, <1>5 DEF Balanced
<1>6. CASE e = x[1] /\ delivered
  <2>1. CASE rows' = rows
    <3>1. ~Live(x) \/ rows[e].status # "publishing" \/ rows'[e].status = "published"
      BY <1>2, <1>6, <2>1 DEF Settled, Marked, Verdict, OutboxInv, TypeOK, TableOK
    <3>2. \/ rows[e].status # "publishing" \/ rows[e].due
          \/ <<e, rows[e].attempts>> # x
      BY <1>2, <1>6, <2>1, <3>1 DEF Live
    <3> QED
      BY <1>3, <2>1, <3>2
  <2>2. CASE rows' # rows
    <3>1. rows'[e].status = "published"
      BY <1>2, <1>6, <2>2 DEF Settled, Marked, Verdict, OutboxInv, TypeOK, TableOK
    <3>2. Room(e)' <= Room(e)
      BY <3>1, RoomType DEF Room
    <3> QED
      BY <1>1, <3>2 DEF Balanced
  <2> QED
    BY <2>1, <2>2
<1> QED
  BY <1>4, <1>5, <1>6

\* A settlement as delivered fails, and will be tried as failed.
LEMMA ReopenedBalanced ==
    ASSUME OutboxInv, NEW x \in Claims,
           rows' \in {rows, Settled(x, TRUE), Marked(x, TRUE)},
           UNCHANGED deliveries, Fault, HeldStays,
           \A c \in Cycles : OpenAt(c)' \subseteq OpenAt(c) \cup {x},
           \A f \in Forwarders : FOpenAt(f)' \subseteq FOpenAt(f) \cup {x}
    PROVE  \A e \in Events : Balanced(e)
<1> SUFFICES ASSUME NEW e \in Events PROVE Balanced(e)
  OBVIOUS
<1>1. rows'[e] = rows[e] \/ rows'[e].status = "published"
  BY DEF Settled, Marked, Verdict, OutboxInv, TypeOK, TableOK, Claims
<1>2. Room(e)' <= Room(e)
  BY <1>1, RoomStays
<1>3. OpenFor(e)' \subseteq OpenFor(e) \cup {x}
  BY DEF OpenFor, Claims
<1> QED
  BY <1>2, <1>3 DEF Balanced, Fault

-----------------------------------------------------------------------------
(* The steps, and what they do to the balance                              *)

LEMMA ProcessBalanced ==
    ASSUME OutboxInv, UNCHANGED forwarder, NEW p \in Procs,
           \/ Start(p) \/ Stop(p) \/ Crash(p)
           \/ \E g \in callbacks[p] : Fire(p, g)
    PROVE  \A e \in Events : Balanced(e)
<1>1. CASE Crash(p)
  <2>1. ASSUME NEW c \in Cycles
        PROVE  OpenAt(c)' \subseteq OpenAt(c)
    <3>1. CASE c \in CyclesOf(p)
      BY <1>1, <3>1 DEF Crash, OpenAt, InHand
    <3>2. CASE c \notin CyclesOf(p)
      BY <1>1, <3>2 DEF Crash, OpenAt, InHand
    <3> QED
      BY <3>1, <3>2
  <2>2. \A f \in Forwarders : FOpenAt(f)' = FOpenAt(f)
    BY DEF FOpenAt, InHand, forwarder
  <2>3. OpensNone
    BY <2>1, <2>2 DEF OpensNone
  <2> QED
    BY <1>1, <2>3, FaultBalanced DEF Crash
<1>2. CASE ~Crash(p)
  <2>1. UNCHANGED <<batch, claim, ok>> /\ UNCHANGED table
    BY <1>2 DEF Start, Stop, Fire, Run, cycle
  <2> QED
    BY <2>1, SetsStay, LetsGoBalanced
<1> QED
  BY <1>1, <1>2

\* Where a cycle has nothing to settle, ok is still FALSE.
LEMMA NothingReported ==
    ASSUME OutboxInv
    PROVE  /\ \A c \in Cycles : at[c] # "settle" => ~ok[c]
           /\ \A f \in Forwarders : fAt[f] # "mark" => ~fOk[f]
  BY DEF OutboxInv, RelayHonest, ForwarderHonest

LEMMA QuietCycleBalanced ==
    ASSUME OutboxInv, UNCHANGED forwarder, NEW c \in Cycles,
           Sweep(c) \/ Loop(c) \/ Renew(c)
    PROVE  \A e \in Events : Balanced(e)
<1> USE DEF OutboxInv, TypeOK
<1>1. ~ok[c] /\ OpenAt(c) = Held(c)
  BY NothingReported DEF Sweep, Loop, Renew, OpenAt, Held
<1>2. UNCHANGED <<rows, deliveries>> /\ (NoFault \/ Fault)
  BY DEF Sweep, Loop, Renew, table, NoFault
<1>3. OpensNone /\ LetsGo(NoClaim)
  <2>1. CASE UNCHANGED <<batch, claim, ok>>
    BY <2>1, SetsStay
  <2>2. CASE Finish(c)
    BY <1>1, <2>2, FinishSets
  <2>3. CASE Continue(c)
    <3>1. OpenAt(c)' \subseteq OpenAt(c)
      BY <2>3, ContinueSets DEF OpenAt
    <3> QED
      BY <1>1, <2>3, <3>1, ContinueSets, UnreportedSets
  <2>4. CASE Report(c, FALSE)
    <3>1. OpenAt(c)' \subseteq OpenAt(c)
      BY <1>1, <2>4, ReportSets DEF OpenAt
    <3> QED
      BY <1>1, <2>4, <3>1, ReportSets, UnreportedSets
  <2>5. CASE Loop(c) /\ ~Finish(c)
    <3>1. PICK cl \in batch[c] : /\ claim' = [claim EXCEPT ![c] = cl]
                                 /\ batch' = [batch EXCEPT ![c] = @ \ {cl}]
                                 /\ ok' = ok
      BY <2>5 DEF Loop
    <3>2. /\ claim'[c] = cl /\ batch'[c] = batch[c] \ {cl}
          /\ \A d \in Cycles \ {c} : claim'[d] = claim[d] /\ batch'[d] = batch[d]
      BY <3>1 DEF RelayOK
    <3>3. OpenAt(c)' \subseteq OpenAt(c)
      BY <3>1, <3>2 DEF OpenAt, InHand
    <3>4. \A d \in Cycles \ {c} : OpenAt(d)' = OpenAt(d) /\ Held(d)' = Held(d)
      BY <3>1, <3>2 DEF OpenAt, Held, InHand
    <3> QED
      BY <1>1, <3>3, <3>4, UnreportedSets
  <2> QED
    BY <2>1, <2>2, <2>3, <2>4, <2>5 DEF Sweep, Renew
<1>4. CASE Fault
  BY <1>2, <1>3, <1>4, FaultBalanced
<1>5. CASE NoFault
  BY <1>2, <1>3, <1>5, LetsGoBalanced DEF NoFault, table
<1> QED
  BY <1>2, <1>4, <1>5

LEMMA ClaimBalanced ==
    ASSUME BumpsUp, OutboxInv, Tidy, UNCHANGED forwarder, NEW c \in Cycles, Claim(c)
    PROVE  \A e \in Events : Balanced(e)
<1> USE DEF OutboxInv, TypeOK
<1>1. /\ batch[c] = {} /\ claim[c] = NoClaim /\ claim' = claim /\ ok' = ok
      /\ deliveries' = deliveries
  BY DEF Claim, Tidy, RelayOK
<1>2. CASE Fault /\ UNCHANGED batch
  BY <1>1, <1>2, SetsStay, FaultBalanced
<1>3. CASE NoFault /\ \E B \in Batches(Due) :
              rows' = Taken(B) /\ batch' = [batch EXCEPT ![c] = Tickets(B)]
  <2>1. PICK B \in Batches(Due) :
            rows' = Taken(B) /\ batch' = [batch EXCEPT ![c] = Tickets(B)]
    BY <1>3
  <2>2. batch'[c] = Tickets(B) /\ \A d \in Cycles \ {c} : batch'[d] = batch[d]
    BY <2>1 DEF RelayOK
  <2>3. /\ OpenAt(c)' = Tickets(B) /\ Held(c)' = Tickets(B) /\ Held(c) = {}
        /\ \A d \in Cycles \ {c} : OpenAt(d)' = OpenAt(d) /\ Held(d)' = Held(d)
        /\ \A f \in Forwarders : FOpenAt(f)' = FOpenAt(f) /\ FHeld(f)' = FHeld(f)
    BY <1>1, <2>2 DEF OpenAt, Held, FOpenAt, FHeld, InHand, forwarder
  <2>4. B \in SUBSET Claimable /\ UNCHANGED <<deliveries, faults>>
    BY <1>1, <1>3, BatchesOf DEF NoFault
  <2>5. \A d \in Cycles : /\ OpenAt(d)' \subseteq OpenAt(d) \cup Tickets(B)
                          /\ Held(d) \subseteq Held(d)'
    BY <2>3
  <2> HIDE DEF OutboxInv
  <2> QED
    BY <2>1, <2>3, <2>4, <2>5, TakenBalanced
<1> QED
  BY <1>2, <1>3 DEF Claim

LEMMA PublishBalanced ==
    ASSUME OutboxInv, ClaimsInv, Tidy, UNCHANGED forwarder, NEW c \in Cycles, Publish(c)
    PROVE  \A e \in Events : Balanced(e)
<1>0. PICK x \in Claims : x = claim[c]
  BY InHandIsClaim DEF Publish, OutboxInv, TypeOK, RelayOK
<1>1. RelayOK /\ x \in Claims /\ ~ok[c] /\ UNCHANGED rows
  BY NothingReported DEF Publish, OutboxInv, TypeOK
<1>2. /\ \A d \in Cycles \ {c} : x \notin Held(d)
      /\ \A f \in Forwarders : x \notin FHeld(f)
      /\ x \notin batch[c] /\ InHand(x) = {x}
  BY <1>0, <1>1, Alone
<1>3. ASSUME NEW delivered \in BOOLEAN, Report(c, delivered)
      PROVE  OpensNone /\ HeldStays /\ OpenAt(c)' \subseteq OpenAt(c)
  <2>1. OpenAt(c)' \subseteq OpenAt(c)
    BY <1>1, <1>3, ReportSets DEF OpenAt
  <2> QED
    BY <1>1, <1>3, <2>1, ReportSets DEF OpensNone, HeldStays
<1>4. CASE \E delivered \in BOOLEAN : UNCHANGED deliveries /\ Report(c, delivered) /\ Fault
  BY <1>3, <1>4, FaultBalanced
<1>5. CASE Sent(x[1]) /\ Fault /\ Report(c, FALSE)
  BY <1>1, <1>3, <1>5, SentBalanced
<1>6. CASE Sent(x[1]) /\ NoFault /\ Report(c, TRUE)
  <2>1. OpenAt(c)' = batch[c] /\ HeldStays /\ OpensNone
    BY <1>1, <1>3, <1>6, ReportSets
  <2>2. x \in OpenFor(x[1])
    BY <1>0, <1>1, <1>2 DEF OpenFor, OpenAt
  <2>3. /\ \A d \in Cycles : x \notin OpenAt(d)'
        /\ \A f \in Forwarders : x \notin FOpenAt(f)'
    BY <1>2, <2>1, OpenIsHeld DEF OpensNone
  <2>4. x \notin OpenFor(x[1])'
    BY <1>1, <2>3 DEF OpenFor, Claims
  <2> QED
    BY <1>1, <1>6, <2>1, <2>2, <2>4, SentBalanced
<1>7. CASE UNCHANGED deliveries /\ NoFault /\ Report(c, FALSE)
  <2>1. OpensNone /\ LetsGo(NoClaim)
    BY <1>1, <1>3, <1>7, ReportSets, UnreportedSets
  <2> QED
    BY <1>1, <1>7, <2>1, LetsGoBalanced DEF table, NoFault
<1> QED
  BY <1>0, <1>4, <1>5, <1>6, <1>7 DEF Publish

LEMMA SettleBalanced ==
    ASSUME OutboxInv, ClaimsInv, Tidy, UNCHANGED forwarder, NEW c \in Cycles, Settle(c)
    PROVE  \A e \in Events : Balanced(e)
<1>0. PICK x \in Claims : x = claim[c]
  BY InHandIsClaim DEF Settle, OutboxInv, TypeOK, RelayOK
<1>1. RelayOK /\ x \in Claims /\ ok[c] \in BOOLEAN /\ UNCHANGED deliveries
  BY DEF Settle, OutboxInv, TypeOK, RelayOK
<1>2. /\ \A d \in Cycles \ {c} : x \notin Held(d)
      /\ \A f \in Forwarders : x \notin FHeld(f)
      /\ x \notin batch[c] /\ InHand(x) = {x}
  BY <1>0, <1>1, Alone
<1>3. ASSUME Continue(c)
      PROVE  /\ OpensNone /\ LetsGo(x)
             /\ ~ok[c] => x \in OpenFor(x[1]) /\ x \notin OpenFor(x[1])'
  <2>1. /\ \A d \in Cycles \ {c} : OpenAt(d)' = OpenAt(d) /\ Held(d)' = Held(d)
        /\ \A f \in Forwarders : FOpenAt(f)' = FOpenAt(f) /\ FHeld(f)' = FHeld(f)
        /\ OpenAt(c)' = batch[c] /\ Held(c)' = batch[c]
    BY <1>1, <1>3, ContinueSets
  <2>2. batch[c] \subseteq OpenAt(c) /\ Held(c) = batch[c] \cup {x}
    BY <1>0, <1>2 DEF OpenAt, Held
  <2>3. OpensNone /\ LetsGo(x)
    BY <2>1, <2>2 DEF OpensNone, LetsGo
  <2>4. ~ok[c] => x \in OpenFor(x[1])
    BY <1>0, <1>1, <1>2 DEF OpenFor, OpenAt
  <2>5. /\ \A d \in Cycles : x \notin OpenAt(d)'
        /\ \A f \in Forwarders : x \notin FOpenAt(f)'
    BY <1>2, <2>1, OpenIsHeld
  <2>6. x \notin OpenFor(x[1])'
    BY <1>1, <2>5 DEF OpenFor, Claims
  <2> QED
    BY <2>3, <2>4, <2>6
<1>4. CASE rows' = Settled(x, ok[c]) /\ NoFault /\ Continue(c)
  BY <1>1, <1>3, <1>4, SettledBalanced
<1>5. CASE rows' = rows /\ Fault /\ Continue(c)
  BY <1>1, <1>3, <1>5, FaultBalanced
<1>6. CASE ok[c] /\ Fault /\ rows' \in {rows, Settled(x, TRUE)} /\ Report(c, FALSE)
  <2>1. HeldStays /\ \A f \in Forwarders : FOpenAt(f)' \subseteq FOpenAt(f) \cup {x}
    BY <1>1, <1>6, ReportSets DEF HeldStays
  <2>2. \A d \in Cycles : OpenAt(d)' \subseteq OpenAt(d) \cup {x}
    BY <1>0, <1>1, <1>2, <1>6, ReportSets DEF OpenAt
  <2> QED
    BY <1>1, <1>6, <2>1, <2>2, ReopenedBalanced
<1> QED
  BY <1>0, <1>4, <1>5, <1>6 DEF Settle

LEMMA TakeBalanced ==
    ASSUME BumpsUp, OutboxInv, Tidy, UNCHANGED relay, NEW f \in Forwarders,
           NEW B \in SUBSET Events, Take(f, B)
    PROVE  \A e \in Events : Balanced(e)
<1> USE DEF OutboxInv, TypeOK
<1>1. /\ fBatch[f] = {} /\ fClaim[f] = NoClaim /\ fClaim' = fClaim /\ fOk' = fOk
      /\ deliveries' = deliveries /\ rows' = Taken(B) /\ B \in SUBSET Claimable
  BY BatchesOf DEF Take, Tidy, ForwarderOK
<1>2. \A c \in Cycles : OpenAt(c)' = OpenAt(c) /\ Held(c)' = Held(c)
  BY DEF OpenAt, Held, InHand, relay, cycle
<1>3. CASE Fault /\ UNCHANGED fBatch
  <2>1. \A g \in Forwarders : FOpenAt(g)' = FOpenAt(g)
    BY <1>1, <1>3 DEF FOpenAt, InHand
  <2>2. OpensNone
    BY <1>2, <2>1 DEF OpensNone
  <2> QED
    BY <1>1, <1>3, <2>2, FaultBalanced
<1>4. CASE NoFault /\ fBatch' = [fBatch EXCEPT ![f] = Tickets(B)]
  <2>1. fBatch'[f] = Tickets(B) /\ \A g \in Forwarders \ {f} : fBatch'[g] = fBatch[g]
    BY <1>4 DEF ForwarderOK
  <2>2. /\ FOpenAt(f)' = Tickets(B) /\ FHeld(f)' = Tickets(B) /\ FHeld(f) = {}
        /\ \A g \in Forwarders \ {f} : FOpenAt(g)' = FOpenAt(g) /\ FHeld(g)' = FHeld(g)
    BY <1>1, <2>1 DEF FOpenAt, FHeld, InHand
  <2>3. UNCHANGED <<deliveries, faults>>
    BY <1>1, <1>4 DEF NoFault
  <2>4. \A g \in Forwarders : /\ FOpenAt(g)' \subseteq FOpenAt(g) \cup Tickets(B)
                              /\ FHeld(g) \subseteq FHeld(g)'
    BY <2>2
  <2> HIDE DEF OutboxInv
  <2> QED
    BY <1>1, <1>2, <2>2, <2>3, <2>4, TakenBalanced
<1> QED
  BY <1>3, <1>4 DEF Take

LEMMA EachBalanced ==
    ASSUME OutboxInv, UNCHANGED relay, NEW f \in Forwarders, Each(f)
    PROVE  \A e \in Events : Balanced(e)
<1> USE DEF OutboxInv, TypeOK
<1>1. ~fOk[f] /\ fOk' = fOk /\ UNCHANGED table
  BY NothingReported DEF Each
<1>2. CASE UNCHANGED <<fBatch, fClaim>>
  <2>1. \A g \in Forwarders : FOpenAt(g)' = FOpenAt(g) /\ FHeld(g)' = FHeld(g)
    BY <1>1, <1>2 DEF FOpenAt, FHeld, InHand
  <2> QED
    BY <1>1, <2>1, UnreportedSets, LetsGoBalanced
<1>3. CASE \E cl \in fBatch[f] : /\ fClaim' = [fClaim EXCEPT ![f] = cl]
                                 /\ fBatch' = [fBatch EXCEPT ![f] = @ \ {cl}]
  <2>1. PICK cl \in fBatch[f] : /\ fClaim' = [fClaim EXCEPT ![f] = cl]
                                /\ fBatch' = [fBatch EXCEPT ![f] = @ \ {cl}]
    BY <1>3
  <2>2. /\ fClaim'[f] = cl /\ fBatch'[f] = fBatch[f] \ {cl}
        /\ \A g \in Forwarders \ {f} :
              fClaim'[g] = fClaim[g] /\ fBatch'[g] = fBatch[g]
    BY <2>1 DEF ForwarderOK
  <2>3. FOpenAt(f)' \subseteq FOpenAt(f)
    BY <1>1, <2>2 DEF FOpenAt, InHand
  <2>4. \A g \in Forwarders \ {f} : FOpenAt(g)' = FOpenAt(g) /\ FHeld(g)' = FHeld(g)
    BY <1>1, <2>2 DEF FOpenAt, FHeld, InHand
  <2> QED
    BY <1>1, <2>3, <2>4, UnreportedSets, LetsGoBalanced
<1> QED
  BY <1>2, <1>3 DEF Each

\* What a relay's report, and its going on, do to the sets.
LEMMA FReportSets ==
    ASSUME ForwarderOK, NEW f \in Forwarders, NEW sent \in BOOLEAN,
           FReport(f, sent), UNCHANGED relay
    PROVE  /\ HeldStays
           /\ \A c \in Cycles : OpenAt(c)' = OpenAt(c)
           /\ \A g \in Forwarders \ {f} : FOpenAt(g)' = FOpenAt(g)
           /\ FOpenAt(f)' = fBatch[f] \cup (IF sent THEN {} ELSE InHand(fClaim[f]))
<1>1. /\ fBatch' = fBatch /\ fClaim' = fClaim /\ fOk' = [fOk EXCEPT ![f] = sent]
  BY DEF FReport
<1>2. fOk'[f] = sent /\ \A g \in Forwarders \ {f} : fOk'[g] = fOk[g]
  BY <1>1 DEF ForwarderOK
<1>3. \A g \in Forwarders : FHeld(g)' = FHeld(g)
  BY <1>1 DEF FHeld, InHand
<1> QED
  BY <1>1, <1>2, <1>3
     DEF OpenAt, Held, FOpenAt, InHand, relay, cycle, HeldStays

LEMMA FContinueSets ==
    ASSUME ForwarderOK, NEW f \in Forwarders, FContinue(f), UNCHANGED relay
    PROVE  /\ \A c \in Cycles : OpenAt(c)' = OpenAt(c) /\ Held(c)' = Held(c)
           /\ \A g \in Forwarders \ {f} : FOpenAt(g)' = FOpenAt(g) /\ FHeld(g)' = FHeld(g)
           /\ FOpenAt(f)' = fBatch[f] /\ FHeld(f)' = fBatch[f]
<1>1. /\ fBatch' = fBatch /\ fClaim'[f] = NoClaim
      /\ \A g \in Forwarders \ {f} : fClaim'[g] = fClaim[g] /\ fOk'[g] = fOk[g]
  BY DEF FContinue, ForwarderOK
<1> QED
  BY <1>1 DEF OpenAt, Held, FOpenAt, FHeld, InHand, relay, cycle

LEMMA ForwardBalanced ==
    ASSUME OutboxInv, ClaimsInv, Tidy, UNCHANGED relay, NEW f \in Forwarders, Forward(f)
    PROVE  \A e \in Events : Balanced(e)
<1>0. PICK x \in Claims : x = fClaim[f]
  BY FInHandIsClaim DEF Forward, OutboxInv, TypeOK, ForwarderOK
<1>1. ForwarderOK /\ ~fOk[f] /\ UNCHANGED rows
  BY NothingReported DEF Forward, OutboxInv, TypeOK
<1>2. /\ \A c \in Cycles : x \notin Held(c)
      /\ \A g \in Forwarders \ {f} : x \notin FHeld(g)
      /\ x \notin fBatch[f] /\ InHand(x) = {x}
  BY <1>0, Alone
<1>3. ASSUME NEW sent \in BOOLEAN, FReport(f, sent)
      PROVE  OpensNone /\ HeldStays
  <2>1. FOpenAt(f)' \subseteq FOpenAt(f)
    BY <1>1, <1>3, FReportSets DEF FOpenAt
  <2> QED
    BY <1>1, <1>3, <2>1, FReportSets DEF OpensNone
<1>4. CASE UNCHANGED deliveries /\ FReport(f, FALSE) /\ Fault
  BY <1>3, <1>4, FaultBalanced
<1>5. CASE Sent(x[1]) /\ Fault /\ FReport(f, FALSE)
  BY <1>1, <1>3, <1>5, SentBalanced
<1>6. CASE Sent(x[1]) /\ NoFault /\ FReport(f, TRUE)
  <2>1. FOpenAt(f)' = fBatch[f] /\ HeldStays /\ OpensNone
    BY <1>1, <1>3, <1>6, FReportSets
  <2>2. x \in OpenFor(x[1])
    BY <1>0, <1>1, <1>2 DEF OpenFor, FOpenAt
  <2>3. /\ \A c \in Cycles : x \notin OpenAt(c)'
        /\ \A g \in Forwarders : x \notin FOpenAt(g)'
    BY <1>2, <2>1, OpenIsHeld DEF OpensNone
  <2>4. x \notin OpenFor(x[1])'
    BY <2>3 DEF OpenFor, Claims
  <2> QED
    BY <1>1, <1>6, <2>1, <2>2, <2>4, SentBalanced
<1> QED
  BY <1>0, <1>4, <1>5, <1>6 DEF Forward

LEMMA MarkBalanced ==
    ASSUME OutboxInv, ClaimsInv, Tidy, UNCHANGED relay, NEW f \in Forwarders, Mark(f)
    PROVE  \A e \in Events : Balanced(e)
<1>0. PICK x \in Claims : x = fClaim[f]
  BY FInHandIsClaim DEF Mark, OutboxInv, TypeOK, ForwarderOK
<1>1. ForwarderOK /\ fOk[f] \in BOOLEAN /\ UNCHANGED deliveries
  BY DEF Mark, OutboxInv, TypeOK, ForwarderOK
<1>2. /\ \A c \in Cycles : x \notin Held(c)
      /\ \A g \in Forwarders \ {f} : x \notin FHeld(g)
      /\ x \notin fBatch[f] /\ InHand(x) = {x}
  BY <1>0, Alone
<1>3. ASSUME FContinue(f)
      PROVE  /\ OpensNone /\ LetsGo(x)
             /\ ~fOk[f] => x \in OpenFor(x[1]) /\ x \notin OpenFor(x[1])'
  <2>1. /\ \A c \in Cycles : OpenAt(c)' = OpenAt(c) /\ Held(c)' = Held(c)
        /\ \A g \in Forwarders \ {f} : FOpenAt(g)' = FOpenAt(g) /\ FHeld(g)' = FHeld(g)
        /\ FOpenAt(f)' = fBatch[f] /\ FHeld(f)' = fBatch[f]
    BY <1>1, <1>3, FContinueSets
  <2>2. fBatch[f] \subseteq FOpenAt(f) /\ FHeld(f) = fBatch[f] \cup {x}
    BY <1>0, <1>2 DEF FOpenAt, FHeld
  <2>3. OpensNone /\ LetsGo(x)
    BY <2>1, <2>2 DEF OpensNone, LetsGo
  <2>4. ~fOk[f] => x \in OpenFor(x[1])
    BY <1>0, <1>2 DEF OpenFor, FOpenAt
  <2>5. /\ \A c \in Cycles : x \notin OpenAt(c)'
        /\ \A g \in Forwarders : x \notin FOpenAt(g)'
    BY <1>2, <2>1, OpenIsHeld
  <2>6. x \notin OpenFor(x[1])'
    BY <2>5 DEF OpenFor, Claims
  <2> QED
    BY <2>3, <2>4, <2>6
<1>4. CASE rows' = Marked(x, fOk[f]) /\ NoFault /\ FContinue(f)
  BY <1>1, <1>3, <1>4, SettledBalanced
<1>5. CASE rows' = rows /\ Fault /\ FContinue(f)
  BY <1>1, <1>3, <1>5, FaultBalanced
<1>6. CASE fOk[f] /\ Fault /\ rows' \in {rows, Marked(x, TRUE)} /\ FReport(f, FALSE)
  <2>1. HeldStays /\ \A c \in Cycles : OpenAt(c)' \subseteq OpenAt(c) \cup {x}
    BY <1>1, <1>6, FReportSets
  <2>2. \A g \in Forwarders : FOpenAt(g)' \subseteq FOpenAt(g) \cup {x}
    BY <1>0, <1>1, <1>2, <1>6, FReportSets DEF FOpenAt
  <2> QED
    BY <1>1, <1>6, <2>1, <2>2, ReopenedBalanced
<1> QED
  BY <1>0, <1>4, <1>5, <1>6 DEF Mark

LEMMA ExitBalanced ==
    ASSUME OutboxInv, UNCHANGED relay, NEW f \in Forwarders, Exit(f)
    PROVE  \A e \in Events : Balanced(e)
<1>1. \A g \in Forwarders : FOpenAt(g)' \subseteq FOpenAt(g)
  <2>1. \A g \in Forwarders :
            \/ fBatch'[g] = {} /\ fClaim'[g] = NoClaim
            \/ fBatch'[g] = fBatch[g] /\ fClaim'[g] = fClaim[g] /\ fOk'[g] = fOk[g]
    BY DEF Exit, OutboxInv, TypeOK, ForwarderOK
  <2> QED
    BY <2>1 DEF FOpenAt, InHand
<1>2. \A c \in Cycles : OpenAt(c)' = OpenAt(c)
  BY DEF OpenAt, InHand, relay, cycle
<1> QED
  BY <1>1, <1>2, FaultBalanced DEF OpensNone, Exit

LEMMA TableBalanced ==
    ASSUME OutboxInv, UNCHANGED <<relay, forwarder>>, NEW x \in Events,
           Insert(x) \/ Expire(x)
    PROVE  \A e \in Events : Balanced(e)
<1>1. OpensNone /\ LetsGo(NoClaim)
  BY SetsStay DEF relay, cycle
<1> USE DEF OutboxInv, TypeOK
<1>2. CASE Fault
  BY <1>1, <1>2, FaultBalanced DEF Insert, Expire
<1>3. CASE NoFault
  <2> SUFFICES ASSUME NEW e \in Events PROVE Balanced(e)
    OBVIOUS
  <2>1. HeldFor(e)' = HeldFor(e) /\ OpenFor(e)' = OpenFor(e)
    BY DEF HeldFor, OpenFor, OpenAt, FOpenAt, Held, FHeld, InHand, relay, cycle,
           forwarder, Claims
  <2>2. CASE e # x
    <3>1. rows'[e] = rows[e]
      BY <2>2 DEF Insert, Expire, TableOK
    <3>2. Room(e)' = Room(e)
      BY <2>1, <3>1 DEF Room
    <3> QED
      BY <1>3, <2>1, <3>2, RoomType DEF Balanced, Insert, Expire, NoFault
  <2>3. CASE e = x
    <3>1. Insert(x) => Room(e) = 1
      BY <2>3 DEF Insert, Room
    <3>2. ASSUME Expire(x) PROVE Room(e) = 1
      <4>1. MaxFaults \in Nat /\ faults \in Nat
        BY OutboxAssumption DEF TableOK
      <4>2. ~InUse(x)
        BY <1>3, <3>2, <4>1 DEF Expire, Fault, NoFault
      <4>3. rows[x].status = "publishing" => <<x, rows[x].attempts>> \notin HeldFor(x)
        BY <4>2 DEF InUse, HeldFor
      <4> QED
        BY <2>3, <3>2, <4>3 DEF Expire, Room
    <3>3. Room(e) = 1
      BY <3>1, <3>2
    <3> QED
      BY <1>3, <2>1, <3>3, RoomType DEF Balanced, Insert, Expire, NoFault
  <2> QED
    BY <2>2, <2>3
<1> QED
  BY <1>2, <1>3 DEF Insert, Expire, NoFault

-----------------------------------------------------------------------------
(* The invariant, and the theorem                                          *)

\* What a step can do to one cycle's batch and claim, and to a relay's.
LEMMA TidyRelay ==
    ASSUME OutboxInv, OutboxInv', Tidy, RelayNext, NEW d \in Cycles
    PROVE  /\ \A cl \in batch'[d] : cl # claim'[d]
           /\ at'[d] \in {"idle", "sweep", "claim"} => batch'[d] = {}
<1> USE DEF OutboxInv, TypeOK
<1>1. CASE batch'[d] = {}
  BY <1>1
<1>2. CASE claim'[d] = NoClaim /\ at'[d] = "loop"
  <2>1. batch'[d] \subseteq Claims
    BY DEF RelayOK
  <2> QED
    BY <1>2, <2>1, ClaimIsSomething
<1>3. CASE /\ batch'[d] = batch[d] /\ claim'[d] = claim[d]
           /\ at'[d] \in {"idle", "sweep", "claim"} =>
                 at[d] \in {"idle", "sweep", "claim"}
  BY <1>3 DEF Tidy
<1>4. CASE at'[d] = "renew" /\ batch'[d] = batch[d] \ {claim'[d]}
  BY <1>4
<1>5. ASSUME NEW p \in Procs, \/ Start(p) \/ Stop(p) \/ Crash(p)
                              \/ \E g \in callbacks[p] : Fire(p, g)
      PROVE  /\ batch'[d] = {} \/ batch'[d] = batch[d]
             /\ claim'[d] = claim[d] \/ batch'[d] = {}
             /\ at'[d] = at[d] \/ batch'[d] = {}
                \/ (at[d] = "idle" /\ at'[d] = "sweep")
  <2>1. ASSUME NEW g \in Nat, Run(p, g)
        PROVE  /\ batch' = batch /\ claim' = claim
               /\ at'[d] = at[d] \/ (at[d] = "idle" /\ at'[d] = "sweep")
    BY <2>1 DEF Run, RelayOK, cycle
  <2>2. CASE Crash(p)
    BY <2>2 DEF Crash
  <2>3. CASE Stop(p)
    BY <2>3 DEF Stop, cycle
  <2>4. CASE Start(p)
    <3>1. gen[p] + 1 \in Nat /\ Run(p, gen[p] + 1)
      BY <2>4 DEF Start, RelayOK
    <3> QED
      BY <2>1, <3>1
  <2>5. CASE \E g \in callbacks[p] : Fire(p, g)
    BY <2>1, <2>5 DEF Fire, RelayOK
  <2> QED
    BY <1>5, <2>2, <2>3, <2>4, <2>5
<1>6. ASSUME NEW c \in Cycles, Step(c), c # d
      PROVE  batch'[d] = batch[d] /\ claim'[d] = claim[d] /\ at'[d] = at[d]
  BY <1>6 DEF Step, Sweep, Claim, Loop, Renew, Publish, Settle, Finish, Continue,
              Report, Goto, RelayOK
<1>7. ASSUME Step(d)
      PROVE  \/ batch'[d] = {}
             \/ claim'[d] = NoClaim /\ at'[d] = "loop"
             \/ /\ batch'[d] = batch[d] /\ claim'[d] = claim[d]
                /\ at'[d] = "claim" => at[d] = "sweep"
                /\ at'[d] \notin {"idle", "sweep"}
             \/ at'[d] = "renew" /\ batch'[d] = batch[d] \ {claim'[d]}
  <2>1. CASE Finish(d)
    BY <2>1 DEF Finish, RelayOK
  <2>2. CASE Continue(d)
    BY <2>2 DEF Continue, Goto, RelayOK
  <2>3. ASSUME NEW delivered \in BOOLEAN, Report(d, delivered)
        PROVE  batch'[d] = batch[d] /\ claim'[d] = claim[d] /\ at'[d] = "settle"
    BY <2>3 DEF Report, Goto, RelayOK
  <2>4. CASE Sweep(d)
    BY <2>1, <2>4 DEF Sweep, Goto, RelayOK
  <2>5. CASE Claim(d)
    BY <2>5 DEF Claim, Goto, RelayOK
  <2>6. CASE Loop(d)
    BY <2>1, <2>6 DEF Loop, Goto, RelayOK
  <2>7. CASE Renew(d)
    BY <2>2, <2>3, <2>7 DEF Renew, Goto, RelayOK
  <2>8. CASE Publish(d)
    BY <2>3, <2>8 DEF Publish
  <2>9. CASE Settle(d)
    BY <2>2, <2>3, <2>9 DEF Settle
  <2> QED
    BY <1>7, <2>4, <2>5, <2>6, <2>7, <2>8, <2>9 DEF Step
<1>8. ASSUME NEW p \in Procs, \/ Start(p) \/ Stop(p) \/ Crash(p)
                              \/ \E g \in callbacks[p] : Fire(p, g)
      PROVE  \/ batch'[d] = {}
             \/ /\ batch'[d] = batch[d] /\ claim'[d] = claim[d]
                /\ at'[d] \in {"idle", "sweep", "claim"} =>
                      at[d] \in {"idle", "sweep", "claim"}
  BY <1>5, <1>8
<1> HIDE DEF OutboxInv
<1> QED
  BY <1>1, <1>2, <1>3, <1>4, <1>6, <1>7, <1>8 DEF RelayNext

LEMMA TidyForwarder ==
    ASSUME OutboxInv, OutboxInv', Tidy, ForwarderNext, NEW g \in Forwarders
    PROVE  /\ \A cl \in fBatch'[g] : cl # fClaim'[g]
           /\ fAt'[g] = "poll" => fBatch'[g] = {}
<1> USE DEF OutboxInv, TypeOK
<1>1. \/ fBatch'[g] = {}
      \/ fClaim'[g] = NoClaim /\ fAt'[g] = "loop"
      \/ fBatch'[g] = fBatch[g] /\ fClaim'[g] = fClaim[g]
         /\ (fAt'[g] = "poll" => fAt[g] = "poll")
      \/ fAt'[g] = "publish" /\ fBatch'[g] = fBatch[g] \ {fClaim'[g]}
  <2>1. ASSUME NEW f \in Forwarders, NEW B \in SUBSET Events, Take(f, B)
        PROVE  \/ fClaim'[g] = NoClaim /\ fAt'[g] = "loop"
               \/ /\ fBatch'[g] = fBatch[g] /\ fClaim'[g] = fClaim[g]
                  /\ fAt'[g] = fAt[g]
    BY <2>1 DEF Take, FGoto, ForwarderOK
  <2>2. ASSUME NEW f \in Forwarders, Each(f)
        PROVE  \/ /\ fBatch'[g] = fBatch[g] /\ fClaim'[g] = fClaim[g]
                  /\ fAt'[g] = "poll" => fAt[g] = "poll" \/ fBatch'[g] = {}
               \/ fAt'[g] = "publish" /\ fBatch'[g] = fBatch[g] \ {fClaim'[g]}
    BY <2>2 DEF Each, FGoto, ForwarderOK
  <2>3. ASSUME NEW f \in Forwarders, Forward(f) \/ Mark(f)
        PROVE  \/ fClaim'[g] = NoClaim /\ fAt'[g] = "loop"
               \/ /\ fBatch'[g] = fBatch[g] /\ fClaim'[g] = fClaim[g]
                  /\ fAt'[g] = "poll" => fAt[g] = "poll"
    BY <2>3 DEF Forward, Mark, FReport, FContinue, FGoto, ForwarderOK
  <2>4. ASSUME NEW f \in Forwarders, Exit(f)
        PROVE  \/ fBatch'[g] = {}
               \/ /\ fBatch'[g] = fBatch[g] /\ fClaim'[g] = fClaim[g]
                  /\ fAt'[g] = fAt[g]
    BY <2>4 DEF Exit, FGoto, ForwarderOK
  <2> QED
    BY <2>1, <2>2, <2>3, <2>4 DEF ForwarderNext, ForwarderStep
<1>2. fBatch'[g] \subseteq Claims
  BY DEF ForwarderOK
<1> QED
  BY <1>1, <1>2, ClaimIsSomething DEF Tidy

LEMMA TidyStep ==
    ASSUME OutboxInv, OutboxInv', Tidy, [Next]_vars PROVE Tidy'
<1>1. \A c \in Cycles : /\ \A cl \in batch'[c] : cl # claim'[c]
                        /\ at'[c] \in {"idle", "sweep", "claim"} => batch'[c] = {}
  <2>1. CASE UNCHANGED relay
    BY <2>1 DEF Tidy, relay, cycle
  <2> QED
    BY <2>1, TidyRelay DEF Next, Insert, Expire, vars
<1>2. \A f \in Forwarders : /\ \A cl \in fBatch'[f] : cl # fClaim'[f]
                            /\ fAt'[f] = "poll" => fBatch'[f] = {}
  <2>1. CASE UNCHANGED forwarder
    BY <2>1 DEF Tidy, forwarder
  <2> QED
    BY <2>1, TidyForwarder DEF Next, Insert, Expire, vars
<1> QED
  BY <1>1, <1>2 DEF Tidy

LEMMA EveryStepBalanced ==
    ASSUME BumpsUp, OutboxInv, ClaimsInv, Tidy, [Next]_vars
    PROVE  \A e \in Events : Balanced(e)
<1>1. CASE UNCHANGED vars
  BY <1>1, SetsStay, LetsGoBalanced DEF vars, relay, cycle
<1>2. CASE \E e \in Events : Insert(e) \/ Expire(e)
  BY <1>2, TableBalanced DEF Insert, Expire
<1>3. CASE RelayNext /\ UNCHANGED forwarder
  <2>1. ASSUME NEW c \in Cycles, Step(c) PROVE \A e \in Events : Balanced(e)
    BY <1>3, <2>1, QuietCycleBalanced, ClaimBalanced, PublishBalanced,
       SettleBalanced DEF Step
  <2> QED
    BY <1>3, <2>1, ProcessBalanced DEF RelayNext
<1>4. CASE ForwarderNext /\ UNCHANGED relay
  BY <1>4, TakeBalanced, EachBalanced, ForwardBalanced, MarkBalanced, ExitBalanced
     DEF ForwarderNext, ForwarderStep
<1> QED
  BY <1>1, <1>2, <1>3, <1>4 DEF Next

\* An event goes out at most once more than there were faults, whichever relays
\* run, old or new, and whatever the order in which leases end and calls are
\* lost (both relays, with their RPCs).
THEOREM RepeatsFaulted == ASSUME BumpsUp PROVE Spec => []RepeatsNeedFaults
<1>1. Init => Tidy
  BY DEF Init, RelayInit, ForwarderInit, Tidy
<1>2. Init => Fits
  <2> SUFFICES ASSUME Init, NEW e \in Events
               PROVE  /\ IsFiniteSet(OpenFor(e))
                      /\ deliveries[e] + Cardinality(OpenFor(e)) + Room(e) <= 1 + faults
    BY DEF Fits
  <2>1. OpenFor(e) = {}
    BY DEF Init, RelayInit, ForwarderInit, OpenFor, OpenAt, FOpenAt, InHand
  <2>2. deliveries[e] = 0 /\ faults = 0
    BY DEF Init, TableInit
  <2> QED
    BY <2>1, <2>2, RoomType, FS_EmptySet
<1>3. OutboxInv /\ OutboxInv' /\ ClaimsInv /\ Tidy /\ Fits /\ [Next]_vars
        => Tidy' /\ Fits'
  BY TidyStep, EveryStepBalanced, BalancedFits
<1>4. OutboxInv /\ Fits => RepeatsNeedFaults
  <2> SUFFICES ASSUME OutboxInv, Fits, NEW e \in Events
               PROVE  deliveries[e] <= 1 + faults
    BY DEF RepeatsNeedFaults
  <2>1. Cardinality(OpenFor(e)) \in Nat
    BY FS_CardinalityType DEF Fits
  <2>2. deliveries[e] \in Nat /\ faults \in Nat
    BY DEF OutboxInv, TypeOK, TableOK
  <2> QED
    BY <2>1, <2>2, RoomType DEF Fits
<1> QED
  BY <1>1, <1>2, <1>3, <1>4, ClaimsInvariance, PTL DEF Spec
=============================================================================
