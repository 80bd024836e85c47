---------------------------- MODULE OutboxProofs -----------------------------
(***************************************************************************)
(* Proofs about OutboxPipeline, for any number of events, processes,       *)
(* cycles, relays and faults, with or without a Kafka adapter in the API:  *)
(* types, and that the pipeline implements the safety of DeliveryQueue.    *)
(***************************************************************************)
EXTENDS OutboxPipeline, Sequences, TLAPS

\* All that the proofs need of the attempt numbers.
BumpsToNat == \A n \in Nat : Bumped(n) \in Nat

\* What every step does to the table: rows stay, deliveries only grow.
Grows ==
    \A e \in Events :
        /\ rows[e].status # "none" => rows'[e].status # "none"
        /\ deliveries[e] > 0 => deliveries'[e] > 0

LEMMA ClaimIsSomething == \A cl \in Claims : cl # NoClaim
<1> SUFFICES ASSUME NEW e \in Events, NEW n \in Nat
             PROVE  <<e, n>> # <<>>
  BY DEF Claims, NoClaim
<1>1. Len(<<e, n>>) = 2 /\ Len(<<>>) = 0
  OBVIOUS
<1> QED
  BY <1>1

-----------------------------------------------------------------------------
(* The statements                                                          *)

\* A claim keeps the types, keeps the rows, and publishes nothing.
LEMMA TakenTable ==
    ASSUME BumpsToNat, TableOK, NEW B \in SUBSET Claimable
    PROVE  /\ Taken(B) \in [Events -> Rows]
           /\ \A e \in Events :
                 /\ rows[e].status # "none" => Taken(B)[e].status # "none"
                 /\ Taken(B)[e].status = "published" =>
                       rows[e].status = "published"
           /\ Tickets(B) \in SUBSET Claims
           /\ \A cl \in Tickets(B) : Taken(B)[cl[1]].status # "none"
  BY DEF BumpsToNat, TableOK, Claimable, Taken, Tickets, Claims, Rows

\* Both relays' batches come from Claimable.
LEMMA BatchesOf ==
    /\ \A B \in Batches(Due) : B \in SUBSET Claimable
    /\ \A B \in Batches(Claimable) : B \in SUBSET Claimable
  BY DEF Batches, Due, Claimable

\* A settlement keeps the types and the rows, and publishes the row of the
\* claim only, and only when the verdict is that it was delivered.
Keeps(new, cl, delivered) ==
    /\ new \in [Events -> Rows]
    /\ \A e \in Events :
          /\ rows[e].status # "none" => new[e].status # "none"
          /\ new[e].status = "published" =>
                rows[e].status = "published" \/ (delivered /\ e = cl[1])

LEMMA VerdictKeeps ==
    ASSUME TableOK, NEW cl \in Claims, NEW delivered \in BOOLEAN
    PROVE  Keeps(Verdict(cl[1], delivered), cl, delivered)
<1> DEFINE e == cl[1]
           new == Verdict(e, delivered)
<1>1. e \in Events
  BY DEF Claims
<1>2. /\ new[e].status \in {"published", "pending"} /\ new[e] \in Rows
      /\ new[e].status = "published" => delivered
      /\ \A x \in Events \ {e} : new[x] = rows[x]
      /\ new = [x \in Events |-> new[x]]
  BY <1>1 DEF Verdict, TableOK, Rows
<1> HIDE DEF new, e
<1>3. new \in [Events -> Rows]
  BY <1>2 DEF TableOK
<1> QED
  BY <1>1, <1>2, <1>3 DEF Keeps, e, new

LEMMA SettlementKeeps ==
    ASSUME TableOK, NEW cl \in Claims, NEW delivered \in BOOLEAN
    PROVE  /\ Keeps(Settled(cl, delivered), cl, delivered)
           /\ Keeps(Marked(cl, delivered), cl, delivered)
           /\ Keeps(rows, cl, delivered)
<1>1. Keeps(rows, cl, delivered)
  BY DEF Keeps, TableOK
<1> QED
  BY <1>1, VerdictKeeps DEF Settled, Marked

\* A settlement of a claim whose verdict is true.
LEMMA SettlementStep ==
    ASSUME TableOK, PublishedWasDelivered,
           NEW cl \in Claims, NEW delivered \in BOOLEAN,
           delivered => Delivered(cl),
           Keeps(rows', cl, delivered), UNCHANGED deliveries,
           NoFault \/ Fault
    PROVE  TableOK' /\ PublishedWasDelivered' /\ Grows
<1>1. TableOK'
  BY OutboxAssumption DEF TableOK, Keeps, NoFault, Fault
<1> QED
  BY <1>1 DEF PublishedWasDelivered, Delivered, Keeps, Grows, TableOK

-----------------------------------------------------------------------------
(* The API's relay                                                         *)

RelayInv == TableOK /\ RelayOK /\ RelayHonest /\ PublishedWasDelivered

\* A claim in hand is a claim, of a row that exists.
LEMMA InHandIsClaim ==
    ASSUME RelayOK, RelayHonest, NEW c \in Cycles, claim[c] # NoClaim
    PROVE  claim[c] \in Claims /\ Inserted(claim[c])
  BY DEF RelayOK, RelayHonest, Held, InHand

\* A step that leaves the table alone.
LEMMA TableStays ==
    ASSUME TableOK, PublishedWasDelivered, UNCHANGED <<rows, deliveries>>,
           NoFault \/ Fault
    PROVE  TableOK' /\ PublishedWasDelivered' /\ Grows
  BY OutboxAssumption
     DEF TableOK, PublishedWasDelivered, Grows, NoFault, Fault

\* What a relay knows stays true while it stays put and the table grows.
LEMMA RelayStays ==
    ASSUME RelayOK, RelayHonest, UNCHANGED relay, Grows
    PROVE  RelayOK' /\ RelayHonest'
<1>1. RelayOK'
  BY DEF RelayOK, relay, process, cycle
<1>2. \A c \in Cycles : \A cl \in Held(c) : cl \in Claims /\ cl[1] \in Events
  BY DEF RelayOK, Held, InHand, Claims
<1>3. \A c \in Cycles : ok[c] => claim[c] \in Held(c)
  BY DEF RelayOK, RelayHonest, Held, InHand
<1>4. \A c \in Cycles : Held(c)' = Held(c)
  BY DEF Held, InHand, relay, cycle
<1> QED
  BY <1>1, <1>2, <1>3, <1>4
     DEF RelayHonest, Grows, Inserted, Delivered, relay, cycle

\* A cycle begins, or the call returns at once.
LEMMA RunStep ==
    ASSUME RelayOK, RelayHonest, UNCHANGED table,
           NEW p \in Procs, NEW g \in Nat, Run(p, g)
    PROVE  /\ running' \in [Procs -> BOOLEAN] /\ at' \in [Cycles -> Places]
           /\ cycleGen' \in [Cycles -> Nat] /\ UNCHANGED <<batch, claim, ok>>
           /\ \A c \in Cycles :
                 claim'[c] # NoClaim <=> at'[c] \in {"renew", "publish", "settle"}
           /\ RelayHonest'
<1>1. CASE ~MayRun(p, g)
  BY <1>1 DEF Run, RelayOK, RelayHonest, cycle, table, Held, InHand, Inserted,
              Delivered
<1>2. CASE MayRun(p, g)
  <2>1. PICK c \in Cycles :
            /\ at[c] = "idle"
            /\ at' = [at EXCEPT ![c] = "sweep"]
            /\ cycleGen' = [cycleGen EXCEPT ![c] = g]
            /\ running' = [running EXCEPT ![p] = TRUE]
            /\ UNCHANGED <<batch, claim, ok>>
    BY <1>2 DEF Run, CyclesOf
  <2>2. /\ at' \in [Cycles -> Places] /\ at'[c] = "sweep"
        /\ \A d \in Cycles \ {c} : at'[d] = at[d]
    BY <2>1 DEF RelayOK, Places
  <2>3. /\ running' \in [Procs -> BOOLEAN] /\ cycleGen' \in [Cycles -> Nat]
    BY <2>1 DEF RelayOK
  <2>4. claim[c] = NoClaim /\ ~ok[c]
    BY <2>1 DEF RelayOK, RelayHonest
  <2>5. \A d \in Cycles :
            claim'[d] # NoClaim <=> at'[d] \in {"renew", "publish", "settle"}
    BY <2>1, <2>2, <2>4 DEF RelayOK
  <2>6. RelayHonest'
    BY <2>1, <2>2, <2>4
       DEF RelayOK, RelayHonest, table, Held, InHand, Inserted, Delivered
  <2> QED
    BY <2>1, <2>2, <2>3, <2>5, <2>6
<1> QED
  BY <1>1, <1>2

\* Start, stop, the interval and a crash.
LEMMA ProcessStep ==
    ASSUME RelayInv, NEW p \in Procs,
           \/ Start(p) \/ Stop(p) \/ Crash(p)
           \/ \E g \in callbacks[p] : Fire(p, g)
    PROVE  RelayInv' /\ Grows
<1> USE DEF RelayInv
<1>1. CASE Start(p)
  <2>1. gen[p] + 1 \in Nat /\ UNCHANGED table /\ Run(p, gen[p] + 1)
    BY <1>1 DEF Start, RelayOK
  <2>2. TableOK' /\ PublishedWasDelivered' /\ Grows
    BY <2>1, TableStays DEF table, NoFault
  <2>3. RelayOK'
    BY <1>1, <2>1, RunStep DEF Start, RelayOK
  <2> QED
    BY <2>1, <2>2, <2>3, RunStep
<1>2. CASE \E g \in callbacks[p] : Fire(p, g)
  <2>1. PICK g \in callbacks[p] : Fire(p, g)
    BY <1>2
  <2>2. g \in Nat /\ UNCHANGED table /\ Run(p, g)
    BY <2>1 DEF Fire, RelayOK
  <2>3. TableOK' /\ PublishedWasDelivered' /\ Grows
    BY <2>2, TableStays DEF table, NoFault
  <2>4. RelayOK'
    BY <2>1, <2>2, RunStep DEF Fire, RelayOK
  <2> QED
    BY <2>2, <2>3, <2>4, RunStep
<1>3. CASE Stop(p)
  <2>1. TableOK' /\ PublishedWasDelivered' /\ Grows
    BY <1>3, TableStays DEF Stop, table, NoFault
  <2> QED
    BY <1>3, <2>1 DEF Stop, table, cycle, RelayOK, RelayHonest, Held, InHand,
                      Inserted, Delivered
<1>4. CASE Crash(p)
  <2>1. TableOK' /\ PublishedWasDelivered' /\ Grows
    BY <1>4, TableStays DEF Crash
  <2>2. RelayOK'
    BY <1>4 DEF Crash, RelayOK, Places
  <2>3. RelayHonest'
    BY <1>4 DEF Crash, RelayOK, RelayHonest, Held, InHand, Inserted, Delivered
  <2> QED
    BY <2>1, <2>2, <2>3
<1> QED
  BY <1>1, <1>2, <1>3, <1>4

-----------------------------------------------------------------------------
(* The cycle.  Each way a cycle goes on keeps the relay's invariant, given *)
(* that the step makes the table grow.                                     *)

LEMMA HonestAgain ==
    ASSUME RelayOK, RelayHonest, RelayOK', Grows, NEW c \in Cycles,
           \A cl \in Held(c)' : cl \in Held(c) \/ Inserted(cl)',
           ok'[c] => at'[c] = "settle" /\ Delivered(claim[c])',
           \A d \in Cycles \ {c} :
               /\ at'[d] = at[d] /\ batch'[d] = batch[d]
               /\ claim'[d] = claim[d] /\ ok'[d] = ok[d]
    PROVE  RelayHonest'
<1>1. \A d \in Cycles : \A cl \in Held(d) :
          cl[1] \in Events /\ Inserted(cl) /\ Inserted(cl)'
  BY DEF RelayOK, RelayHonest, Held, InHand, Claims, Grows, Inserted
<1>2. \A d \in Cycles : ok[d] => claim[d] \in Held(d)
  BY DEF RelayOK, RelayHonest, Held, InHand
<1>3. \A d \in Cycles \ {c} : Held(d)' = Held(d)
  BY DEF Held, InHand
<1>4. \A d \in Cycles : \A cl \in Held(d)' : Inserted(cl)'
  BY <1>1, <1>3
<1>5. \A d \in Cycles \ {c} : ok[d] =>
          at'[d] = "settle" /\ deliveries'[claim'[d][1]] > 0
  BY <1>1, <1>2 DEF RelayHonest, Delivered, Grows
<1> QED
  BY <1>4, <1>5 DEF RelayHonest, Delivered

LEMMA FinishStep ==
    ASSUME RelayOK, RelayHonest, Grows, NEW c \in Cycles,
           at[c] \in {"sweep", "loop"}, Finish(c), RelayAssumption
    PROVE  RelayOK' /\ RelayHonest'
<1>1. claim[c] = NoClaim /\ ~ok[c]
  BY DEF RelayOK, RelayHonest
<1>2. /\ at' \in [Cycles -> Places] /\ at'[c] = "idle"
      /\ \A d \in Cycles \ {c} : at'[d] = at[d]
  BY DEF Finish, RelayOK, Places
<1>3. /\ batch' \in [Cycles -> SUBSET Claims] /\ batch'[c] = {}
      /\ \A d \in Cycles \ {c} : batch'[d] = batch[d]
  BY DEF Finish, RelayOK
<1>4. running' \in [Procs -> BOOLEAN]
  BY DEF Finish, RelayOK
<1>5. RelayOK'
  BY <1>1, <1>2, <1>3, <1>4 DEF Finish, RelayOK
<1>6. \A cl \in Held(c)' : cl \in Held(c)
  BY <1>1, <1>3 DEF Finish, Held, InHand
<1>7. ~ok'[c]
  BY <1>1 DEF Finish
<1>8. \A d \in Cycles \ {c} :
          /\ at'[d] = at[d] /\ batch'[d] = batch[d]
          /\ claim'[d] = claim[d] /\ ok'[d] = ok[d]
  BY <1>2, <1>3 DEF Finish
<1> QED
  BY <1>5, <1>6, <1>7, <1>8, HonestAgain

LEMMA ContinueStep ==
    ASSUME RelayOK, RelayHonest, Grows, NEW c \in Cycles, Continue(c)
    PROVE  RelayOK' /\ RelayHonest'
<1>1. /\ at' \in [Cycles -> Places] /\ at'[c] = "loop"
      /\ \A d \in Cycles \ {c} : at'[d] = at[d]
  BY DEF Continue, Goto, RelayOK, Places
<1>2. /\ claim' \in [Cycles -> Claims \cup {NoClaim}] /\ claim'[c] = NoClaim
      /\ \A d \in Cycles \ {c} : claim'[d] = claim[d]
  BY DEF Continue, RelayOK
<1>3. /\ ok' \in [Cycles -> BOOLEAN] /\ ~ok'[c]
      /\ \A d \in Cycles \ {c} : ok'[d] = ok[d]
  BY DEF Continue, RelayOK
<1>4. RelayOK'
  BY <1>1, <1>2, <1>3 DEF Continue, process, RelayOK
<1>5. \A cl \in Held(c)' : cl \in Held(c)
  BY <1>2 DEF Continue, Held, InHand
<1>6. \A d \in Cycles \ {c} :
          /\ at'[d] = at[d] /\ batch'[d] = batch[d]
          /\ claim'[d] = claim[d] /\ ok'[d] = ok[d]
  BY <1>1, <1>2, <1>3 DEF Continue
<1> QED
  BY <1>3, <1>4, <1>5, <1>6, HonestAgain

LEMMA ReportStep ==
    ASSUME RelayOK, RelayHonest, Grows, NEW c \in Cycles,
           NEW delivered \in BOOLEAN, at[c] \in {"renew", "publish", "settle"},
           Report(c, delivered), delivered => Delivered(claim[c])'
    PROVE  RelayOK' /\ RelayHonest'
<1>1. /\ at' \in [Cycles -> Places] /\ at'[c] = "settle"
      /\ \A d \in Cycles \ {c} : at'[d] = at[d]
  BY DEF Report, Goto, RelayOK, Places
<1>2. /\ ok' \in [Cycles -> BOOLEAN] /\ ok'[c] = delivered
      /\ \A d \in Cycles \ {c} : ok'[d] = ok[d]
  BY DEF Report, RelayOK
<1>3. RelayOK'
  BY <1>1, <1>2 DEF Report, process, RelayOK
<1>4. \A cl \in Held(c)' : cl \in Held(c)
  BY DEF Report, Held, InHand
<1>5. \A d \in Cycles \ {c} :
          /\ at'[d] = at[d] /\ batch'[d] = batch[d]
          /\ claim'[d] = claim[d] /\ ok'[d] = ok[d]
  BY <1>1, <1>2 DEF Report
<1>6. ok'[c] => at'[c] = "settle" /\ Delivered(claim[c])'
  BY <1>1, <1>2
<1> QED
  BY <1>3, <1>4, <1>5, <1>6, HonestAgain

\* On to a place that needs a claim just as the one before.
LEMMA GotoStep ==
    ASSUME RelayOK, RelayHonest, Grows, NEW c \in Cycles, NEW place \in Places,
           Goto(c, place), UNCHANGED <<process, cycleGen, batch, claim, ok>>,
           at[c] # "settle",
           at[c] \in {"renew", "publish"} <=> place \in {"renew", "publish"},
           place # "settle"
    PROVE  RelayOK' /\ RelayHonest'
<1>1. /\ at' \in [Cycles -> Places] /\ at'[c] = place
      /\ \A d \in Cycles \ {c} : at'[d] = at[d]
  BY DEF Goto, RelayOK
<1>2. RelayOK'
  BY <1>1 DEF process, RelayOK
<1>3. ~ok'[c] /\ \A cl \in Held(c)' : cl \in Held(c)
  BY DEF RelayHonest, Held, InHand
<1>4. \A d \in Cycles \ {c} :
          /\ at'[d] = at[d] /\ batch'[d] = batch[d]
          /\ claim'[d] = claim[d] /\ ok'[d] = ok[d]
  BY <1>1
<1> QED
  BY <1>2, <1>3, <1>4, HonestAgain

LEMMA SweepStep ==
    ASSUME RelayInv, NEW c \in Cycles, Sweep(c)
    PROVE  RelayInv' /\ Grows
<1> USE DEF RelayInv
<1>1. TableOK' /\ PublishedWasDelivered' /\ Grows
  BY TableStays DEF Sweep
<1>2. CASE Finish(c)
  BY <1>1, <1>2, FinishStep, RelayAssumption DEF Sweep
<1>3. CASE Goto(c, "claim") /\ UNCHANGED <<process, cycleGen, batch, claim, ok>>
  BY <1>1, <1>3, GotoStep DEF Sweep, Places
<1> QED
  BY <1>1, <1>2, <1>3 DEF Sweep

LEMMA ClaimStep ==
    ASSUME BumpsToNat, RelayInv, NEW c \in Cycles, Claim(c)
    PROVE  RelayInv' /\ Grows
<1> USE DEF RelayInv
<1>1. PICK B \in SUBSET Claimable :
          /\ rows' \in {rows, Taken(B)}
          /\ \/ UNCHANGED batch
             \/ rows' = Taken(B) /\ batch' = [batch EXCEPT ![c] = Tickets(B)]
  <2>1. PICK B \in Batches(Due) :
            /\ rows' \in {rows, Taken(B)}
            /\ \/ UNCHANGED batch
               \/ /\ rows' = Taken(B)
                  /\ batch' = [batch EXCEPT ![c] = Tickets(B)]
    BY DEF Claim
  <2> QED
    BY <2>1, BatchesOf
<1>2. /\ at[c] = "claim" /\ Goto(c, "loop") /\ (Fault \/ NoFault)
      /\ UNCHANGED <<process, cycleGen, claim, ok, deliveries>>
  BY DEF Claim
<1>3. TableOK' /\ PublishedWasDelivered' /\ Grows
  <2>1. /\ rows' \in [Events -> Rows]
        /\ \A e \in Events :
              /\ rows[e].status # "none" => rows'[e].status # "none"
              /\ rows'[e].status = "published" => rows[e].status = "published"
    BY <1>1, TakenTable DEF TableOK
  <2> QED
    BY <2>1, <1>2, OutboxAssumption
       DEF TableOK, PublishedWasDelivered, Grows, Fault, NoFault
<1>4. /\ at' \in [Cycles -> Places] /\ at'[c] = "loop"
      /\ \A d \in Cycles \ {c} : at'[d] = at[d]
  BY <1>2 DEF Goto, RelayOK, Places
<1>5. /\ batch' \in [Cycles -> SUBSET Claims]
      /\ \A d \in Cycles \ {c} : batch'[d] = batch[d]
  BY <1>1, TakenTable DEF RelayOK
<1>6. claim[c] = NoClaim /\ ~ok[c]
  BY <1>2 DEF RelayOK, RelayHonest
<1>7. RelayOK'
  BY <1>2, <1>4, <1>5, <1>6 DEF process, RelayOK
<1>8. \A cl \in Held(c)' : cl \in Held(c) \/ Inserted(cl)'
  <2>1. CASE UNCHANGED batch
    BY <2>1, <1>2 DEF Held, InHand
  <2>2. CASE rows' = Taken(B) /\ batch' = [batch EXCEPT ![c] = Tickets(B)]
    <3>1. batch'[c] = Tickets(B)
      BY <2>2 DEF RelayOK
    <3> QED
      BY <2>2, <3>1, <1>2, <1>6, TakenTable DEF Held, InHand, Inserted
  <2> QED
    BY <1>1, <2>1, <2>2
<1>9. ~ok'[c]
  BY <1>2, <1>6
<1>10. \A d \in Cycles \ {c} :
           /\ at'[d] = at[d] /\ batch'[d] = batch[d]
           /\ claim'[d] = claim[d] /\ ok'[d] = ok[d]
  BY <1>2, <1>4, <1>5
<1> QED
  BY <1>3, <1>7, <1>8, <1>9, <1>10, HonestAgain

LEMMA LoopStep ==
    ASSUME RelayInv, NEW c \in Cycles, Loop(c)
    PROVE  RelayInv' /\ Grows
<1> USE DEF RelayInv
<1>1. TableOK' /\ PublishedWasDelivered' /\ Grows
  BY TableStays DEF Loop, table, NoFault
<1>2. CASE Finish(c)
  BY <1>1, <1>2, FinishStep, RelayAssumption DEF Loop
<1>3. CASE ~Finish(c)
  <2>1. PICK cl \in batch[c] :
            /\ claim' = [claim EXCEPT ![c] = cl]
            /\ batch' = [batch EXCEPT ![c] = @ \ {cl}]
            /\ at[c] = "loop" /\ Goto(c, "renew")
            /\ UNCHANGED <<process, cycleGen, ok>>
    BY <1>3 DEF Loop
  <2>2. /\ at' \in [Cycles -> Places] /\ at'[c] = "renew"
        /\ \A d \in Cycles \ {c} : at'[d] = at[d]
    BY <2>1 DEF Goto, RelayOK, Places
  <2>3. /\ claim' \in [Cycles -> Claims \cup {NoClaim}] /\ claim'[c] = cl
        /\ \A d \in Cycles \ {c} : claim'[d] = claim[d]
        /\ cl # NoClaim /\ cl \in Claims
    <3>1. cl \in Claims
      BY <2>1 DEF RelayOK
    <3> QED
      BY <2>1, <3>1, ClaimIsSomething DEF RelayOK
  <2>4. /\ batch' \in [Cycles -> SUBSET Claims]
        /\ batch'[c] = batch[c] \ {cl}
        /\ \A d \in Cycles \ {c} : batch'[d] = batch[d]
    BY <2>1 DEF RelayOK
  <2>5. RelayOK'
    BY <2>1, <2>2, <2>3, <2>4 DEF process, RelayOK
  <2>6. \A x \in Held(c)' : x \in Held(c)
    BY <2>3, <2>4 DEF Held, InHand
  <2>7. ~ok'[c]
    BY <2>1 DEF RelayHonest
  <2>8. \A d \in Cycles \ {c} :
            /\ at'[d] = at[d] /\ batch'[d] = batch[d]
            /\ claim'[d] = claim[d] /\ ok'[d] = ok[d]
    BY <2>1, <2>2, <2>3, <2>4
  <2> QED
    BY <1>1, <2>5, <2>6, <2>7, <2>8, HonestAgain
<1> QED
  BY <1>2, <1>3

LEMMA RenewStep ==
    ASSUME RelayInv, NEW c \in Cycles, Renew(c)
    PROVE  RelayInv' /\ Grows
<1> USE DEF RelayInv
<1>1. TableOK' /\ PublishedWasDelivered' /\ Grows /\ at[c] = "renew"
  BY TableStays DEF Renew
<1>2. CASE Continue(c)
  BY <1>1, <1>2, ContinueStep
<1>3. CASE Report(c, FALSE)
  BY <1>1, <1>3, ReportStep
<1>4. CASE /\ Goto(c, "publish")
           /\ UNCHANGED <<process, cycleGen, batch, claim, ok>>
  BY <1>1, <1>4, GotoStep DEF Places
<1> QED
  BY <1>1, <1>2, <1>3, <1>4 DEF Renew

\* A message that the broker takes.
LEMMA SentGrows ==
    ASSUME TableOK, PublishedWasDelivered, NEW cl \in Claims, Inserted(cl),
           Sent(cl[1]) \/ UNCHANGED deliveries,
           UNCHANGED rows, NoFault \/ Fault
    PROVE  /\ TableOK' /\ PublishedWasDelivered' /\ Grows
           /\ Sent(cl[1]) => deliveries'[cl[1]] > 0
<1> DEFINE e == cl[1]
<1>1. e \in Events
  BY DEF Claims
<1>2. CASE Sent(e)
  <2>1. /\ deliveries' \in [Events -> Nat]
        /\ \A x \in Events : deliveries[x] > 0 => deliveries'[x] > 0
        /\ deliveries'[e] > 0
    BY <1>1, <1>2 DEF Sent, TableOK
  <2> QED
    BY <2>1, OutboxAssumption
       DEF TableOK, PublishedWasDelivered, Grows, NoFault, Fault
<1>3. CASE UNCHANGED deliveries
  <2>1. Sent(e) => deliveries'[e] > 0
    BY <1>1 DEF Sent, TableOK
  <2> QED
    BY <1>3, <2>1, TableStays
<1> QED
  BY <1>2, <1>3

LEMMA PublishStep ==
    ASSUME RelayInv, NEW c \in Cycles, Publish(c)
    PROVE  RelayInv' /\ Grows
<1> USE DEF RelayInv
<1>1. at[c] = "publish" /\ UNCHANGED rows /\ (NoFault \/ Fault)
      /\ UNCHANGED claim
  BY DEF Publish, Report
<1>2. claim[c] \in Claims /\ Inserted(claim[c])
  BY <1>1, InHandIsClaim DEF RelayOK
<1>3. PICK delivered \in BOOLEAN :
          /\ Report(c, delivered)
          /\ delivered => Sent(claim[c][1])
          /\ Sent(claim[c][1]) \/ UNCHANGED deliveries
  BY DEF Publish
<1>4. /\ TableOK' /\ PublishedWasDelivered' /\ Grows
      /\ Sent(claim[c][1]) => deliveries'[claim[c][1]] > 0
  BY <1>1, <1>2, <1>3, SentGrows
<1>5. delivered => Delivered(claim[c])'
  BY <1>1, <1>3, <1>4 DEF Delivered
<1> QED
  BY <1>1, <1>3, <1>4, <1>5, ReportStep

LEMMA SettleStep ==
    ASSUME RelayInv, NEW c \in Cycles, Settle(c)
    PROVE  RelayInv' /\ Grows
<1> USE DEF RelayInv
<1>1. at[c] = "settle" /\ UNCHANGED deliveries /\ (NoFault \/ Fault)
  BY DEF Settle
<1>2. claim[c] \in Claims /\ Inserted(claim[c])
  BY <1>1, InHandIsClaim DEF RelayOK
<1>3. ok[c] \in BOOLEAN /\ (ok[c] => Delivered(claim[c]))
  BY DEF RelayOK, RelayHonest
<1>4. Keeps(rows', claim[c], ok[c])
  BY <1>2, <1>3, SettlementKeeps DEF Settle
<1>5. TableOK' /\ PublishedWasDelivered' /\ Grows
  BY <1>1, <1>2, <1>3, <1>4, SettlementStep
<1>6. CASE Continue(c)
  BY <1>5, <1>6, ContinueStep
<1>7. CASE Report(c, FALSE)
  BY <1>1, <1>5, <1>7, ReportStep
<1> QED
  BY <1>5, <1>6, <1>7 DEF Settle

LEMMA RelayStep ==
    ASSUME BumpsToNat, RelayInv, RelayNext
    PROVE  RelayInv' /\ Grows
<1>1. CASE \E c \in Cycles : Step(c)
  BY <1>1, SweepStep, ClaimStep, LoopStep, RenewStep, PublishStep, SettleStep
     DEF Step
<1>2. CASE \E p \in Procs : \/ Start(p) \/ Stop(p) \/ Crash(p)
                           \/ \E g \in callbacks[p] : Fire(p, g)
  BY <1>2, ProcessStep
<1> QED
  BY <1>1, <1>2 DEF RelayNext

-----------------------------------------------------------------------------
(* The Kafka service's relay, along the same lines                         *)

ForwarderInv ==
    TableOK /\ ForwarderOK /\ ForwarderHonest /\ PublishedWasDelivered

LEMMA ForwarderStays ==
    ASSUME ForwarderOK, ForwarderHonest, UNCHANGED forwarder, Grows
    PROVE  ForwarderOK' /\ ForwarderHonest'
<1>1. ForwarderOK'
  BY DEF ForwarderOK, forwarder
<1>2. \A f \in Forwarders : \A cl \in FHeld(f) : cl[1] \in Events
  BY DEF ForwarderOK, FHeld, InHand, Claims
<1>3. \A f \in Forwarders : fOk[f] => fClaim[f] \in FHeld(f)
  BY DEF ForwarderOK, ForwarderHonest, FHeld, InHand
<1>4. \A f \in Forwarders : FHeld(f)' = FHeld(f)
  BY DEF FHeld, InHand, forwarder
<1> QED
  BY <1>1, <1>2, <1>3, <1>4
     DEF ForwarderHonest, Grows, Inserted, Delivered, forwarder

LEMMA FHonestAgain ==
    ASSUME ForwarderOK, ForwarderHonest, ForwarderOK', Grows,
           NEW f \in Forwarders,
           \A cl \in FHeld(f)' : cl \in FHeld(f) \/ Inserted(cl)',
           fOk'[f] => fAt'[f] = "mark" /\ Delivered(fClaim[f])',
           \A g \in Forwarders \ {f} :
               /\ fAt'[g] = fAt[g] /\ fBatch'[g] = fBatch[g]
               /\ fClaim'[g] = fClaim[g] /\ fOk'[g] = fOk[g]
    PROVE  ForwarderHonest'
<1>1. \A g \in Forwarders : \A cl \in FHeld(g) :
          cl[1] \in Events /\ Inserted(cl) /\ Inserted(cl)'
  BY DEF ForwarderOK, ForwarderHonest, FHeld, InHand, Claims, Grows, Inserted
<1>2. \A g \in Forwarders : fOk[g] => fClaim[g] \in FHeld(g)
  BY DEF ForwarderOK, ForwarderHonest, FHeld, InHand
<1>3. \A g \in Forwarders \ {f} : FHeld(g)' = FHeld(g)
  BY DEF FHeld, InHand
<1>4. \A g \in Forwarders : \A cl \in FHeld(g)' : Inserted(cl)'
  BY <1>1, <1>3
<1>5. \A g \in Forwarders \ {f} : fOk[g] =>
          fAt'[g] = "mark" /\ deliveries'[fClaim'[g][1]] > 0
  BY <1>1, <1>2 DEF ForwarderHonest, Delivered, Grows
<1> QED
  BY <1>4, <1>5 DEF ForwarderHonest, Delivered

LEMMA TakeStep ==
    ASSUME BumpsToNat, ForwarderInv,
           NEW f \in Forwarders, NEW B \in SUBSET Events, Take(f, B)
    PROVE  ForwarderInv' /\ Grows
<1> USE DEF ForwarderInv
<1>1. /\ fAt[f] = "poll" /\ B \in SUBSET Claimable /\ rows' = Taken(B)
      /\ UNCHANGED <<fClaim, fOk, deliveries>> /\ (NoFault \/ Fault)
      /\ \/ UNCHANGED <<fAt, fBatch>>
         \/ /\ fBatch' = [fBatch EXCEPT ![f] = Tickets(B)]
            /\ FGoto(f, "loop")
  BY BatchesOf DEF Take
<1>2. TableOK' /\ PublishedWasDelivered' /\ Grows
  BY <1>1, TakenTable, OutboxAssumption
     DEF TableOK, PublishedWasDelivered, Grows, Fault, NoFault
<1>3. CASE UNCHANGED <<fAt, fBatch>>
  BY <1>1, <1>2, <1>3, ForwarderStays DEF forwarder
<1>4. CASE fBatch' = [fBatch EXCEPT ![f] = Tickets(B)] /\ FGoto(f, "loop")
  <2>1. /\ fAt' \in [Forwarders -> FPlaces] /\ fAt'[f] = "loop"
        /\ \A g \in Forwarders \ {f} : fAt'[g] = fAt[g]
    BY <1>4 DEF FGoto, ForwarderOK, FPlaces
  <2>2. /\ fBatch' \in [Forwarders -> SUBSET Claims]
        /\ fBatch'[f] = Tickets(B)
        /\ \A g \in Forwarders \ {f} : fBatch'[g] = fBatch[g]
    BY <1>1, <1>4, TakenTable DEF ForwarderOK
  <2>3. fClaim[f] = NoClaim /\ ~fOk[f]
    BY <1>1 DEF ForwarderOK, ForwarderHonest
  <2>4. ForwarderOK'
    BY <1>1, <2>1, <2>2, <2>3 DEF ForwarderOK
  <2>5. \A cl \in FHeld(f)' : Inserted(cl)'
    BY <1>1, <2>2, <2>3, TakenTable DEF FHeld, InHand, Inserted
  <2>6. ~fOk'[f]
    BY <1>1, <2>3
  <2>7. \A g \in Forwarders \ {f} :
            /\ fAt'[g] = fAt[g] /\ fBatch'[g] = fBatch[g]
            /\ fClaim'[g] = fClaim[g] /\ fOk'[g] = fOk[g]
    BY <1>1, <2>1, <2>2
  <2> QED
    BY <1>2, <2>4, <2>5, <2>6, <2>7, FHonestAgain
<1> QED
  BY <1>1, <1>3, <1>4

LEMMA EachStep ==
    ASSUME ForwarderInv, NEW f \in Forwarders, Each(f)
    PROVE  ForwarderInv' /\ Grows
<1> USE DEF ForwarderInv
<1>1. TableOK' /\ PublishedWasDelivered' /\ Grows
  BY TableStays DEF Each, table, NoFault
<1>2. fAt[f] = "loop" /\ UNCHANGED fOk
  BY DEF Each
<1>3. fClaim[f] = NoClaim /\ ~fOk[f]
  BY <1>2 DEF ForwarderOK, ForwarderHonest
<1>4. CASE fBatch[f] = {}
  <2>1. FGoto(f, "poll") /\ UNCHANGED <<fBatch, fClaim>>
    BY <1>4 DEF Each
  <2>2. /\ fAt' \in [Forwarders -> FPlaces] /\ fAt'[f] = "poll"
        /\ \A g \in Forwarders \ {f} : fAt'[g] = fAt[g]
    BY <2>1 DEF FGoto, ForwarderOK, FPlaces
  <2>3. ForwarderOK'
    BY <1>2, <1>3, <2>1, <2>2 DEF ForwarderOK
  <2>4. \A cl \in FHeld(f)' : cl \in FHeld(f)
    BY <2>1 DEF FHeld, InHand
  <2> QED
    BY <1>1, <1>2, <1>3, <2>1, <2>2, <2>3, <2>4, FHonestAgain
<1>5. CASE fBatch[f] # {}
  <2>1. PICK cl \in fBatch[f] :
            /\ fClaim' = [fClaim EXCEPT ![f] = cl]
            /\ fBatch' = [fBatch EXCEPT ![f] = @ \ {cl}]
            /\ FGoto(f, "publish")
    BY <1>5 DEF Each
  <2>2. /\ fAt' \in [Forwarders -> FPlaces] /\ fAt'[f] = "publish"
        /\ \A g \in Forwarders \ {f} : fAt'[g] = fAt[g]
    BY <2>1 DEF FGoto, ForwarderOK, FPlaces
  <2>3. cl \in Claims
    BY DEF ForwarderOK
  <2>4. /\ fClaim' \in [Forwarders -> Claims \cup {NoClaim}]
        /\ fClaim'[f] = cl /\ cl # NoClaim
        /\ \A g \in Forwarders \ {f} : fClaim'[g] = fClaim[g]
    BY <2>1, <2>3, ClaimIsSomething DEF ForwarderOK
  <2>5. /\ fBatch' \in [Forwarders -> SUBSET Claims]
        /\ fBatch'[f] = fBatch[f] \ {cl}
        /\ \A g \in Forwarders \ {f} : fBatch'[g] = fBatch[g]
    BY <2>1 DEF ForwarderOK
  <2>6. ForwarderOK'
    BY <1>2, <2>2, <2>4, <2>5 DEF ForwarderOK
  <2>7. \A x \in FHeld(f)' : x \in FHeld(f)
    BY <2>4, <2>5 DEF FHeld, InHand
  <2>8. ~fOk'[f] /\ \A g \in Forwarders \ {f} :
            /\ fAt'[g] = fAt[g] /\ fBatch'[g] = fBatch[g]
            /\ fClaim'[g] = fClaim[g] /\ fOk'[g] = fOk[g]
    BY <1>2, <1>3, <2>2, <2>4, <2>5
  <2> QED
    BY <1>1, <2>6, <2>7, <2>8, FHonestAgain
<1> QED
  BY <1>4, <1>5

LEMMA FReportStep ==
    ASSUME ForwarderOK, ForwarderHonest, Grows, NEW f \in Forwarders,
           NEW sent \in BOOLEAN, fAt[f] \in {"publish", "mark"},
           FReport(f, sent), sent => Delivered(fClaim[f])'
    PROVE  ForwarderOK' /\ ForwarderHonest'
<1>1. /\ fAt' \in [Forwarders -> FPlaces] /\ fAt'[f] = "mark"
      /\ \A g \in Forwarders \ {f} : fAt'[g] = fAt[g]
  BY DEF FReport, FGoto, ForwarderOK, FPlaces
<1>2. /\ fOk' \in [Forwarders -> BOOLEAN] /\ fOk'[f] = sent
      /\ \A g \in Forwarders \ {f} : fOk'[g] = fOk[g]
  BY DEF FReport, ForwarderOK
<1>3. ForwarderOK'
  BY <1>1, <1>2 DEF FReport, ForwarderOK
<1>4. \A cl \in FHeld(f)' : cl \in FHeld(f)
  BY DEF FReport, FHeld, InHand
<1>5. \A g \in Forwarders \ {f} :
          /\ fAt'[g] = fAt[g] /\ fBatch'[g] = fBatch[g]
          /\ fClaim'[g] = fClaim[g] /\ fOk'[g] = fOk[g]
  BY <1>1, <1>2 DEF FReport
<1>6. fOk'[f] => fAt'[f] = "mark" /\ Delivered(fClaim[f])'
  BY <1>1, <1>2
<1> QED
  BY <1>3, <1>4, <1>5, <1>6, FHonestAgain

\* A process lets its claim go: it comes to the next row, or dies.
LEMMA LetGoStep ==
    ASSUME ForwarderOK, ForwarderHonest, Grows, NEW f \in Forwarders,
           FGoto(f, "loop") \/ FGoto(f, "poll"),
           fClaim' = [fClaim EXCEPT ![f] = NoClaim],
           fOk' = [fOk EXCEPT ![f] = FALSE],
           UNCHANGED fBatch \/ fBatch' = [fBatch EXCEPT ![f] = {}]
    PROVE  ForwarderOK' /\ ForwarderHonest'
<1>1. /\ fAt' \in [Forwarders -> FPlaces] /\ fAt'[f] \in {"loop", "poll"}
      /\ \A g \in Forwarders \ {f} : fAt'[g] = fAt[g]
  BY DEF FGoto, ForwarderOK, FPlaces
<1>2. /\ fClaim' \in [Forwarders -> Claims \cup {NoClaim}]
      /\ fClaim'[f] = NoClaim
      /\ \A g \in Forwarders \ {f} : fClaim'[g] = fClaim[g]
  BY DEF ForwarderOK
<1>3. /\ fOk' \in [Forwarders -> BOOLEAN] /\ ~fOk'[f]
      /\ \A g \in Forwarders \ {f} : fOk'[g] = fOk[g]
  BY DEF ForwarderOK
<1>4. /\ fBatch' \in [Forwarders -> SUBSET Claims]
      /\ fBatch'[f] \subseteq fBatch[f]
      /\ \A g \in Forwarders \ {f} : fBatch'[g] = fBatch[g]
  BY DEF ForwarderOK
<1>5. ForwarderOK'
  BY <1>1, <1>2, <1>3, <1>4 DEF ForwarderOK
<1>6. \A cl \in FHeld(f)' : cl \in FHeld(f)
  BY <1>2, <1>4 DEF FHeld, InHand
<1>7. \A g \in Forwarders \ {f} :
          /\ fAt'[g] = fAt[g] /\ fBatch'[g] = fBatch[g]
          /\ fClaim'[g] = fClaim[g] /\ fOk'[g] = fOk[g]
  BY <1>1, <1>2, <1>3, <1>4
<1> QED
  BY <1>3, <1>5, <1>6, <1>7, FHonestAgain

LEMMA FInHandIsClaim ==
    ASSUME ForwarderOK, ForwarderHonest, NEW f \in Forwarders,
           fAt[f] \in {"publish", "mark"}
    PROVE  fClaim[f] \in Claims /\ Inserted(fClaim[f])
  BY DEF ForwarderOK, ForwarderHonest, FHeld, InHand

LEMMA ForwardStep ==
    ASSUME ForwarderInv, NEW f \in Forwarders, Forward(f)
    PROVE  ForwarderInv' /\ Grows
<1> USE DEF ForwarderInv
<1>1. fAt[f] = "publish" /\ UNCHANGED <<rows, fClaim>> /\ (NoFault \/ Fault)
  BY DEF Forward, FReport
<1>2. fClaim[f] \in Claims /\ Inserted(fClaim[f])
  BY <1>1, FInHandIsClaim
<1>3. PICK sent \in BOOLEAN :
          /\ FReport(f, sent)
          /\ sent => Sent(fClaim[f][1])
          /\ Sent(fClaim[f][1]) \/ UNCHANGED deliveries
  BY DEF Forward
<1>4. /\ TableOK' /\ PublishedWasDelivered' /\ Grows
      /\ Sent(fClaim[f][1]) => deliveries'[fClaim[f][1]] > 0
  BY <1>1, <1>2, <1>3, SentGrows
<1>5. sent => Delivered(fClaim[f])'
  BY <1>1, <1>3, <1>4 DEF Delivered
<1> QED
  BY <1>1, <1>3, <1>4, <1>5, FReportStep

LEMMA MarkStep ==
    ASSUME ForwarderInv, NEW f \in Forwarders, Mark(f)
    PROVE  ForwarderInv' /\ Grows
<1> USE DEF ForwarderInv
<1>1. fAt[f] = "mark" /\ UNCHANGED deliveries /\ (NoFault \/ Fault)
  BY DEF Mark
<1>2. fClaim[f] \in Claims /\ Inserted(fClaim[f])
  BY <1>1, FInHandIsClaim
<1>3. fOk[f] \in BOOLEAN /\ (fOk[f] => Delivered(fClaim[f]))
  BY DEF ForwarderOK, ForwarderHonest
<1>4. Keeps(rows', fClaim[f], fOk[f])
  BY <1>2, <1>3, SettlementKeeps DEF Mark
<1>5. TableOK' /\ PublishedWasDelivered' /\ Grows
  BY <1>1, <1>2, <1>3, <1>4, SettlementStep
<1>6. CASE FContinue(f)
  BY <1>5, <1>6, LetGoStep DEF FContinue
<1>7. CASE FReport(f, FALSE)
  BY <1>1, <1>5, <1>7, FReportStep
<1> QED
  BY <1>5, <1>6, <1>7 DEF Mark

LEMMA ForwarderNextStep ==
    ASSUME BumpsToNat, ForwarderInv, ForwarderNext
    PROVE  ForwarderInv' /\ Grows
<1> SUFFICES ASSUME NEW f \in Forwarders,
                    \/ \E B \in SUBSET Events : Take(f, B)
                    \/ ForwarderStep(f) \/ Exit(f)
             PROVE  ForwarderInv' /\ Grows
  BY DEF ForwarderNext
<1>1. CASE Exit(f)
  <2>1. TableOK' /\ PublishedWasDelivered' /\ Grows
    BY <1>1, TableStays DEF Exit, ForwarderInv
  <2> QED
    BY <1>1, <2>1, LetGoStep DEF Exit, ForwarderInv
<1>2. CASE \E B \in SUBSET Events : Take(f, B)
  BY <1>2, TakeStep
<1>3. CASE ForwarderStep(f)
  BY <1>3, EachStep, ForwardStep, MarkStep DEF ForwarderStep
<1> QED
  BY <1>1, <1>2, <1>3

-----------------------------------------------------------------------------
(* The pipeline                                                            *)

LEMMA InsertStep ==
    ASSUME TableOK, PublishedWasDelivered, NEW e \in Events, Insert(e)
    PROVE  TableOK' /\ PublishedWasDelivered' /\ Grows
<1>1. /\ rows' \in [Events -> Rows] /\ rows'[e].status = "pending"
      /\ \A x \in Events \ {e} : rows'[x] = rows[x]
  BY DEF Insert, NewRow, TableOK, Rows
<1> QED
  BY <1>1 DEF Insert, TableOK, PublishedWasDelivered, Grows

LEMMA ExpireStep ==
    ASSUME TableOK, PublishedWasDelivered, NEW e \in Events, Expire(e)
    PROVE  TableOK' /\ PublishedWasDelivered' /\ Grows
<1>1. /\ rows' \in [Events -> Rows] /\ rows'[e].status = rows[e].status
      /\ \A x \in Events \ {e} : rows'[x] = rows[x]
  BY DEF Expire, TableOK, Rows
<1>2. Fault \/ NoFault
  BY DEF Expire
<1> QED
  BY <1>1, <1>2, OutboxAssumption
     DEF Expire, TableOK, PublishedWasDelivered, Grows, Fault, NoFault

\* Every step keeps the inductive invariant, and rows stay.
LEMMA InvStep ==
    ASSUME BumpsToNat, OutboxInv, [Next]_vars
    PROVE  OutboxInv' /\ Grows
<1> USE DEF OutboxInv, TypeOK
<1>1. CASE RelayNext /\ UNCHANGED forwarder
  BY <1>1, RelayStep, ForwarderStays DEF RelayInv
<1>2. CASE ForwarderNext /\ UNCHANGED relay
  BY <1>2, ForwarderNextStep, RelayStays DEF ForwarderInv
<1>3. ASSUME NEW e \in Events, Insert(e) PROVE OutboxInv' /\ Grows
  <2>1. UNCHANGED relay /\ UNCHANGED forwarder
    BY <1>3 DEF Insert
  <2> QED
    BY <1>3, <2>1, InsertStep, RelayStays, ForwarderStays
<1>4. ASSUME NEW e \in Events, Expire(e) PROVE OutboxInv' /\ Grows
  <2>1. UNCHANGED relay /\ UNCHANGED forwarder
    BY <1>4 DEF Expire
  <2> QED
    BY <1>4, <2>1, ExpireStep, RelayStays, ForwarderStays
<1>5. CASE UNCHANGED vars
  <2>1. UNCHANGED <<rows, deliveries, faults>> /\ UNCHANGED relay
        /\ UNCHANGED forwarder
    BY <1>5 DEF vars, table
  <2> QED
    BY <2>1, TableStays, RelayStays, ForwarderStays DEF NoFault
<1> QED
  BY <1>1, <1>2, <1>3, <1>4, <1>5 DEF Next

LEMMA InvInit == Init => OutboxInv
<1> SUFFICES ASSUME Init PROVE OutboxInv
  OBVIOUS
<1>1. TableOK /\ PublishedWasDelivered
  BY OutboxAssumption
     DEF Init, TableInit, TableOK, NoRow, Rows, PublishedWasDelivered
<1>2. RelayOK /\ RelayHonest
  BY DEF Init, RelayInit, RelayOK, RelayHonest, Places, Held, InHand
<1>3. ForwarderOK /\ ForwarderHonest
  BY DEF Init, ForwarderInit, ForwarderOK, ForwarderHonest, FPlaces, FHeld,
         InHand
<1> QED
  BY <1>1, <1>2, <1>3 DEF OutboxInv, TypeOK

\* In every behaviour of the two relays the types hold, what is settled as
\* delivered was delivered, and no row is published that Kafka has not got
\* (event_outbox and both relays).
THEOREM Invariance == ASSUME BumpsToNat PROVE Spec => []OutboxInv
<1>1. OutboxInv /\ [Next]_vars => OutboxInv'
  BY InvStep
<1> QED
  BY <1>1, InvInit, PTL DEF Spec

\* Every variable has its type in every reachable state.
THEOREM TypeCorrect == ASSUME BumpsToNat PROVE Spec => []TypeOK
<1>1. OutboxInv => TypeOK
  BY DEF OutboxInv
<1> QED
  BY <1>1, Invariance, PTL

-----------------------------------------------------------------------------
(* The refinement                                                          *)

\* The four things a step can be to the queue.
SameStages == \A e \in Events : Stage(rows'[e].status) = Stage(rows[e].status)

Moves(e, from, to) ==
    /\ UNCHANGED deliveries
    /\ Stage(rows[e].status) = from /\ Stage(rows'[e].status) = to
    /\ \A x \in Events \ {e} : rows'[x] = rows[x]

QueueStep ==
    \/ SameStages /\ UNCHANGED deliveries
    \/ SameStages /\ \E e \in Events : Sent(e) /\ rows[e].status # "none"
    \/ \E e \in Events : Moves(e, "queued", "done") /\ deliveries[e] > 0
    \/ \E e \in Events : Moves(e, "none", "queued")

LEMMA QueueStepMaps ==
    ASSUME TableOK, TableOK', QueueStep
    PROVE  [Queue!QNext]_(Queue!qvars)
<1> DEFINE old == [e \in Events |-> Stage(rows[e].status)]
           new == [e \in Events |-> Stage(rows'[e].status)]
<1>1. SameStages => new = old
  BY DEF SameStages
<1>2. CASE SameStages /\ UNCHANGED deliveries
  BY <1>1, <1>2 DEF Queue!qvars
<1>3. CASE SameStages /\ \E e \in Events : Sent(e) /\ rows[e].status # "none"
  <2>1. PICK e \in Events : Sent(e) /\ rows[e].status # "none"
    BY <1>3
  <2>2. old[e] # "none"
    BY <2>1 DEF Stage, TableOK, Rows
  <2>3. Queue!Deliver(e)
    BY <1>1, <1>3, <2>1, <2>2 DEF Queue!Deliver, Sent
  <2> QED
    BY <2>3 DEF Queue!QNext
<1>4. ASSUME NEW e \in Events, NEW from, NEW to, Moves(e, from, to)
      PROVE  old[e] = from /\ new = [old EXCEPT ![e] = to]
  BY <1>4 DEF Moves
<1>5. CASE \E e \in Events : Moves(e, "queued", "done") /\ deliveries[e] > 0
  <2>1. PICK e \in Events : Moves(e, "queued", "done") /\ deliveries[e] > 0
    BY <1>5
  <2>2. Queue!Complete(e)
    BY <1>4, <2>1 DEF Queue!Complete, Moves
  <2> QED
    BY <2>2 DEF Queue!QNext
<1>6. CASE \E e \in Events : Moves(e, "none", "queued")
  <2>1. PICK e \in Events : Moves(e, "none", "queued")
    BY <1>6
  <2>2. Queue!Enqueue(e)
    BY <1>4, <2>1 DEF Queue!Enqueue, Moves
  <2> QED
    BY <2>2 DEF Queue!QNext
<1> QED
  BY <1>2, <1>3, <1>5, <1>6 DEF QueueStep

LEMMA TakenIsStutter ==
    ASSUME TableOK, NEW B \in SUBSET Claimable, UNCHANGED deliveries,
           rows' \in {rows, Taken(B)}
    PROVE  QueueStep
<1>1. \A e \in Events :
          \/ rows'[e].status = rows[e].status
          \/ /\ rows'[e].status = "publishing"
             /\ rows[e].status \in {"pending", "publishing"}
  BY DEF Taken, Claimable
<1>2. SameStages
  BY <1>1 DEF SameStages, Stage
<1> QED
  BY <1>2 DEF QueueStep

LEMMA SettlementIsStep ==
    ASSUME TableOK, NEW cl \in Claims, NEW delivered \in BOOLEAN,
           delivered => Delivered(cl), UNCHANGED deliveries,
           rows' \in {rows, Settled(cl, delivered), Marked(cl, delivered)}
    PROVE  QueueStep
<1> DEFINE e == cl[1]
<1>1. e \in Events
  BY DEF Claims
<1>2. CASE rows' = rows
  BY <1>2 DEF QueueStep, SameStages
<1>3. CASE rows' = Verdict(e, delivered) /\ rows[e].status = "publishing"
  <2>1. /\ rows'[e].status = IF delivered THEN "published" ELSE "pending"
        /\ \A x \in Events \ {e} : rows'[x] = rows[x]
    BY <1>1, <1>3 DEF Verdict, TableOK
  <2>2. CASE delivered
    BY <1>1, <1>3, <2>1, <2>2 DEF QueueStep, Moves, Stage, Delivered
  <2>3. CASE ~delivered
    BY <1>1, <1>3, <2>1, <2>3 DEF QueueStep, SameStages, Stage
  <2> QED
    BY <2>2, <2>3
<1> QED
  BY <1>2, <1>3 DEF Settled, Marked, Live

LEMMA SentIsStep ==
    ASSUME NEW cl \in Claims, Inserted(cl), UNCHANGED rows,
           Sent(cl[1]) \/ UNCHANGED deliveries
    PROVE  QueueStep
  BY DEF QueueStep, SameStages, Inserted, Claims

LEMMA RelayIsStep ==
    ASSUME RelayInv, RelayNext
    PROVE  QueueStep
<1> USE DEF RelayInv
<1>1. CASE UNCHANGED <<rows, deliveries>>
  BY <1>1 DEF QueueStep, SameStages
<1>2. ASSUME NEW c \in Cycles, Claim(c) PROVE QueueStep
  BY <1>2, TakenIsStutter, BatchesOf DEF Claim
<1>3. ASSUME NEW c \in Cycles, Publish(c) PROVE QueueStep
  <2>1. claim[c] \in Claims /\ Inserted(claim[c])
    BY <1>3, InHandIsClaim DEF Publish, RelayOK
  <2> QED
    BY <1>3, <2>1, SentIsStep DEF Publish
<1>4. ASSUME NEW c \in Cycles, Settle(c) PROVE QueueStep
  <2>1. claim[c] \in Claims
    BY <1>4, InHandIsClaim DEF Settle, RelayOK
  <2>2. ok[c] \in BOOLEAN /\ (ok[c] => Delivered(claim[c]))
    BY DEF RelayOK, RelayHonest
  <2> QED
    BY <1>4, <2>1, <2>2, SettlementIsStep DEF Settle
<1>5. ASSUME NEW p \in Procs,
             \/ Start(p) \/ Stop(p) \/ Crash(p)
             \/ \E g \in callbacks[p] : Fire(p, g)
      PROVE  UNCHANGED <<rows, deliveries>>
  BY <1>5 DEF Start, Stop, Crash, Fire, table
<1>6. ASSUME NEW c \in Cycles, Sweep(c) \/ Loop(c) \/ Renew(c)
      PROVE  UNCHANGED <<rows, deliveries>>
  BY <1>6 DEF Sweep, Loop, Renew, table
<1> QED
  BY <1>1, <1>2, <1>3, <1>4, <1>5, <1>6 DEF RelayNext, Step

LEMMA ForwarderIsStep ==
    ASSUME ForwarderInv, ForwarderNext
    PROVE  QueueStep
<1> USE DEF ForwarderInv
<1>1. CASE UNCHANGED <<rows, deliveries>>
  BY <1>1 DEF QueueStep, SameStages
<1>2. ASSUME NEW f \in Forwarders, NEW B \in SUBSET Events, Take(f, B)
      PROVE  QueueStep
  BY <1>2, TakenIsStutter, BatchesOf DEF Take
<1>3. ASSUME NEW f \in Forwarders, Forward(f) PROVE QueueStep
  <2>1. fClaim[f] \in Claims /\ Inserted(fClaim[f])
    BY <1>3, FInHandIsClaim DEF Forward
  <2> QED
    BY <1>3, <2>1, SentIsStep DEF Forward
<1>4. ASSUME NEW f \in Forwarders, Mark(f) PROVE QueueStep
  <2>1. fClaim[f] \in Claims
    BY <1>4, FInHandIsClaim DEF Mark
  <2>2. fOk[f] \in BOOLEAN /\ (fOk[f] => Delivered(fClaim[f]))
    BY DEF ForwarderOK, ForwarderHonest
  <2> QED
    BY <1>4, <2>1, <2>2, SettlementIsStep DEF Mark
<1>5. ASSUME NEW f \in Forwarders, Each(f) \/ Exit(f)
      PROVE  UNCHANGED <<rows, deliveries>>
  BY <1>5 DEF Each, Exit, table
<1> QED
  BY <1>1, <1>2, <1>3, <1>4, <1>5 DEF ForwarderNext, ForwarderStep

LEMMA NextIsStep ==
    ASSUME OutboxInv, [Next]_vars
    PROVE  QueueStep
<1> USE DEF OutboxInv, TypeOK
<1>1. ASSUME NEW e \in Events, Insert(e) PROVE QueueStep
  <2>1. /\ rows'[e].status = "pending" /\ rows[e].status = "none"
        /\ \A x \in Events \ {e} : rows'[x] = rows[x]
    BY <1>1 DEF Insert, NewRow, TableOK
  <2> QED
    BY <1>1, <2>1 DEF QueueStep, Moves, Stage, Insert
<1>2. ASSUME NEW e \in Events, Expire(e) PROVE QueueStep
  <2>1. \A x \in Events : rows'[x].status = rows[x].status
    BY <1>2 DEF Expire, TableOK, Rows
  <2> QED
    BY <1>2, <2>1 DEF QueueStep, SameStages, Expire
<1>3. CASE UNCHANGED vars
  BY <1>3 DEF vars, table, QueueStep, SameStages
<1> QED
  BY <1>1, <1>2, <1>3, RelayIsStep, ForwarderIsStep
     DEF Next, RelayInv, ForwarderInv

\* The two relays, run together under crashes, lost calls and lapsed leases,
\* implement a queue that delivers every event at least once before it is
\* done and never takes it up again (the safety half of DeliveryQueue).
THEOREM Refinement == ASSUME BumpsToNat PROVE Spec => AtLeastOnce
<1>1. Init => Queue!QInit
  BY DEF Init, TableInit, NoRow, Queue!QInit, Stage
<1>2. OutboxInv /\ OutboxInv' /\ [Next]_vars => [Queue!QNext]_(Queue!qvars)
  BY NextIsStep, QueueStepMaps DEF OutboxInv, TypeOK
<1> QED
  BY <1>1, <1>2, Invariance, PTL DEF Spec, AtLeastOnce, Queue!QSafety
=============================================================================
