--------------------------- MODULE SettlementProofs ---------------------------
(***************************************************************************)
(* Proofs about OrderSettlement, for any number of jobs, transactions,     *)
(* retries and faults: the types, that nothing is released without an OTP, *)
(* and, as long as the order's lock keeps the jobs apart, that its row and *)
(* the wallet follow the booking, that a delivery is credited once, and    *)
(* that all of it implements OrderOutcome.                                 *)
(*                                                                         *)
(* The argument is that an order takes one of two sides.  Once the OTP has *)
(* matched (`confirmed`) no refund was ever sent and none can begin; once  *)
(* a refund has been sent the escrow is being refunded and no OTP can be   *)
(* presented.  The order's lock decides which: a job that might change     *)
(* sides holds it from before it reads the row until after its last write. *)
(* A sweep alone goes by what it read before it had the lock: by its batch *)
(* (`stale`).  While it has the order only in its batch it is on no side.  *)
(***************************************************************************)
EXTENDS OrderSettlement, TLAPS

USE DEF Apart

-----------------------------------------------------------------------------
(* The inductive invariant.                                                *)

SentRelease == \E n \in 1 .. Len(txs) : txs[n].call = "release"
SentRefund == \E n \in 1 .. Len(txs) : txs[n].call # "release"

\* The booking ends as one mined transaction says, and stays so.
ChainInv ==
    /\ \A n \in 1 .. Len(txs) :
          txs[n].outcome \in {"released", "refunded"} => booking = txs[n].outcome
    /\ booking = "released" => SentRelease
    /\ booking = "refunded" => SentRefund

\* A milestone job carries its milestone, another a transaction that exists.
HashInv ==
    \A j \in Jobs :
        /\ job[j].op = "milestone" => job[j].hash \in {1, 2}
        /\ job[j].op \in Ops \ {"milestone"} =>
              /\ job[j].hash <= Len(txs)
              /\ job[j].row.releaseHash <= Len(txs)
              /\ job[j].row.refundHash <= Len(txs)
              /\ job[j].at \in {"receipt", "hash"} => job[j].hash # 0

\* What may lead to a release comes after the OTP.
OtpInv ==
    /\ SentRelease \/ order.escrow = "release_failed" => confirmed
    /\ \A j \in Jobs :
          /\ job[j].op = "deliver" => confirmed
          /\ job[j].op = "sweep" /\ (\/ job[j].at = "release"
                                     \/ job[j].row.escrow = "release_failed")
                => confirmed

\* A sweep that has only listed the order has not locked it.
Locking(j) ==
    \/ job[j].op \in {"deliver", "cancel"}
    \/ job[j].op \in {"sweep", "refund"} /\ job[j].at # "batch"
LockInv == \A j \in Jobs : Locking(j) => lock = j

\* A job that has taken the refund's side.
ToRefund(j) ==
    \/ job[j].op = "refund"
    \/ job[j].op = "cancel" /\ (job[j].at # "pend" \/ job[j].row.escrow \in Refunding)

\* A job that goes by the booking's having been released, or refunded.
KnowsRelease(j) ==
    \/ job[j].op = "deliver" /\ job[j].at \in {"persist", "guard", "complete", "final"}
    \/ job[j].op = "sweep" /\ job[j].at \in {"evidence", "complete"}
    \/ job[j].op = "withdrawal" /\ job[j].row.escrow \notin Refunding
KnowsRefund(j) ==
    \/ job[j].op = "cancel" /\ job[j].at \in {"confirm", "cleanup"}
    \/ job[j].op = "refund" /\ job[j].at = "finalize"
    \/ job[j].op = "withdrawal" /\ job[j].row.escrow \in Refunding

WebhookInv == \A j \in Jobs : job[j].op = "webhook" => booking = "released"

\* The two sides.
SideInv ==
    /\ confirmed =>
          /\ order.status \in {"picked_up", "arriving", "payment_released"}
          /\ order.escrow \in Unpaid \cup {"released"}
          /\ ~SentRefund
          /\ \A j \in Jobs : job[j].op \notin {"cancel", "refund"}
    /\ SentRefund => order.escrow \in Refunds
    /\ \A j \in Jobs :
          /\ ToRefund(j) => order.escrow \in Refunds
          /\ job[j].op = "sweep" /\ job[j].at # "batch" => ~SentRefund

\* The row and the wallet follow the booking.
RowInv ==
    /\ order.escrow = "released" \/ credits > 0 => booking = "released"
    /\ order.escrow = "refunded" => booking = "refunded"
    /\ order.status = "payment_released" => order.escrow = "released"
    /\ \A j \in Jobs : /\ KnowsRelease(j) => booking = "released"
                       /\ KnowsRefund(j) => booking = "refunded"

\* Without doubled milestones the status stays at the drop until it is paid.
CreditInv ==
    /\ \A i, j \in Jobs :
          job[i].op = "milestone" /\ job[j].op = "milestone" => i = j
    /\ \A j \in Jobs : job[j].op = "milestone" /\ job[j].at \in {"mark", "update"} =>
          /\ order.status \notin {"arriving", "payment_released"}
          /\ job[j].at = "update" => job[j].hash \in timeline
    /\ order.status \in {"arriving", "payment_released"} => 2 \in timeline
    /\ confirmed => order.status \in {"arriving", "payment_released"}
    /\ credits > 0 => credits = 1 /\ order.status = "payment_released"

IInv ==
    /\ TypeOK /\ ChainInv /\ HashInv /\ OtpInv /\ WebhookInv
    /\ Apart => LockInv /\ SideInv /\ RowInv /\ (~overlap => CreditInv)

-----------------------------------------------------------------------------
(* What the updates of `job` do.                                           *)

Rest(j) == \A i \in Jobs \ {j} : job'[i] = job[i]

\* Beginning a job.
LEMMA BeginFacts ==
    ASSUME TypeOK, NEW j \in Jobs, NEW op \in Ops, NEW at \in Stages, NEW h \in Nat,
           Begin(j, op, at, h)
    PROVE  /\ job' \in [Jobs -> JobStates] /\ Rest(j) /\ job[j] = Idle
           /\ job'[j].op = op /\ job'[j].at = at /\ job'[j].row = order
           /\ job'[j].hash = h
  BY DEF TypeOK, Begin, JobStates, Rest

\* Going on to the next stage, with the hash known so far or another.
LEMMA CarryFacts ==
    ASSUME TypeOK, NEW j \in Jobs, job[j].op \in Ops, NEW at \in Stages,
           NEW h \in Nat, Carry(j, at, h)
    PROVE  /\ job' \in [Jobs -> JobStates] /\ Rest(j)
           /\ job[j].row \in Rows /\ job[j].hash \in Nat
           /\ job'[j].op = job[j].op /\ job'[j].at = at
           /\ job'[j].row = job[j].row /\ job'[j].hash = h
  <1>1. job[j] \in [op : Ops, at : Stages, row : Rows, hash : Nat]
    BY DEF TypeOK, JobStates, Idle, Ops
  <1> QED
    BY <1>1 DEF TypeOK, JobStates, Carry, Rest

LEMMA GotoFacts ==
    ASSUME TypeOK, NEW j \in Jobs, job[j].op \in Ops, NEW at \in Stages, Goto(j, at)
    PROVE  /\ job' \in [Jobs -> JobStates] /\ Rest(j)
           /\ job[j].row \in Rows /\ job[j].hash \in Nat
           /\ job'[j].op = job[j].op /\ job'[j].at = at
           /\ job'[j].row = job[j].row /\ job'[j].hash = job[j].hash
  <1>1. job[j] \in [op : Ops, at : Stages, row : Rows, hash : Nat]
    BY DEF TypeOK, JobStates, Idle, Ops
  <1> QED
    BY <1>1 DEF TypeOK, JobStates, Goto, Rest

\* Ending a job.
LEMMA EndFacts ==
    ASSUME TypeOK, NEW j \in Jobs, End(j)
    PROVE  /\ job' \in [Jobs -> JobStates] /\ Rest(j) /\ job'[j].op = "idle"
           /\ lock' = IF lock = j THEN "free" ELSE lock
  BY DEF TypeOK, End, JobStates, Rest, Idle

-----------------------------------------------------------------------------
(* What a call to the chain does.                                          *)

\* The transaction goes to the end of the queue and is not mined.
LEMMA SendFacts ==
    ASSUME TypeOK, NEW call \in {"release", "cancel", "penalty"}, Send(call)
    PROVE  /\ txs' \in Seq(Sent) /\ Len(txs') = Len(txs) + 1
           /\ \A n \in 1 .. Len(txs) : txs'[n] = txs[n]
           /\ txs'[Len(txs) + 1] = [call |-> call, outcome |-> "pending"]
           /\ booking' = booking /\ agreed' = agreed
  <1> DEFINE tx == [call |-> call, outcome |-> "pending"]
  <1>1. tx \in Sent /\ txs \in Seq(Sent) /\ txs' = Append(txs, tx)
    BY DEF TypeOK, Send, Sent
  <1>2. booking' = booking /\ agreed' = agreed
    BY DEF Send
  <1> HIDE DEF tx
  <1>3. txs' \in Seq(Sent) /\ Len(txs') = Len(txs) + 1
           /\ (\A n \in 1 .. Len(txs) : txs'[n] = txs[n])
           /\ txs'[Len(txs) + 1] = tx
    BY <1>1
  <1> QED
    BY <1>2, <1>3 DEF tx

\* Facts that many leaves need.
LEMMA Basics ==
    ASSUME TypeOK
    PROVE  /\ Len(txs) \in Nat /\ Len(txs) + 1 \in Nat /\ order \in Rows
           /\ lock \in Jobs \cup {"free", "orphan"}
           /\ \A j \in Jobs : job[j].op \in Ops =>
                 job[j].row \in Rows /\ job[j].hash \in Nat /\ job[j].at \in Stages
  <1>1. \A j \in Jobs : job[j].op \in Ops =>
           job[j] \in [op : Ops, at : Stages, row : Rows, hash : Nat]
    BY DEF TypeOK, JobStates, Idle, Ops
  <1> QED
    BY <1>1 DEF TypeOK

LEMMA Parts ==
    ASSUME IInv
    PROVE  /\ TypeOK /\ ChainInv /\ HashInv /\ OtpInv /\ WebhookInv
           /\ Apart => LockInv /\ SideInv /\ RowInv
           /\ Apart /\ ~overlap => CreditInv
  BY DEF IInv

-----------------------------------------------------------------------------
(* Steps of a kind: how the jobs move, and what is written to the row.     *)

\* What j's next stage stands for is so.
Justified(j) ==
    /\ job'[j].hash <= Len(txs)
    /\ job'[j].at \in {"receipt", "hash"} => job'[j].hash # 0
    /\ job'[j].op = "sweep" /\ job'[j].at = "release" => confirmed
    /\ Apart => /\ ToRefund(j)' => order'.escrow \in Refunds
                /\ KnowsRelease(j)' => booking = "released"
                /\ KnowsRefund(j)' => booking = "refunded"

Ends(j) ==
    /\ job' \in [Jobs -> JobStates] /\ Rest(j) /\ job'[j].op = "idle"
    /\ lock' = IF lock = j THEN "free" ELSE lock

Advances(j) ==
    /\ job' \in [Jobs -> JobStates] /\ Rest(j) /\ UNCHANGED lock
    /\ job[j].op \in Ops \ {"milestone"}
    /\ job'[j].op = job[j].op /\ job'[j].row = job[j].row
    /\ Locking(j)' => Locking(j)
    /\ Justified(j)

JobsMove ==
    UNCHANGED <<job, lock>> \/ \E j \in Jobs : Ends(j) \/ Advances(j)

HashesKnown ==
    /\ order'.releaseHash <= Len(txs) /\ order'.txHash <= Len(txs)
    /\ order'.refundHash <= Len(txs)
OtpTyped == otp' \in {"active", "verified", "expired"} /\ faults' \in Nat
Otherwise == UNCHANGED <<booking, agreed, txs, confirmed, overlap, lapsed, stale>>

\* A job that moves stays on its side.
LEMMA MovedSides ==
    ASSUME IInv, JobsMove, Apart, NEW i \in Jobs
    PROVE  /\ job'[i].op \in {"cancel", "refund"} => job[i].op \in {"cancel", "refund"}
           /\ ToRefund(i)' => ToRefund(i) \/ order'.escrow \in Refunds
           /\ job'[i].op = "sweep" /\ job'[i].at # "batch"
                 => job[i].op = "sweep" /\ job[i].at # "batch"
  <1>1. CASE UNCHANGED <<job, lock>>
    BY <1>1 DEF ToRefund
  <1>2. ASSUME NEW j \in Jobs, Ends(j) \/ Advances(j), i # j
        PROVE  job'[i] = job[i]
    BY <1>2 DEF Ends, Advances, Rest
  <1>3. CASE Ends(i)
    BY <1>3 DEF Ends, ToRefund
  <1>4. CASE Advances(i)
    BY <1>4 DEF Advances, Justified, Locking
  <1> QED
    BY <1>1, <1>2, <1>3, <1>4 DEF JobsMove, ToRefund

\* A write that leaves both statuses as they are.
LEMMA KeptStep ==
    ASSUME SettlementAssumption, IInv, JobsMove, Otherwise, OtpTyped, HashesKnown,
           order' \in Rows, order'.status = order.status, order'.escrow = order.escrow,
           UNCHANGED <<timeline, credits>>
    PROVE  IInv'
  <1>1. TypeOK'
    BY Parts DEF TypeOK, JobsMove, Ends, Advances, Otherwise, OtpTyped, HashesKnown
  <1>2. ChainInv' /\ WebhookInv'
    BY Parts DEF ChainInv, WebhookInv, SentRefund, SentRelease, JobsMove, Ends, Advances,
                 Otherwise, Rest
  <1>3. HashInv'
    BY Parts DEF HashInv, JobsMove, Ends, Advances, Otherwise, Rest, Justified, Ops
  <1>4. OtpInv'
    BY Parts DEF OtpInv, SentRelease, JobsMove, Ends, Advances, Otherwise, Rest, Justified
  <1>5. ASSUME Apart PROVE LockInv' /\ SideInv' /\ RowInv'
    <2>1. LockInv'
      BY <1>5, Parts DEF LockInv, Locking, JobsMove, Ends, Advances, Rest,
                         SettlementAssumption
    <2>2. SideInv'
      BY <1>5, Parts, MovedSides DEF SideInv, SentRefund, Otherwise
    <2>3. RowInv'
      BY <1>5, Parts DEF RowInv, KnowsRelease, KnowsRefund, JobsMove, Ends, Advances,
                         Rest, Justified, Otherwise
    <2> QED
      BY <2>1, <2>2, <2>3
  <1>6. ASSUME Apart, ~overlap PROVE CreditInv'
    BY <1>6, Parts DEF CreditInv, JobsMove, Ends, Advances, Rest, Otherwise
  <1> QED
    BY <1>1, <1>2, <1>3, <1>4, <1>5, <1>6 DEF IInv, Otherwise

\* A write for a booking that was released.
LEMMA ReleaseStep ==
    ASSUME SettlementAssumption, IInv, JobsMove, Otherwise, OtpTyped, HashesKnown,
           Apart => booking = "released",
           order' \in Rows, order'.escrow = "released",
           \/ /\ order'.status = order.status /\ UNCHANGED <<timeline, credits>>
           \/ /\ order'.status = "payment_released" /\ timeline' = timeline \cup {3}
              /\ order.status # "payment_released" /\ credits' = credits + 1
    PROVE  IInv'
  <1>1. TypeOK'
    BY Parts DEF TypeOK, JobsMove, Ends, Advances, Otherwise, OtpTyped, HashesKnown,
                 Delivered
  <1>2. ChainInv' /\ WebhookInv'
    BY Parts DEF ChainInv, WebhookInv, SentRefund, SentRelease, JobsMove, Ends, Advances,
                 Otherwise, Rest
  <1>3. HashInv'
    BY Parts DEF HashInv, JobsMove, Ends, Advances, Otherwise, Rest, Justified, Ops
  <1>4. OtpInv'
    BY Parts DEF OtpInv, SentRelease, JobsMove, Ends, Advances, Otherwise, Rest, Justified
  <1>5. ASSUME Apart PROVE LockInv' /\ SideInv' /\ RowInv' /\ confirmed
    <2>1. confirmed
      BY <1>5, Parts DEF ChainInv, OtpInv
    <2>2. LockInv'
      BY <1>5, Parts DEF LockInv, Locking, JobsMove, Ends, Advances, Rest,
                         SettlementAssumption
    <2>3. SideInv'
      BY <1>5, <2>1, Parts, MovedSides
         DEF SideInv, SentRefund, Otherwise, Unpaid, Refunds, Refunding
    <2>4. RowInv'
      BY <1>5, <2>1, Parts DEF RowInv, KnowsRelease, KnowsRefund, JobsMove, Ends,
                               Advances, Rest, Justified, Otherwise
    <2> QED
      BY <2>1, <2>2, <2>3, <2>4
  <1>6. ASSUME Apart, ~overlap PROVE CreditInv'
    <2>1. credits \in Nat
      BY Parts DEF TypeOK
    <2> QED
      BY <1>5, <1>6, <2>1, Parts DEF CreditInv, JobsMove, Ends, Advances, Rest, Otherwise
  <1> QED
    BY <1>1, <1>2, <1>3, <1>4, <1>5, <1>6 DEF IInv, Otherwise

\* A write of a refund, pending or done.
LEMMA RefundStep ==
    ASSUME SettlementAssumption, IInv, JobsMove, Otherwise, OtpTyped, HashesKnown,
           Apart => ~confirmed /\ (order'.escrow = "refunded" => booking = "refunded"),
           order' \in Rows, order'.escrow \in Refunds,
           order'.status \in {order.status, "cancelled"}, UNCHANGED <<timeline, credits>>
    PROVE  IInv'
  <1>1. TypeOK'
    BY Parts DEF TypeOK, JobsMove, Ends, Advances, Otherwise, OtpTyped, HashesKnown
  <1>2. ChainInv' /\ WebhookInv'
    BY Parts DEF ChainInv, WebhookInv, SentRefund, SentRelease, JobsMove, Ends, Advances,
                 Otherwise, Rest
  <1>3. HashInv'
    BY Parts DEF HashInv, JobsMove, Ends, Advances, Otherwise, Rest, Justified, Ops
  <1>4. OtpInv'
    BY Parts DEF OtpInv, SentRelease, JobsMove, Ends, Advances, Otherwise, Rest,
                 Justified, Refunds, Refunding
  <1>5. ASSUME Apart PROVE LockInv' /\ SideInv' /\ RowInv' /\ booking # "released"
    <2>1. booking # "released"
      BY <1>5, Parts DEF ChainInv, OtpInv
    <2>2. LockInv'
      BY <1>5, Parts DEF LockInv, Locking, JobsMove, Ends, Advances, Rest,
                         SettlementAssumption
    <2>3. SideInv'
      BY <1>5, Parts, MovedSides DEF SideInv, SentRefund, Otherwise
    <2>4. RowInv'
      BY <1>5, <2>1, Parts DEF RowInv, KnowsRelease, KnowsRefund, JobsMove, Ends,
                               Advances, Rest, Justified, Otherwise, Refunds, Refunding
    <2> QED
      BY <2>1, <2>2, <2>3, <2>4
  <1>6. ASSUME Apart, ~overlap PROVE CreditInv'
    <2>1. credits = 0
      BY <1>5, <1>6, Parts DEF RowInv, TypeOK
    <2> QED
      BY <1>5, <1>6, <2>1, Parts DEF CreditInv, JobsMove, Ends, Advances, Rest, Otherwise
  <1> QED
    BY <1>1, <1>2, <1>3, <1>4, <1>5, <1>6 DEF IInv, Otherwise

-----------------------------------------------------------------------------
(* Steps of a kind: a call to the chain, and the beginning of a job.       *)

\* A job that may do so sends a release or a refund.
LEMMA SendStep ==
    ASSUME SettlementAssumption, IInv, NEW j \in Jobs,
           NEW call \in {"release", "cancel", "penalty"}, Send(call),
           job[j].op \in Ops \ {"milestone"}, job[j].at # "batch",
           NEW at \in {"receipt", "hash"}, Carry(j, at, Len(txs) + 1),
           UNCHANGED <<row_vars, lock, confirmed, overlap, lapsed, stale>>,
           faults' \in Nat,
           \/ call = "release" /\ job[j].op \in {"deliver", "sweep"} /\ confirmed
           \/ call # "release" /\ job[j].op \in {"cancel", "refund"}
              /\ (Apart => ToRefund(j))
    PROVE  IInv'
  <1>1. /\ txs' \in Seq(Sent) /\ Len(txs') = Len(txs) + 1
        /\ \A n \in 1 .. Len(txs) : txs'[n] = txs[n]
        /\ txs'[Len(txs) + 1].call = call /\ txs'[Len(txs) + 1].outcome = "pending"
        /\ booking' = booking /\ agreed' = agreed /\ Len(txs) \in Nat
    BY Parts, SendFacts, Basics
  <1>2. /\ job' \in [Jobs -> JobStates] /\ Rest(j)
        /\ job'[j].op = job[j].op /\ job'[j].at = at /\ job'[j].row = job[j].row
        /\ job'[j].hash = Len(txs) + 1
    BY Parts, Basics, CarryFacts DEF Stages
  <1>3. /\ order' = order /\ timeline' = timeline /\ otp' = otp /\ credits' = credits
        /\ lock' = lock /\ confirmed' = confirmed /\ overlap' = overlap
        /\ lapsed' = lapsed /\ stale' = stale
    BY DEF row_vars
  <1> USE <1>1, <1>2, <1>3
  <1>4. TypeOK'
    <2>1. /\ order'.releaseHash <= Len(txs') /\ order'.txHash <= Len(txs')
          /\ order'.refundHash <= Len(txs')
      BY Parts DEF TypeOK, Rows
    <2> QED
      BY <2>1, Parts DEF TypeOK
  <1>5. /\ SentRelease' <=> SentRelease \/ call = "release"
        /\ SentRefund' <=> SentRefund \/ call # "release"
    <2>1. 1 .. Len(txs') = 1 .. Len(txs) \cup {Len(txs) + 1}
      OBVIOUS
    <2>2. \A n \in 1 .. Len(txs') : IF n = Len(txs) + 1 THEN txs'[n].call = call
                                   ELSE n \in 1 .. Len(txs) /\ txs'[n] = txs[n]
      BY <2>1
    <2>3. \A n \in 1 .. Len(txs) : n \in 1 .. Len(txs')
      BY <2>1
    <2> HIDE <1>1, <1>2, <1>3
    <2>4. Len(txs) + 1 \in 1 .. Len(txs') /\ txs'[Len(txs) + 1].call = call
      BY <1>1, <2>1
    <2>5. \A n \in 1 .. Len(txs) : txs'[n] = txs[n]
      BY <1>1
    <2> QED
      BY <2>2, <2>3, <2>4, <2>5 DEF SentRelease, SentRefund
  <1>6. ChainInv' /\ WebhookInv'
    BY <1>5, Parts DEF ChainInv, WebhookInv, Rest
  <1>7. HashInv'
    <2>1. \A i \in Jobs : job[i].op \in Ops =>
             job[i].hash \in Nat /\ job[i].row.releaseHash \in Nat
             /\ job[i].row.refundHash \in Nat
      BY Parts, Basics DEF Rows
    <2>2. \A i \in Jobs \ {j} : job'[i].op \in Ops \ {"milestone"} =>
             /\ job'[i].hash <= Len(txs') /\ job'[i].row.releaseHash <= Len(txs')
             /\ job'[i].row.refundHash <= Len(txs')
      BY <2>1, Parts DEF HashInv, Rest
    <2>3. job'[j].row.releaseHash <= Len(txs') /\ job'[j].row.refundHash <= Len(txs')
      BY <2>1, Parts DEF HashInv
    <2>4. job'[j].hash <= Len(txs') /\ job'[j].hash # 0 /\ job'[j].op # "milestone"
      OBVIOUS
    <2> QED
      BY <2>2, <2>3, <2>4, Parts DEF HashInv, Rest
  <1>8. OtpInv'
    BY <1>5, Parts DEF OtpInv, Rest
  <1>9. ASSUME Apart PROVE LockInv' /\ SideInv' /\ RowInv'
    <2>1. LockInv'
      BY <1>9, Parts DEF LockInv, Locking, Rest
    <2>2. SideInv'
      BY <1>5, <1>9, Parts DEF SideInv, ToRefund, Rest, LockInv, Locking
    <2>3. RowInv'
      BY <1>9, Parts DEF RowInv, KnowsRelease, KnowsRefund, Rest
    <2> QED
      BY <2>1, <2>2, <2>3
  <1>10. ASSUME Apart, ~overlap PROVE CreditInv'
    BY <1>10, Parts DEF CreditInv, Rest
  <1> QED
    BY <1>4, <1>6, <1>7, <1>8, <1>9, <1>10 DEF IInv

\* A job begins with the order's lock, or takes it for an order it has listed.
LEMMA LockedStep ==
    ASSUME SettlementAssumption, IInv, NEW j \in Jobs, Lock(j),
           job[j].op = "idle" \/ job[j].at = "batch",
           NEW op \in {"deliver", "sweep", "cancel", "refund"},
           NEW at \in Stages \ {"batch", "receipt", "hash"},
           job' \in [Jobs -> JobStates], Rest(j), job'[j].op = op, job'[j].at = at,
           job'[j].hash <= Len(txs), job'[j].row.releaseHash <= Len(txs),
           job'[j].row.refundHash <= Len(txs),
           job'[j].row.escrow = order.escrow \/ op = "refund",
           UNCHANGED <<row_vars, chain_vars, overlap, lapsed, faults>>,
           stale' \in BOOLEAN, stale => stale',
           \/ /\ op = "deliver" /\ confirmed' = TRUE
              /\ order.status \in {"arriving", "payment_released"}
              /\ order.escrow \in Unpaid \cup {"released"}
              /\ at = "release" \/ order.escrow = "released"
           \/ /\ op = "sweep" /\ at = "chain" /\ confirmed' = confirmed
              /\ order.escrow \in Refunds => stale'
           \/ /\ op = "cancel" /\ at = "pend" /\ confirmed' = confirmed
              /\ order.status \notin {"picked_up", "arriving"}
              /\ order.escrow \in Refunding \cup {"funded"}
           \/ /\ op = "refund" /\ at = "claim" /\ confirmed' = confirmed
              /\ Apart => order.escrow \in Refunds
    PROVE  IInv'
  <1>2. /\ order' = order /\ timeline' = timeline /\ otp' = otp /\ credits' = credits
        /\ booking' = booking /\ agreed' = agreed /\ txs' = txs
        /\ overlap' = overlap /\ lapsed' = lapsed /\ faults' = faults
        /\ lock = "free" /\ lock' = j /\ confirmed' \in BOOLEAN
    BY Parts DEF row_vars, chain_vars, Lock, TypeOK
  <1> USE <1>2
  <1>3. TypeOK'
    BY Parts DEF TypeOK
  <1>4. ChainInv' /\ WebhookInv' /\ HashInv'
    BY Parts DEF ChainInv, WebhookInv, HashInv, TypeOK, Rest, SentRelease, SentRefund
  <1>5. OtpInv'
    BY Parts DEF OtpInv, Rest, SentRelease
  <1>6. ASSUME Apart' PROVE LockInv' /\ SideInv' /\ RowInv'
    <2>1. \A i \in Jobs : ~Locking(i)
      BY <1>6, Parts DEF LockInv, SettlementAssumption
    <2>2. LockInv'
      BY <2>1 DEF LockInv, Locking, Rest
    <2>3. op \in {"cancel", "refund"} => ~confirmed
      BY <1>6, Parts DEF SideInv, RowInv, Unpaid, Refunds, Refunding
    <2>4. SideInv'
      BY <1>6, <2>1, <2>3, Parts DEF SideInv, ToRefund, Rest, Locking, SentRefund, Refunds,
                                 Unpaid, Refunding
    <2>5. RowInv'
      BY <1>6, Parts DEF RowInv, KnowsRelease, KnowsRefund, Rest
    <2> QED
      BY <2>2, <2>4, <2>5
  <1>7. ASSUME Apart', ~overlap PROVE CreditInv'
    BY <1>7, Parts DEF CreditInv, Rest
  <1> QED
    BY <1>3, <1>4, <1>5, <1>6, <1>7 DEF IInv

-----------------------------------------------------------------------------
(* How the code's own updates of `job` are moves.                          *)

LEMMA Same ==
    ASSUME IInv
    PROVE  /\ UNCHANGED order => HashesKnown /\ order' \in Rows
           /\ UNCHANGED <<otp, faults>> => OtpTyped
           /\ Fault /\ UNCHANGED otp => OtpTyped
  BY Parts DEF TypeOK, HashesKnown, OtpTyped, Fault

LEMMA EndMoves ==
    ASSUME IInv, NEW j \in Jobs, End(j)
    PROVE  JobsMove
  BY Parts, EndFacts DEF JobsMove, Ends

LEMMA NextMoves ==
    ASSUME IInv, NEW j \in Jobs, job[j].op \in Ops \ {"milestone"},
           job[j].op \in {"sweep", "refund"} => job[j].at # "batch",
           NEW at \in Stages \ {"pend"}, NEW h \in Nat, h <= Len(txs),
           Carry(j, at, h) \/ (Goto(j, at) /\ h = job[j].hash), UNCHANGED lock,
           at \in {"receipt", "hash"} => h # 0,
           job[j].op = "sweep" /\ at = "release" => confirmed,
           Apart =>
             /\ job[j].op \in {"cancel", "refund"} => order'.escrow \in Refunds
             /\ job[j].op = "deliver" /\ at \in {"persist", "guard", "complete", "final"}
                  => booking = "released"
             /\ job[j].op = "sweep" /\ at \in {"evidence", "complete"}
                  => booking = "released"
             /\ job[j].op = "cancel" /\ at \in {"confirm", "cleanup"}
                  => booking = "refunded"
             /\ job[j].op = "refund" /\ at = "finalize" => booking = "refunded"
    PROVE  JobsMove
  <1>1. /\ job' \in [Jobs -> JobStates] /\ Rest(j)
        /\ job'[j].op = job[j].op /\ job'[j].at = at
        /\ job'[j].row = job[j].row /\ job'[j].hash = h
    BY Parts, CarryFacts, GotoFacts
  <1>2. Justified(j)
    BY <1>1, Parts DEF RowInv, Justified, ToRefund, KnowsRelease, KnowsRefund
  <1> QED
    BY <1>1, <1>2 DEF JobsMove, Advances, Locking

\* complete_trip_tx, when it does something.
CompletedRow(h) ==
    /\ order' \in Rows /\ HashesKnown /\ order'.escrow = "released"
    /\ order'.status = "payment_released" /\ order.status # "payment_released"
    /\ timeline' = timeline \cup {3} /\ credits' = credits + 1
    /\ otp' \in {"active", "verified", "expired"}

LEMMA CompleteFacts ==
    ASSUME IInv, NEW h \in Nat, h <= Len(txs), NEW withOtp \in BOOLEAN,
           ~AlreadyComplete, CompleteTrip(h, withOtp)
    PROVE  CompletedRow(h)
  <1>1. /\ order' = [order EXCEPT !.status = "payment_released", !.escrow = "released",
                                  !.txHash = h]
        /\ timeline' = timeline \cup {3} /\ credits' = credits + 1
        /\ otp' \in {"verified", otp}
    BY DEF CompleteTrip, Delivered
  <1> QED
    BY <1>1, Parts DEF TypeOK, Rows, Statuses, HashesKnown, AlreadyComplete, CompletedRow

\* A release that is refused is marked as failed.
LEMMA FailStep ==
    ASSUME SettlementAssumption, IInv, NEW j \in Jobs, Ends(j), Otherwise, OtpTyped,
           HashesKnown, order' \in Rows, order'.status = order.status, confirmed,
           order'.escrow = "release_failed", booking \notin {"released", "refunded"},
           UNCHANGED <<timeline, credits>>
    PROVE  IInv'
  <1>1. TypeOK'
    BY Parts DEF TypeOK, Ends, Otherwise, OtpTyped, HashesKnown
  <1>2. ChainInv' /\ WebhookInv' /\ HashInv' /\ OtpInv'
    BY Parts DEF ChainInv, WebhookInv, HashInv, OtpInv, SentRefund, SentRelease, Ends,
                 Otherwise, Rest, Ops
  <1>3. ASSUME Apart PROVE LockInv' /\ SideInv' /\ RowInv'
    <2>1. LockInv'
      BY <1>3, Parts DEF LockInv, Locking, Ends, Rest, SettlementAssumption
    <2>2. SideInv'
      BY <1>3, Parts DEF SideInv, SentRefund, ToRefund, Ends, Rest, Otherwise, Unpaid
    <2>3. RowInv'
      BY <1>3, Parts DEF RowInv, KnowsRelease, KnowsRefund, Ends, Rest, Otherwise
    <2> QED
      BY <2>1, <2>2, <2>3
  <1>4. ASSUME Apart, ~overlap PROVE CreditInv'
    BY <1>4, Parts DEF CreditInv, Ends, Rest, Otherwise
  <1> QED
    BY <1>1, <1>2, <1>3, <1>4 DEF IInv, Otherwise

-----------------------------------------------------------------------------
(* The delivery.                                                           *)

LEMMA DeliveryStep ==
    ASSUME SettlementAssumption, IInv, NEW j \in Jobs,
           \/ Release(j, "deliver", "persist") \/ Mismatch(j) \/ CannotRelease(j)
           \/ ReleaseMined(j) \/ PersistRelease(j) \/ PersistFails(j)
           \/ GuardStatus(j) \/ CompleteDelivery(j) \/ FinishDelivery(j)
    PROVE  IInv'
  <1>1. /\ job[j].op = "deliver" /\ job[j].op \in Ops \ {"milestone"} /\ confirmed
        /\ job[j].hash \in Nat /\ job[j].hash <= Len(txs) /\ job[j].row \in Rows
        /\ job[j].row.releaseHash \in Nat /\ job[j].row.releaseHash <= Len(txs)
        /\ Len(txs) \in Nat
    <2>1. job[j].op = "deliver"
      BY DEF Release, Mismatch, CannotRelease, ReleaseMined, PersistRelease, PersistFails,
             GuardStatus, CompleteDelivery, FinishDelivery, At
    <2> QED
      BY <2>1, Parts, Basics DEF OtpInv, HashInv, Ops, Rows
  <1>2. Apart => booking # "refunded"
    BY <1>1, Parts DEF SideInv, ChainInv
  <1>3. Apart /\ job[j].at \in {"persist", "guard", "complete", "final"}
           => booking = "released"
    BY <1>1, Parts DEF RowInv, KnowsRelease
  <1>4. CASE Release(j, "deliver", "persist")
    <2>1. CASE Paid /\ Carry(j, "persist", job[j].row.releaseHash) /\ UNCHANGED chain_vars
      <3>1. JobsMove
        BY <1>1, <1>2, <1>4, <2>1, NextMoves DEF Release, Paid, Stages
      <3> QED
        BY <1>4, <2>1, <3>1, KeptStep, Same
           DEF Release, row_vars, chain_vars, env_vars, Otherwise
    <2>2. CASE Send("release") /\ Carry(j, "receipt", Len(txs) + 1)
      <3>1. /\ UNCHANGED <<row_vars, lock, confirmed, overlap, lapsed, stale>>
            /\ job[j].at = "release" /\ faults' \in Nat
        BY <1>4, Parts DEF Release, At, env_vars, TypeOK
      <3> QED
        BY <1>1, <1>4, <2>2, <3>1, SendStep
    <2> QED
      BY <1>4, <2>1, <2>2 DEF Release
  <1>5. CASE CannotRelease(j)
    BY <1>5, EndMoves, KeptStep, Same
       DEF CannotRelease, row_vars, chain_vars, env_vars, Otherwise
  <1>6. CASE ReleaseMined(j)
    <2>1. CASE Confirmed(j, "released") /\ Goto(j, "persist") /\ UNCHANGED lock
      <3>1. job[j].hash \in 1 .. Len(txs)
        BY <1>1, <1>6, Parts DEF HashInv, ReleaseMined, At
      <3>2. booking = "released"
        BY <2>1, <3>1, Parts DEF ChainInv, Confirmed
      <3>3. JobsMove
        BY <1>1, <2>1, <3>2, NextMoves DEF Stages
      <3> QED
        BY <1>6, <3>3, KeptStep, Same
           DEF ReleaseMined, row_vars, chain_vars, env_vars, Otherwise
    <2>2. CASE End(j)
      BY <1>6, <2>2, EndMoves, KeptStep, Same
         DEF ReleaseMined, row_vars, chain_vars, env_vars, Otherwise
    <2> QED
      BY <1>6, <2>1, <2>2 DEF ReleaseMined
  <1>7. CASE PersistRelease(j)
    <2>1. JobsMove
      BY <1>1, <1>3, <1>7, NextMoves DEF PersistRelease, At, Stages
    <2>2. /\ order' \in Rows /\ order'.escrow = "released" /\ order'.status = order.status
          /\ HashesKnown
      BY <1>1, <1>7, Parts DEF PersistRelease, RecordRelease, TypeOK, Rows, HashesKnown
    <2> QED
      BY <1>3, <1>7, <2>1, <2>2, ReleaseStep, Same
         DEF PersistRelease, At, chain_vars, env_vars, Otherwise
  <1>8. CASE PersistFails(j)
    <2>1. JobsMove
      BY <1>1, <1>3, <1>8, NextMoves DEF PersistFails, At, Stages
    <2> QED
      BY <1>8, <2>1, KeptStep, Same
         DEF PersistFails, Fault, row_vars, chain_vars, Otherwise
  <1>9. CASE GuardStatus(j)
    <2>1. JobsMove
      BY <1>1, <1>3, <1>9, NextMoves, EndMoves DEF GuardStatus, At, Stages
    <2> QED
      BY <1>9, <2>1, KeptStep, Same
         DEF GuardStatus, row_vars, chain_vars, env_vars, Otherwise
  <1>10. CASE FinishDelivery(j)
    <2>1. CASE UNCHANGED <<order, otp>>
      BY <1>10, <2>1, EndMoves, KeptStep, Same
         DEF FinishDelivery, row_vars, chain_vars, env_vars, Otherwise
    <2>2. ASSUME otp' = "verified" PROVE OtpTyped
      BY <1>10, <2>2, Parts DEF FinishDelivery, env_vars, OtpTyped, TypeOK
    <2>3. CASE RecordRelease(j) /\ otp' = "verified"
      <3>1. /\ order' \in Rows /\ order'.escrow = "released"
            /\ order'.status = order.status /\ HashesKnown
        BY <1>1, <2>3, Parts DEF RecordRelease, TypeOK, Rows, HashesKnown
      <3> QED
        BY <1>3, <1>10, <2>2, <2>3, <3>1, EndMoves, ReleaseStep
           DEF FinishDelivery, At, chain_vars, env_vars, Otherwise
    <2>4. CASE UNCHANGED order /\ otp' = "verified"
      <3>1. order' \in Rows /\ order' = order /\ HashesKnown
        BY <2>4, Parts DEF TypeOK, HashesKnown
      <3> QED
        BY <1>10, <2>2, <2>4, <3>1, EndMoves, KeptStep
           DEF FinishDelivery, chain_vars, env_vars, Otherwise
    <2> QED
      BY <1>10, <2>1, <2>3, <2>4 DEF FinishDelivery
  <1>11. CASE CompleteDelivery(j)
    <2>1. JobsMove
      BY <1>1, <1>3, <1>11, NextMoves, EndMoves DEF CompleteDelivery, At, Stages
    <2>2. CASE UNCHANGED row_vars
      BY <1>11, <2>1, <2>2, KeptStep, Same
         DEF CompleteDelivery, row_vars, chain_vars, env_vars, Otherwise
    <2>3. CASE ~AlreadyComplete /\ CompleteTrip(job[j].hash, ~Stuck(job[j].row))
      <3>1. CompletedRow(job[j].hash)
        BY <1>1, <2>3, CompleteFacts
      <3>2. OtpTyped
        BY <1>11, <3>1, Parts DEF CompleteDelivery, CompletedRow, env_vars, OtpTyped, TypeOK
      <3> QED
        BY <1>3, <1>11, <2>1, <3>1, <3>2, ReleaseStep
           DEF CompleteDelivery, At, CompletedRow, chain_vars, env_vars, Otherwise
    <2> QED
      BY <1>11, <2>2, <2>3 DEF CompleteDelivery, CompleteTrip
  <1>12. CASE Mismatch(j)
    <2>1. Ends(j)
      BY <1>12, Parts, EndFacts DEF Mismatch, Ends
    <2>2. /\ order' \in Rows /\ HashesKnown
          /\ order'.status = order.status /\ order'.escrow = "release_failed"
      BY <1>12, Parts DEF Mismatch, TypeOK, Rows, HashesKnown, Unpaid
    <2>3. booking \notin {"released", "refunded"} /\ Otherwise /\ OtpTyped
          /\ UNCHANGED <<timeline, credits>>
      BY <1>12, Same DEF Mismatch, Paid, chain_vars, env_vars, Otherwise
    <2> QED
      BY <1>1, <2>1, <2>2, <2>3, FailStep
  <1> QED
    BY <1>4, <1>5, <1>6, <1>7, <1>8, <1>9, <1>10, <1>11, <1>12

-----------------------------------------------------------------------------
(* The release sweep.                                                      *)

LEMMA ReleaseSweepStep ==
    ASSUME SettlementAssumption, IInv, NEW j \in Jobs,
           \/ ConsultChain(j) \/ Release(j, "sweep", "evidence") \/ SweepFails(j)
           \/ SweepInterrupted(j) \/ SweepMined(j) \/ PersistEvidence(j)
           \/ FinalizeRelease(j)
    PROVE  IInv'
  <1>1. /\ job[j].op = "sweep" /\ job[j].op \in Ops \ {"milestone"}
        /\ job[j].hash \in Nat /\ job[j].hash <= Len(txs) /\ job[j].row \in Rows
        /\ job[j].row.releaseHash \in Nat /\ job[j].row.releaseHash <= Len(txs)
        /\ Len(txs) \in Nat /\ job[j].at # "batch"
    <2>1. job[j].op = "sweep" /\ job[j].at # "batch"
      BY DEF ConsultChain, Release, SweepFails, SweepInterrupted, SweepMined,
             PersistEvidence, FinalizeRelease, At
    <2> QED
      BY <2>1, Parts, Basics DEF HashInv, Ops, Rows
  <1>2. Apart => booking # "refunded"
    BY <1>1, Parts DEF SideInv, ChainInv
  <1>3. Apart /\ job[j].at \in {"evidence", "complete"} => booking = "released"
    BY <1>1, Parts DEF RowInv, KnowsRelease
  <1>4. job[j].at = "release" \/ job[j].row.escrow = "release_failed" => confirmed
    BY <1>1, Parts DEF OtpInv
  <1>5. CASE ConsultChain(j)
    <2>1. JobsMove
      BY <1>1, <1>2, <1>4, <1>5, NextMoves, EndMoves DEF ConsultChain, Paid, Stages
    <2> QED
      BY <1>5, <2>1, KeptStep, Same
         DEF ConsultChain, row_vars, chain_vars, env_vars, Otherwise
  <1>6. CASE Release(j, "sweep", "evidence")
    <2>1. CASE Paid /\ Carry(j, "evidence", job[j].row.releaseHash)
               /\ UNCHANGED chain_vars
      <3>1. JobsMove
        BY <1>1, <1>2, <1>6, <2>1, NextMoves DEF Release, Paid, Stages
      <3> QED
        BY <1>6, <2>1, <3>1, KeptStep, Same
           DEF Release, row_vars, chain_vars, env_vars, Otherwise
    <2>2. CASE Send("release") /\ Carry(j, "receipt", Len(txs) + 1)
      <3>1. /\ UNCHANGED <<row_vars, lock, confirmed, overlap, lapsed, stale>>
            /\ job[j].at = "release" /\ faults' \in Nat
        BY <1>6, Parts DEF Release, At, env_vars, TypeOK
      <3> QED
        BY <1>1, <1>4, <2>2, <3>1, SendStep
    <2> QED
      BY <1>6, <2>1, <2>2 DEF Release
  <1>7. ASSUME RecordAttempt(j)
        PROVE  /\ JobsMove /\ order' \in Rows /\ HashesKnown
               /\ order'.status = order.status /\ order'.escrow = order.escrow
    <2>1. job[j].row.attempts + 1 \in Nat
      BY <1>1 DEF Rows
    <2>2. order' = [order EXCEPT !.attempts = job[j].row.attempts + 1] /\ order \in Rows
      BY <1>7, Parts DEF RecordAttempt, TypeOK
    <2>3. /\ order' \in Rows /\ order'.status = order.status
          /\ order'.escrow = order.escrow /\ order'.releaseHash = order.releaseHash
          /\ order'.txHash = order.txHash /\ order'.refundHash = order.refundHash
      BY <2>1, <2>2 DEF Rows
    <2> QED
      BY <1>7, <2>3, Parts, EndMoves DEF RecordAttempt, TypeOK, HashesKnown
  <1>8. CASE SweepFails(j)
    BY <1>7, <1>8, KeptStep, Same DEF SweepFails, chain_vars, env_vars, Otherwise
  <1>9. CASE SweepInterrupted(j)
    BY <1>7, <1>9, KeptStep, Same DEF SweepInterrupted, Fault, chain_vars, Otherwise
  <1>10. CASE SweepMined(j)
    <2>1. job[j].hash \in 1 .. Len(txs)
      BY <1>1, <1>10, Parts DEF HashInv, SweepMined, At
    <2>2. booking = "released"
      BY <1>10, <2>1, Parts DEF ChainInv, Confirmed, SweepMined
    <2>3. JobsMove
      BY <1>1, <1>10, <2>2, NextMoves DEF SweepMined, Stages
    <2> QED
      BY <1>10, <2>3, KeptStep, Same
         DEF SweepMined, row_vars, chain_vars, env_vars, Otherwise
  <1>11. CASE PersistEvidence(j)
    <2>1. JobsMove
      BY <1>1, <1>3, <1>11, NextMoves DEF PersistEvidence, At, Stages
    <2>2. /\ order' \in Rows /\ order'.escrow = "released" /\ order'.status = order.status
          /\ HashesKnown
      <3>1. \/ order' = [order EXCEPT !.escrow = "released", !.releaseHash = job[j].hash]
            \/ order' = [order EXCEPT !.escrow = "released"]
        BY <1>11 DEF PersistEvidence, RecordRelease
      <3>2. /\ order \in Rows /\ order.releaseHash <= Len(txs)
            /\ order.txHash <= Len(txs) /\ order.refundHash <= Len(txs)
        BY Parts DEF TypeOK
      <3>3. CASE order' = [order EXCEPT !.escrow = "released", !.releaseHash = job[j].hash]
        BY <1>1, <3>2, <3>3 DEF Rows, HashesKnown
      <3>4. CASE order' = [order EXCEPT !.escrow = "released"]
        BY <3>2, <3>4 DEF Rows, HashesKnown
      <3> QED
        BY <3>1, <3>3, <3>4
    <2> QED
      BY <1>3, <1>11, <2>1, <2>2, ReleaseStep, Same
         DEF PersistEvidence, At, chain_vars, env_vars, Otherwise
  <1>12. CASE FinalizeRelease(j)
    <2>1. CASE UNCHANGED row_vars
      BY <1>12, <2>1, EndMoves, KeptStep, Same
         DEF FinalizeRelease, row_vars, chain_vars, env_vars, Otherwise
    <2>2. CASE ~AlreadyComplete /\ CompleteTrip(job[j].hash, FALSE)
      <3>1. CompletedRow(job[j].hash)
        BY <1>1, <2>2, CompleteFacts
      <3>2. OtpTyped
        BY <1>12, <3>1, Parts DEF FinalizeRelease, CompletedRow, env_vars, OtpTyped, TypeOK
      <3> QED
        BY <1>3, <1>12, <3>1, <3>2, EndMoves, ReleaseStep
           DEF FinalizeRelease, At, CompletedRow, chain_vars, env_vars, Otherwise
    <2> QED
      BY <1>12, <2>1, <2>2 DEF FinalizeRelease, CompleteTrip
  <1> QED
    BY <1>5, <1>6, <1>8, <1>9, <1>10, <1>11, <1>12

-----------------------------------------------------------------------------
(* The cancellation.                                                       *)

LEMMA CancelStep ==
    ASSUME SettlementAssumption, IInv, NEW j \in Jobs,
           Customer(j) \/ CompensateRefund(j)
    PROVE  IInv'
  <1>1. /\ job[j].op = "cancel" /\ job[j].op \in Ops \ {"milestone"}
        /\ job[j].hash \in Nat /\ job[j].hash <= Len(txs) /\ job[j].row \in Rows
        /\ job[j].row.refundHash \in Nat /\ job[j].row.refundHash <= Len(txs)
        /\ Len(txs) \in Nat
    <2>1. job[j].op = "cancel"
      BY DEF Customer, RecordRefundPending, SubmitRefund, PersistRefundHash, RefundMined,
             ConfirmRefunded, CleanUp, CompensateRefund, At
    <2> QED
      BY <2>1, Parts, Basics DEF HashInv, Ops, Rows
  <1>2. Apart => ~confirmed /\ (ToRefund(j) => order.escrow \in Refunds)
    BY <1>1, Parts DEF SideInv
  <1>3. Apart /\ job[j].at \in {"confirm", "cleanup"} => booking = "refunded"
    BY <1>1, Parts DEF RowInv, KnowsRefund
  <1>4. job[j].at # "pend" => ToRefund(j)
    BY <1>1 DEF ToRefund
  <1>5. CASE RecordRefundPending(j)
    <2>1. CASE UNCHANGED <<order, lock>> /\ Carry(j, "refund", job[j].row.refundHash)
               /\ job[j].row.escrow = "refund_pending"
      <3>1. JobsMove
        BY <1>1, <1>2, <2>1, NextMoves DEF Stages, ToRefund, Refunding
      <3> QED
        BY <1>5, <2>1, <3>1, KeptStep, Same
           DEF RecordRefundPending, chain_vars, env_vars, Otherwise
    <2>2. CASE UNCHANGED order /\ End(j)
      BY <1>5, <2>2, EndMoves, KeptStep, Same
         DEF RecordRefundPending, chain_vars, env_vars, Otherwise
    <2>3. CASE /\ order' = [order EXCEPT !.status = "cancelled",
                                         !.escrow = "refund_pending",
                                         !.tries = job[j].row.tries + 1,
                                         !.fee = @ \/ Penalised(job[j].row)]
               /\ Carry(j, "refund", order.refundHash) /\ UNCHANGED lock
      <3> DEFINE fee == order.fee \/ Penalised(job[j].row)
      <3>1. /\ order' \in Rows /\ order'.status = "cancelled" /\ HashesKnown
            /\ order'.escrow = "refund_pending"
        <4>1. order \in Rows /\ job[j].row.tries + 1 \in Nat
          <5>1. order \in Rows
            BY Parts DEF TypeOK
          <5>2. job[j].row.tries \in Nat
            BY <1>1 DEF Rows
          <5> QED
            BY <5>1, <5>2
        <4>2. fee \in BOOLEAN
          BY DEF Penalised
        <4>3. order' = [order EXCEPT !.status = "cancelled", !.escrow = "refund_pending",
                                     !.tries = job[j].row.tries + 1, !.fee = fee]
          BY <2>3
        <4> HIDE DEF fee
        <4>4. /\ order' \in Rows /\ order'.status = "cancelled"
              /\ order'.escrow = "refund_pending" /\ order'.releaseHash = order.releaseHash
              /\ order'.txHash = order.txHash /\ order'.refundHash = order.refundHash
          BY <4>1, <4>2, <4>3 DEF Rows, Statuses, Refunding
        <4> QED
          BY <4>4, Parts DEF TypeOK, HashesKnown
      <3>2. order.refundHash \in Nat /\ order.refundHash <= Len(txs)
        BY Parts DEF TypeOK, Rows
      <3>3. JobsMove
        <4>1. Carry(j, "refund", order.refundHash) /\ UNCHANGED lock
          BY <2>3
        <4>2. order'.escrow \in Refunds /\ "refund" \in Stages \ {"pend"}
          BY <3>1 DEF Stages, Refunds, Refunding
        <4> QED
          BY <1>1, <3>2, <4>1, <4>2, NextMoves
      <3> QED
        BY <1>2, <1>5, <3>1, <3>3, RefundStep, Same
           DEF RecordRefundPending, chain_vars, env_vars, Otherwise, Refunds, Refunding
    <2> QED
      BY <1>5, <2>1, <2>2, <2>3 DEF RecordRefundPending
  <1>6. CASE SubmitRefund(j)
    <2>1. CASE job[j].hash # 0 /\ Goto(j, "receipt") /\ UNCHANGED <<chain_vars, lock>>
      <3>1. JobsMove
        BY <1>1, <1>2, <1>4, <1>6, <2>1, NextMoves DEF SubmitRefund, row_vars, At, Stages
      <3> QED
        BY <1>6, <2>1, <3>1, KeptStep, Same
           DEF SubmitRefund, row_vars, chain_vars, env_vars, Otherwise
    <2>2. CASE /\ Send(RefundCall(Penalised(job[j].row)))
               /\ Carry(j, "hash", Len(txs) + 1) /\ UNCHANGED lock
      <3>1. /\ RefundCall(Penalised(job[j].row)) \in {"release", "cancel", "penalty"}
            /\ RefundCall(Penalised(job[j].row)) # "release"
        BY DEF RefundCall
      <3> QED
        <4>1. /\ UNCHANGED <<row_vars, lock, confirmed, overlap, lapsed, stale>>
              /\ job[j].at = "refund" /\ faults' \in Nat
          BY <1>6, <2>2, Parts DEF SubmitRefund, At, env_vars, TypeOK
        <4> QED
          BY <1>1, <1>4, <2>2, <3>1, <4>1, SendStep
    <2>3. CASE End(j) /\ UNCHANGED chain_vars
      BY <1>6, <2>3, EndMoves, KeptStep, Same
         DEF SubmitRefund, row_vars, chain_vars, env_vars, Otherwise
    <2> QED
      BY <1>6, <2>1, <2>2, <2>3 DEF SubmitRefund
  <1>7. CASE PersistRefundHash(j)
    <2>1. /\ order' \in Rows /\ HashesKnown
          /\ order'.status = order.status /\ order'.escrow = order.escrow
      BY <1>1, <1>7, Parts DEF PersistRefundHash, TypeOK, Rows, HashesKnown
    <2>2. job[j].hash # 0
      BY <1>1, <1>7, Parts DEF PersistRefundHash, At, HashInv
    <2>3. JobsMove
      BY <1>1, <1>2, <1>4, <1>7, <2>1, <2>2, NextMoves DEF PersistRefundHash, At, Stages
    <2> QED
      BY <1>7, <2>1, <2>3, KeptStep, Same
         DEF PersistRefundHash, chain_vars, env_vars, Otherwise
  <1>8. CASE RefundMined(j)
    <2>1. CASE Confirmed(j, "refunded") /\ Goto(j, "confirm") /\ UNCHANGED lock
      <3>1. job[j].hash \in 1 .. Len(txs)
        BY <1>1, <1>8, Parts DEF HashInv, RefundMined, At
      <3>2. booking = "refunded"
        BY <2>1, <3>1, Parts DEF ChainInv, Confirmed
      <3>3. JobsMove
        BY <1>1, <1>2, <1>4, <1>8, <2>1, <3>2, NextMoves DEF RefundMined, At, row_vars, Stages
      <3> QED
        BY <1>8, <3>3, KeptStep, Same
           DEF RefundMined, row_vars, chain_vars, env_vars, Otherwise
    <2>2. CASE End(j)
      BY <1>8, <2>2, EndMoves, KeptStep, Same
         DEF RefundMined, row_vars, chain_vars, env_vars, Otherwise
    <2> QED
      BY <1>8, <2>1, <2>2 DEF RefundMined
  <1>9. CASE ConfirmRefunded(j)
    <2>1. CASE order' = Refunded(j) /\ Goto(j, "cleanup") /\ UNCHANGED lock
      <3>1. /\ order' \in Rows /\ order'.status = "cancelled" /\ HashesKnown
            /\ order'.escrow = "refunded"
        BY <1>1, <2>1, Parts DEF Refunded, TypeOK, Rows, Statuses, HashesKnown
      <3>2. JobsMove
        BY <1>1, <1>3, <1>9, <2>1, <3>1, NextMoves DEF ConfirmRefunded, At, Stages, Refunds
      <3> QED
        BY <1>2, <1>3, <1>9, <3>1, <3>2, RefundStep, Same
           DEF ConfirmRefunded, At, chain_vars, env_vars, Otherwise, Refunds
    <2>2. CASE End(j) /\ UNCHANGED order
      BY <1>9, <2>2, EndMoves, KeptStep, Same
         DEF ConfirmRefunded, chain_vars, env_vars, Otherwise
    <2> QED
      BY <1>9, <2>1, <2>2 DEF ConfirmRefunded
  <1>10. CASE CleanUp(j)
    <2>1. OtpTyped
      BY <1>10, Parts DEF CleanUp, env_vars, OtpTyped, TypeOK
    <2> QED
      BY <1>10, <2>1, EndMoves, KeptStep, Same
         DEF CleanUp, chain_vars, env_vars, Otherwise
  <1>11. CASE CompensateRefund(j)
    <2>1. /\ order' \in Rows /\ order'.status = "cancelled" /\ HashesKnown
          /\ order'.escrow = "refund_pending"
      BY <1>1, <1>11, Parts
         DEF CompensateRefund, Refunded, TypeOK, Rows, Statuses, Refunding, HashesKnown
    <2> QED
      BY <1>2, <1>11, <2>1, EndMoves, RefundStep, Same
         DEF CompensateRefund, Fault, chain_vars, Otherwise, Refunds, Refunding
  <1> QED
    BY <1>5, <1>6, <1>7, <1>8, <1>9, <1>10, <1>11 DEF Customer

-----------------------------------------------------------------------------
(* The refund sweep.                                                       *)

LEMMA RefundSweepStep ==
    ASSUME SettlementAssumption, IInv, NEW j \in Jobs,
           \/ ClaimRefund(j) \/ ClaimFails(j) \/ ResubmitRefund(j) \/ RefundSweepFails(j)
           \/ RefundSweepInterrupted(j) \/ RefundSweepMined(j) \/ FinalizeRefund(j)
    PROVE  IInv'
  <1>1. /\ job[j].op = "refund" /\ job[j].op \in Ops \ {"milestone"}
        /\ job[j].hash \in Nat /\ job[j].hash <= Len(txs) /\ job[j].row \in Rows
        /\ Len(txs) \in Nat /\ job[j].at # "batch"
    <2>1. job[j].op = "refund" /\ job[j].at # "batch"
      BY DEF ClaimRefund, ClaimFails, ResubmitRefund, RefundSweepFails, RefundSweepInterrupted,
             RefundSweepMined, FinalizeRefund, At
    <2> QED
      BY <2>1, Parts, Basics DEF HashInv, Ops
  <1>2. Apart => ~confirmed /\ order.escrow \in Refunds
    BY <1>1, Parts DEF SideInv, ToRefund
  <1>3. Apart /\ job[j].at = "finalize" => booking = "refunded"
    BY <1>1, Parts DEF RowInv, KnowsRefund
  <1>4. ASSUME NEW n \in Nat, GiveUp(j, n)
        PROVE  /\ JobsMove /\ order' \in Rows /\ HashesKnown
               /\ order'.status = order.status /\ order'.escrow = order.escrow
    <2>1. /\ order' \in Rows /\ order'.status = order.status
          /\ order'.escrow = order.escrow /\ order'.releaseHash = order.releaseHash
          /\ order'.txHash = order.txHash /\ order'.refundHash = order.refundHash
      <3>1. order' = [order EXCEPT !.tries = n, !.by = "none"] /\ order \in Rows
        BY <1>4, Parts DEF GiveUp, TypeOK
      <3> QED
        BY <3>1 DEF Rows
    <2> QED
      BY <1>4, <2>1, Parts, EndMoves DEF GiveUp, TypeOK, HashesKnown
  <1>5. job[j].row.tries + 1 \in Nat
    BY <1>1 DEF Rows
  <1>6. ASSUME Claim(j)
        PROVE  /\ order' \in Rows /\ HashesKnown
               /\ order'.status = order.status /\ order'.escrow = order.escrow
    <2>1. order \in Rows /\ order.tries + 1 \in Nat
      BY Parts DEF TypeOK, Rows
    <2>2. /\ order' \in Rows /\ order'.status = order.status
          /\ order'.escrow = order.escrow /\ order'.releaseHash = order.releaseHash
          /\ order'.txHash = order.txHash /\ order'.refundHash = order.refundHash
      BY <1>6, <2>1 DEF Claim, Rows
    <2> QED
      BY <2>2, Parts DEF TypeOK, HashesKnown
  <1>12. CASE ClaimRefund(j) \/ ClaimFails(j)
    <2>1. UNCHANGED order \/ Claim(j)
      BY <1>12 DEF ClaimRefund, ClaimFails
    <2>2. /\ order' \in Rows /\ HashesKnown
          /\ order'.status = order.status /\ order'.escrow = order.escrow
      BY <1>6, <2>1, Same
    <2>3. JobsMove
      <3>1. CASE End(j)
        BY <3>1, EndMoves
      <3>2. CASE Goto(j, "submit") /\ UNCHANGED lock
        BY <1>1, <1>2, <2>2, <3>2, NextMoves DEF Stages
      <3> QED
        BY <1>12, <3>1, <3>2 DEF ClaimRefund, ClaimFails
    <2>4. Otherwise /\ OtpTyped /\ UNCHANGED <<timeline, credits>>
      BY <1>12, Same DEF ClaimRefund, ClaimFails, Fault, chain_vars, env_vars, Otherwise
    <2> QED
      BY <2>2, <2>3, <2>4, KeptStep
  <1>7. CASE ResubmitRefund(j)
    <2>1. CASE /\ job[j].hash # 0 /\ Goto(j, "receipt")
               /\ UNCHANGED <<order, chain_vars, lock, env_vars>>
      <3>1. JobsMove
        BY <1>1, <1>2, <2>1, NextMoves DEF Stages
      <3> QED
        BY <1>7, <2>1, <3>1, KeptStep, Same
           DEF ResubmitRefund, chain_vars, env_vars, Otherwise
    <2>2. CASE GiveUp(j, MaxRetries) /\ UNCHANGED <<chain_vars, env_vars>>
      <3>1. MaxRetries \in Nat
        BY DEF SettlementAssumption
      <3> QED
        BY <1>4, <1>7, <2>2, <3>1, KeptStep, Same
           DEF ResubmitRefund, chain_vars, env_vars, Otherwise
    <2>3. CASE /\ Send(RefundCall(job[j].row.fee))
               /\ Carry(j, "receipt", Len(txs) + 1) /\ UNCHANGED <<order, lock>>
               /\ Fault \/ UNCHANGED env_vars
      <3>1. /\ RefundCall(job[j].row.fee) \in {"release", "cancel", "penalty"}
            /\ RefundCall(job[j].row.fee) # "release"
        BY DEF RefundCall
      <3>2. UNCHANGED <<row_vars, lock, confirmed, overlap, lapsed, stale>>
            /\ faults' \in Nat
        BY <1>7, <2>3, Parts DEF ResubmitRefund, row_vars, env_vars, Fault, TypeOK
      <3> QED
        BY <1>1, <2>3, <3>1, <3>2, SendStep DEF ToRefund
    <2> QED
      BY <1>7, <2>1, <2>2, <2>3 DEF ResubmitRefund
  <1>8. CASE RefundSweepFails(j)
    BY <1>4, <1>5, <1>8, KeptStep, Same
       DEF RefundSweepFails, chain_vars, env_vars, Otherwise
  <1>9. CASE RefundSweepInterrupted(j)
    BY <1>4, <1>5, <1>9, KeptStep, Same
       DEF RefundSweepInterrupted, chain_vars, env_vars, Otherwise
  <1>10. CASE RefundSweepMined(j)
    <2>1. job[j].hash \in 1 .. Len(txs)
      BY <1>1, <1>10, Parts DEF HashInv, RefundSweepMined, At
    <2>2. booking = "refunded"
      BY <1>10, <2>1, Parts DEF ChainInv, Confirmed, RefundSweepMined
    <2>3. /\ order' \in Rows /\ HashesKnown
          /\ order'.status = order.status /\ order'.escrow = order.escrow
      BY <1>1, <1>10, Parts DEF RefundSweepMined, TypeOK, Rows, HashesKnown
    <2>4. JobsMove
      BY <1>1, <1>2, <1>10, <2>2, <2>3, NextMoves DEF RefundSweepMined, Stages
    <2> QED
      BY <1>10, <2>3, <2>4, KeptStep, Same
         DEF RefundSweepMined, chain_vars, env_vars, Otherwise
  <1>11. CASE FinalizeRefund(j)
    <2>1. CASE UNCHANGED order
      BY <1>11, <2>1, EndMoves, KeptStep, Same
         DEF FinalizeRefund, chain_vars, env_vars, Otherwise
    <2>2. CASE order' = [Refunded(j) EXCEPT !.by = "none"]
      <3>1. /\ order' \in Rows /\ order'.status = "cancelled" /\ HashesKnown
            /\ order'.escrow = "refunded"
        BY <1>1, <2>2, Parts DEF Refunded, TypeOK, Rows, Statuses, HashesKnown
      <3> QED
        BY <1>2, <1>3, <1>11, <3>1, EndMoves, RefundStep, Same
           DEF FinalizeRefund, At, chain_vars, env_vars, Otherwise, Refunds
    <2> QED
      BY <1>11, <2>1, <2>2 DEF FinalizeRefund
  <1> QED
    BY <1>7, <1>8, <1>9, <1>10, <1>11, <1>12

-----------------------------------------------------------------------------
(* The webhook.                                                            *)

\* An event's transaction was mined, and the booking ended as it says.
LEMMA EventFacts ==
    ASSUME IInv, NEW outcome \in {"released", "refunded"}, NEW h \in Mined(outcome)
    PROVE  h \in Nat /\ h # 0 /\ h <= Len(txs) /\ booking = outcome
  BY Parts, Basics DEF Mined, ChainInv

LEMMA WebhookStep ==
    ASSUME SettlementAssumption, IInv, NEW j \in Jobs, RecordEvent(j) \/ CompleteEvent(j)
    PROVE  IInv'
  <1>1. /\ job[j].op = "webhook" /\ job[j].op \in Ops \ {"milestone"}
        /\ job[j].hash \in Nat /\ job[j].hash <= Len(txs) /\ Len(txs) \in Nat
        /\ booking = "released"
    <2>1. job[j].op = "webhook"
      BY DEF RecordEvent, CompleteEvent, At
    <2> QED
      BY <2>1, Parts, Basics DEF HashInv, WebhookInv, Ops
  <1>2. CASE RecordEvent(j)
    <2>1. JobsMove
      BY <1>1, <1>2, NextMoves, EndMoves DEF RecordEvent, Stages
    <2>2. CASE UNCHANGED order
      BY <1>2, <2>1, <2>2, KeptStep, Same DEF RecordEvent, chain_vars, env_vars, Otherwise
    <2>3. CASE RecordRelease(j)
      <3>1. /\ order' \in Rows /\ order'.escrow = "released"
            /\ order'.status = order.status /\ HashesKnown
        BY <1>1, <2>3, Parts DEF RecordRelease, TypeOK, Rows, HashesKnown
      <3> QED
        BY <1>1, <1>2, <2>1, <3>1, ReleaseStep, Same
           DEF RecordEvent, chain_vars, env_vars, Otherwise
    <2> QED
      BY <1>2, <2>2, <2>3 DEF RecordEvent
  <1>3. CASE CompleteEvent(j)
    <2>1. CASE UNCHANGED row_vars
      BY <1>3, <2>1, EndMoves, KeptStep, Same
         DEF CompleteEvent, row_vars, chain_vars, env_vars, Otherwise
    <2>2. CASE ~AlreadyComplete /\ CompleteTrip(job[j].hash, FALSE)
      <3>1. CompletedRow(job[j].hash)
        BY <1>1, <2>2, CompleteFacts
      <3>2. OtpTyped
        BY <1>3, <3>1, Parts DEF CompleteEvent, CompletedRow, env_vars, OtpTyped, TypeOK
      <3> QED
        BY <1>1, <1>3, <3>1, <3>2, EndMoves, ReleaseStep
           DEF CompleteEvent, CompletedRow, chain_vars, env_vars, Otherwise
    <2> QED
      BY <1>3, <2>1, <2>2 DEF CompleteEvent, CompleteTrip
  <1> QED
    BY <1>2, <1>3

\* An event marks the escrow refunded, as the booking is.
LEMMA MarkRefunded ==
    ASSUME SettlementAssumption, IInv, JobsMove, Otherwise, OtpTyped,
           NEW h \in Nat, h <= Len(txs), UNCHANGED <<timeline, credits>>,
           order' = [order EXCEPT !.escrow = "refunded", !.refundHash = h],
           Apart => booking = "refunded"
    PROVE  IInv'
  <1>1. Apart => ~confirmed
    BY Parts DEF ChainInv, SideInv
  <1>2. /\ order' \in Rows /\ order'.escrow = "refunded"
        /\ order'.status = order.status /\ HashesKnown
    BY Parts DEF TypeOK, Rows, HashesKnown
  <1> QED
    BY <1>1, <1>2, RefundStep DEF Refunds

LEMMA CancelledStep ==
    ASSUME SettlementAssumption, IInv, BookingCancelled
    PROVE  IInv'
  <1>1. JobsMove /\ OtpTyped /\ Otherwise /\ UNCHANGED <<timeline, credits>>
    BY Parts, Same DEF BookingCancelled, JobsMove, chain_vars, env_vars, Otherwise, TypeOK
  <1>2. PICK h \in Mined("refunded") :
           order' = [order EXCEPT !.escrow = "refunded", !.refundHash = h]
    BY DEF BookingCancelled
  <1> QED
    BY <1>1, <1>2, EventFacts, MarkRefunded

\* What a withdrawal's event is taken for was decided when it began; the
\* booking has not changed since.
LEMMA SettleStep ==
    ASSUME SettlementAssumption, IInv, NEW j \in Jobs, SettleEvent(j)
    PROVE  IInv'
  <1> DEFINE was == job[j].row.escrow
             h == job[j].hash
  <1>1. /\ job[j].op = "withdrawal" /\ h \in Nat /\ h <= Len(txs) /\ Len(txs) \in Nat
        /\ was \in Unpaid \cup Refunding \cup {"released", "refunded"}
        /\ order \in Rows
    <2>1. job[j].op = "withdrawal" /\ job[j].op \in Ops \ {"milestone"}
      BY DEF SettleEvent, At, Ops
    <2> QED
      BY <2>1, Parts, Basics DEF HashInv, Rows
  <1>2. Apart => booking = IF was \in Refunding THEN "refunded" ELSE "released"
    BY <1>1, Parts DEF RowInv, KnowsRelease, KnowsRefund
  <1>3. /\ JobsMove /\ OtpTyped /\ Otherwise /\ UNCHANGED <<timeline, credits>>
    BY Same, EndMoves DEF SettleEvent, chain_vars, env_vars, Otherwise
  <1>4. Apart => (booking = "released" => order.escrow \notin Refunds)
    BY Parts DEF ChainInv, OtpInv, SideInv, Refunds, Refunding, Unpaid
  <1>5. CASE order' = [order EXCEPT !.escrow = "refunded", !.refundHash = h]
             /\ was \in Refunding
    BY <1>1, <1>2, <1>3, <1>5, MarkRefunded
  <1>6. CASE order' = [order EXCEPT !.escrow = "released", !.releaseHash = h]
             /\ was \notin Refunding
    <2>1. /\ order' \in Rows /\ order'.escrow = "released"
          /\ order'.status = order.status /\ HashesKnown
      BY <1>1, <1>6, Parts DEF TypeOK, Rows, HashesKnown
    <2> QED
      BY <1>2, <1>3, <1>6, <2>1, ReleaseStep
  <1>7. CASE order' = [order EXCEPT !.releaseHash = h] \/ order' = order
    <2>1. /\ order' \in Rows /\ order'.escrow = order.escrow
          /\ order'.status = order.status /\ HashesKnown
      BY <1>1, <1>7, Parts DEF TypeOK, Rows, HashesKnown
    <2> QED
      BY <1>3, <2>1, KeptStep
  <1>8. \/ was \in Refunding
           /\ order' = [order EXCEPT !.escrow = "refunded", !.refundHash = h]
        \/ was \notin Refunding
           /\ order' = [order EXCEPT !.escrow = "released", !.releaseHash = h]
        \/ order' = [order EXCEPT !.releaseHash = h] \/ order' = order
    BY DEF SettleEvent, Refunding
  <1> QED
    BY <1>5, <1>6, <1>7, <1>8

-----------------------------------------------------------------------------
(* Jobs that begin.                                                        *)

LEMMA BeginStep ==
    ASSUME SettlementAssumption, IInv, NEW j \in Jobs, VerifyDelivery(j) \/ Cancel(j)
    PROVE  IInv'
  <1>1. /\ order \in Rows /\ order.releaseHash \in Nat
        /\ order.releaseHash <= Len(txs) /\ order.refundHash <= Len(txs)
        /\ Len(txs) \in Nat /\ stale \in BOOLEAN
    BY Parts, Basics DEF TypeOK, Rows
  <1>2. ASSUME NEW op \in {"deliver", "cancel"}, NEW at \in {"release", "guard", "pend"},
               NEW h \in {0, order.releaseHash}, Begin(j, op, at, h)
        PROVE  /\ job' \in [Jobs -> JobStates] /\ Rest(j) /\ job[j].op = "idle"
               /\ job'[j].op = op /\ job'[j].at = at /\ job'[j].row = order
               /\ job'[j].hash = h /\ h <= Len(txs)
    <2>1. op \in Ops /\ at \in Stages /\ h \in Nat /\ Idle.op = "idle"
      BY <1>1 DEF Ops, Stages, Idle
    <2>2. TypeOK /\ h <= Len(txs)
      BY <1>1, Parts
    <2>3. /\ job' \in [Jobs -> JobStates] /\ Rest(j) /\ job[j] = Idle
          /\ job'[j].op = op /\ job'[j].at = at /\ job'[j].row = order
          /\ job'[j].hash = h
      BY <1>2, <2>1, <2>2, BeginFacts
    <2> QED
      BY <2>1, <2>2, <2>3
  <1>3. {"release", "guard", "pend"} \subseteq Stages \ {"batch", "receipt", "hash"}
    BY DEF Stages
  <1>4. CASE VerifyDelivery(j)
    <2>1. order.status \in {"arriving", "payment_released"} /\ Lock(j)
          /\ order.escrow \in Unpaid \cup {"released"} /\ confirmed' = TRUE
          /\ UNCHANGED <<row_vars, chain_vars, overlap, lapsed, stale, faults>>
      BY <1>4 DEF VerifyDelivery, Stuck
    <2>2. CASE order.escrow = "released" /\ Begin(j, "deliver", "guard", order.releaseHash)
      BY <1>1, <1>2, <1>3, <2>1, <2>2, LockedStep
    <2>3. CASE Begin(j, "deliver", "release", 0)
      BY <1>1, <1>2, <1>3, <2>1, <2>3, LockedStep
    <2> QED
      BY <1>4, <2>2, <2>3 DEF VerifyDelivery
  <1>5. CASE Cancel(j)
    <2>1. /\ Lock(j) /\ Begin(j, "cancel", "pend", 0)
          /\ order.status \notin {"picked_up", "arriving"}
          /\ order.escrow \in Refunding \cup {"funded"}
          /\ UNCHANGED <<row_vars, chain_vars, overlap, lapsed, faults>>
          /\ confirmed' = confirmed /\ stale' = stale
      BY <1>5 DEF Cancel, env_vars
    <2> QED
      BY <1>1, <1>2, <1>3, <2>1, LockedStep
  <1> QED
    BY <1>4, <1>5

\* A sweep lists the order, which is not locked yet.
LEMMA ListStep ==
    ASSUME SettlementAssumption, IInv, NEW j \in Jobs, Sweep(j) \/ SweepRefund(j)
    PROVE  IInv'
  <1>1. PICK op \in {"sweep", "refund"}, h \in Nat :
           /\ Begin(j, op, "batch", h) /\ h <= Len(txs)
           /\ op = "refund" => order.escrow \in Refunding
    <2>1. 0 \in Nat /\ 0 <= Len(txs) /\ order.refundHash \in Nat
          /\ order.refundHash <= Len(txs)
      BY Parts, Basics DEF TypeOK, Rows
    <2> QED
      BY <2>1 DEF Sweep, SweepRefund
  <1>2. /\ job' \in [Jobs -> JobStates] /\ Rest(j) /\ job[j].op = "idle"
        /\ job'[j].op = op /\ job'[j].at = "batch" /\ job'[j].row = order
        /\ job'[j].hash = h
    <2>1. op \in Ops /\ "batch" \in Stages /\ Idle.op = "idle"
      BY DEF Ops, Stages, Idle
    <2> QED
      BY <1>1, <2>1, Parts, BeginFacts
  <1>3. /\ UNCHANGED <<order, timeline, otp, credits, booking, agreed, txs, lock>>
        /\ UNCHANGED <<confirmed, overlap, lapsed, stale, faults>>
    BY DEF Sweep, SweepRefund, row_vars, chain_vars, env_vars
  <1> USE <1>1, <1>2, <1>3
  <1>4. TypeOK'
    BY Parts DEF TypeOK
  <1>5. ChainInv' /\ WebhookInv'
    BY Parts DEF ChainInv, WebhookInv, SentRelease, SentRefund, Rest
  <1>6. HashInv' /\ OtpInv'
    BY Parts DEF HashInv, OtpInv, TypeOK, SentRelease, Rest
  <1>7. ASSUME Apart PROVE LockInv' /\ SideInv' /\ RowInv'
    <2>1. LockInv'
      BY <1>7, Parts DEF LockInv, Locking, Rest
    <2>2. SideInv'
      BY <1>7, Parts DEF SideInv, ToRefund, Rest, SentRefund, Refunds, Refunding, Unpaid
    <2>3. RowInv'
      BY <1>7, Parts DEF RowInv, KnowsRelease, KnowsRefund, Rest
    <2> QED
      BY <2>1, <2>2, <2>3
  <1>8. ASSUME Apart, ~overlap PROVE CreditInv'
    BY <1>8, Parts DEF CreditInv, Rest
  <1> QED
    BY <1>4, <1>5, <1>6, <1>7, <1>8 DEF IInv

\* A sweep comes to the order it has listed: it locks the order and reads it
\* again, or leaves it.
LEMMA TakeUpStep ==
    ASSUME SettlementAssumption, IInv, NEW j \in Jobs,
           TakeUp(j) \/ PassOver(j) \/ TakeUpRefund(j)
    PROVE  IInv'
  <1>1. /\ job[j].op \in {"sweep", "refund"} /\ job[j].op \in Ops \ {"milestone"}
        /\ job[j].at = "batch" /\ stale \in BOOLEAN
        /\ job[j].hash \in Nat /\ job[j].hash <= Len(txs)
        /\ job[j].row \in Rows /\ job[j].row.releaseHash <= Len(txs)
        /\ job[j].row.refundHash <= Len(txs) /\ Len(txs) \in Nat
        /\ order \in Rows /\ order.releaseHash <= Len(txs) /\ order.refundHash <= Len(txs)
    <2>1. job[j].op \in {"sweep", "refund"} /\ job[j].at = "batch"
      BY DEF TakeUp, PassOver, TakeUpRefund, At
    <2> QED
      BY <2>1, Parts, Basics DEF HashInv, TypeOK, Ops
  <1>2. {"chain", "claim"} \subseteq Stages \ {"batch", "receipt", "hash"}
    BY DEF Stages
  <1>3. CASE TakeUp(j)
    <2> DEFINE row == [order EXCEPT !.attempts = job[j].row.attempts]
    <2>1. /\ Lock(j) /\ job' = [job EXCEPT ![j].at = "chain", ![j].row = row]
          /\ stale' = (stale \/ order.escrow \in Refunds) /\ job[j].op = "sweep"
          /\ UNCHANGED <<row_vars, chain_vars, confirmed, overlap, lapsed, faults>>
      BY <1>3 DEF TakeUp, At
    <2>2. /\ row \in Rows /\ row.escrow = order.escrow
          /\ row.releaseHash = order.releaseHash /\ row.refundHash = order.refundHash
      BY <1>1 DEF Rows
    <2> HIDE DEF row
    <2>3. job[j] \in [op : Ops, at : Stages, row : Rows, hash : Nat]
      BY <1>1, Parts DEF TypeOK, JobStates, Idle, Ops
    <2>4. /\ job' \in [Jobs -> JobStates] /\ Rest(j) /\ job'[j].op = "sweep"
          /\ job'[j].at = "chain" /\ job'[j].row = row /\ job'[j].hash = job[j].hash
      BY <1>2, <2>1, <2>2, <2>3, Parts DEF TypeOK, JobStates, Rest
    <2>5. stale' \in BOOLEAN /\ (stale => stale') /\ (order.escrow \in Refunds => stale')
      <3>1. (order.escrow \in Refunds) \in BOOLEAN
        OBVIOUS
      <3> QED
        BY <1>1, <2>1, <3>1
    <2> QED
      BY <1>1, <1>2, <2>1, <2>2, <2>4, <2>5, LockedStep
  <1>4. CASE PassOver(j)
    BY <1>4, EndMoves, KeptStep, Same
       DEF PassOver, row_vars, chain_vars, env_vars, Otherwise
  <1>5. CASE TakeUpRefund(j)
    <2>1. CASE End(j)
      BY <1>5, <2>1, EndMoves, KeptStep, Same
         DEF TakeUpRefund, row_vars, chain_vars, env_vars, Otherwise
    <2>2. CASE Lock(j) /\ Goto(j, "claim")
      <3>1. job[j].op = "refund" /\ UNCHANGED <<row_vars, chain_vars, env_vars>>
        BY <1>5 DEF TakeUpRefund, At
      <3>2. /\ job' \in [Jobs -> JobStates] /\ Rest(j) /\ job'[j].op = "refund"
            /\ job'[j].at = "claim" /\ job'[j].row = job[j].row
            /\ job'[j].hash = job[j].hash
        BY <1>1, <1>2, <2>2, <3>1, Parts, GotoFacts
      <3>3. Apart => order.escrow \in Refunds
        BY <3>1, Parts DEF SideInv, ToRefund
      <3>4. /\ UNCHANGED <<row_vars, chain_vars, overlap, lapsed, faults>>
            /\ confirmed' = confirmed /\ stale' = stale
        BY <3>1 DEF env_vars
      <3> QED
        BY <1>1, <1>2, <2>2, <3>2, <3>3, <3>4, LockedStep
    <2> QED
      BY <1>5, <2>1, <2>2 DEF TakeUpRefund
  <1> QED
    BY <1>3, <1>4, <1>5

\* An event begins to be handled, without the order's lock.  By the row, a
\* withdrawal's event is of a refund only if the booking was refunded.
LEMMA EventBegins ==
    ASSUME SettlementAssumption, IInv, NEW j \in Jobs,
           PaymentReleased(j) \/ WithdrawalReady(j)
    PROVE  IInv'
  <1>1. PICK h \in Nat :
           /\ h <= Len(txs)
           /\ \/ /\ Begin(j, "webhook", "record", h)
                 /\ booking = "released"
              \/ /\ Begin(j, "withdrawal", "settle", h)
                 /\ order.escrow \in Refunding \cup Unpaid \cup {"released"}
                 /\ booking \in {"released", "refunded"}
    BY EventFacts DEF PaymentReleased, WithdrawalReady
  <1>2. /\ job' \in [Jobs -> JobStates] /\ Rest(j) /\ job[j].op = "idle"
        /\ job'[j].row = order /\ job'[j].hash = h
        /\ \/ job'[j].op = "webhook" /\ job'[j].at = "record"
           \/ job'[j].op = "withdrawal" /\ job'[j].at = "settle"
        /\ job'[j].op = "webhook" => booking = "released"
        /\ job'[j].op = "withdrawal" => booking \in {"released", "refunded"}
        /\ job'[j].op = "withdrawal"
              => order.escrow \in Refunding \cup Unpaid \cup {"released"}
    <2>1. /\ {"webhook", "withdrawal"} \subseteq Ops
          /\ {"record", "settle"} \subseteq Stages /\ Idle.op = "idle"
      BY DEF Ops, Stages, Idle
    <2> QED
      BY <1>1, <2>1, Parts, BeginFacts
  <1>3. /\ UNCHANGED <<order, timeline, otp, credits, booking, agreed, txs, lock>>
        /\ UNCHANGED <<confirmed, overlap, lapsed, stale, faults>>
    BY DEF PaymentReleased, WithdrawalReady, row_vars, chain_vars, env_vars
  <1> USE <1>1, <1>2, <1>3
  <1>4. TypeOK'
    BY Parts DEF TypeOK
  <1>5. ChainInv' /\ WebhookInv'
    BY Parts DEF ChainInv, WebhookInv, SentRelease, SentRefund, Rest
  <1>6. HashInv' /\ OtpInv'
    BY Parts DEF HashInv, OtpInv, TypeOK, SentRelease, Rest
  <1>7. ASSUME Apart PROVE LockInv' /\ SideInv' /\ RowInv'
    <2>1. LockInv' /\ SideInv'
      BY <1>7, Parts DEF LockInv, Locking, SideInv, ToRefund, Rest, SentRefund
    <2>2. job'[j].op = "withdrawal" =>
             booking = IF order.escrow \in Refunding THEN "refunded" ELSE "released"
      BY <1>7, Parts DEF ChainInv, OtpInv, SideInv, Refunds, Refunding, Unpaid
    <2>3. RowInv'
      BY <1>7, <2>2, Parts DEF RowInv, KnowsRelease, KnowsRefund, Rest
    <2> QED
      BY <2>1, <2>3
  <1>8. ASSUME Apart, ~overlap PROVE CreditInv'
    BY <1>8, Parts DEF CreditInv, Rest
  <1> QED
    BY <1>4, <1>5, <1>6, <1>7, <1>8 DEF IInv

-----------------------------------------------------------------------------
(* The milestones, which take no lock.                                     *)

\* A milestone's step keeps everything but the credit's argument.
LEMMA MilestoneStep ==
    ASSUME SettlementAssumption, IInv, NEW j \in Jobs,
           job' \in [Jobs -> JobStates], Rest(j),
           job[j].op \in {"idle", "milestone"}, job'[j].op \in {"idle", "milestone"},
           job'[j].op = "milestone" => job'[j].hash \in {1, 2},
           lock' = lock \/ (lock = j /\ lock' = "free"),
           order' \in Rows, order'.escrow = order.escrow, HashesKnown,
           order'.status \in {order.status, "picked_up", "arriving"},
           timeline' \subseteq 1 .. Delivered,
           UNCHANGED <<otp, credits, agreed, txs, confirmed, lapsed, stale>>,
           UNCHANGED booking \/ (booking = "active" /\ booking' = "started"),
           overlap' \in BOOLEAN, overlap => overlap', faults' \in Nat,
           Apart /\ ~overlap' /\ CreditInv => CreditInv'
    PROVE  IInv'
  <1>1. TypeOK'
    <2>1. booking' \in {"active", "started", "released", "refunded"}
      BY Parts DEF TypeOK
    <2>2. lock' \in Jobs \cup {"free", "orphan"}
      BY Parts DEF TypeOK
    <2> QED
      BY <2>1, <2>2, Parts DEF TypeOK, HashesKnown
  <1>2. ChainInv' /\ WebhookInv'
    BY Parts DEF ChainInv, WebhookInv, SentRelease, SentRefund, Rest
  <1>3. HashInv' /\ OtpInv'
    BY Parts DEF HashInv, OtpInv, SentRelease, Rest, Ops
  <1>4. ASSUME Apart PROVE LockInv' /\ SideInv' /\ RowInv'
    <2>1. LockInv'
      BY <1>4, Parts DEF LockInv, Locking, Rest
    <2>2. SideInv' /\ RowInv'
      BY <1>4, Parts DEF SideInv, ToRefund, RowInv, KnowsRelease, KnowsRefund, Rest,
                         SentRefund
    <2> QED
      BY <2>1, <2>2
  <1> QED
    BY <1>1, <1>2, <1>3, <1>4, Parts DEF IInv

LEMMA MilestoneBegins ==
    ASSUME SettlementAssumption, IInv, NEW j \in Jobs, Milestone(j)
    PROVE  IInv'
  <1>1. PICK n \in NextMilestone : Begin(j, "milestone", "mark", n)
    BY DEF Milestone
  <1>2. n \in {1, 2} /\ n \in Nat /\ \A m \in timeline : m < n
    BY DEF NextMilestone, Milestones
  <1>3. /\ job' \in [Jobs -> JobStates] /\ Rest(j) /\ job[j].op = "idle"
        /\ job'[j].op = "milestone" /\ job'[j].at = "mark" /\ job'[j].hash = n
    <2>1. "milestone" \in Ops /\ "mark" \in Stages /\ Idle.op = "idle"
      BY DEF Ops, Stages, Idle
    <2> QED
      BY <1>1, <1>2, <2>1, Parts, BeginFacts
  <1>4. /\ UNCHANGED <<order, timeline, otp, credits, booking, agreed, txs, lock>>
        /\ UNCHANGED <<confirmed, lapsed, stale, faults>>
    BY DEF Milestone, row_vars, chain_vars
  <1>5. overlap' <=> overlap \/ \E i \in Jobs : job[i].op = "milestone"
    BY DEF Milestone
  <1>6. overlap' \in BOOLEAN
    BY Zenon DEF Milestone
  <1>7. ASSUME Apart, ~overlap', CreditInv PROVE CreditInv'
    <2>1. \A i \in Jobs : job[i].op # "milestone"
      BY <1>5, <1>7
    <2>2. 2 \notin timeline
      BY <1>2
    <2> QED
      BY <1>3, <1>4, <1>7, <2>1, <2>2 DEF CreditInv, Rest
  <1>8. order' \in Rows /\ HashesKnown /\ timeline' \subseteq 1 .. Delivered
        /\ faults' \in Nat
    BY <1>4, Parts DEF TypeOK, HashesKnown
  <1> QED
    BY <1>2, <1>3, <1>4, <1>5, <1>6, <1>7, <1>8, MilestoneStep

LEMMA MilestoneGoesOn ==
    ASSUME SettlementAssumption, IInv, NEW j \in Jobs,
           \/ MarkMilestone(j) \/ UpdateStatus(j) \/ RepeatUpdate(j)
           \/ RollBackMilestone(j) \/ StartBooking(j)
    PROVE  IInv'
  <1>1. /\ job[j].op = "milestone" /\ job[j].op \in Ops /\ job[j].hash \in {1, 2}
        /\ job[j].hash \in Nat
    <2>1. job[j].op = "milestone"
      BY DEF MarkMilestone, UpdateStatus, RepeatUpdate, RollBackMilestone, StartBooking, At
    <2> QED
      BY <2>1, Parts DEF HashInv, Ops
  <1>2. /\ order \in Rows /\ timeline \subseteq 1 .. 3 /\ faults \in Nat
        /\ overlap \in BOOLEAN /\ job \in [Jobs -> JobStates]
    BY Parts DEF TypeOK, Delivered
  <1>3. ASSUME SetStatus(j), UNCHANGED txs
        PROVE  /\ order' \in Rows /\ HashesKnown /\ order'.escrow = order.escrow
               /\ order'.status = IF job[j].hash = 1 THEN "picked_up" ELSE "arriving"
    <2>1. Milestones[1] = "picked_up" /\ Milestones[2] = "arriving"
      BY DEF Milestones
    <2>2. order' = [order EXCEPT !.status = IF job[j].hash = 1 THEN "picked_up"
                                                               ELSE "arriving"]
      BY <1>1, <1>3, <2>1 DEF SetStatus
    <2> QED
      BY <1>2, <2>2, Parts DEF TypeOK, Rows, Statuses, HashesKnown
  <1>4. UNCHANGED order => HashesKnown
    BY Same
  <1>5. CASE MarkMilestone(j)
    <2>1. /\ job[j].at = "mark" /\ timeline' = timeline \cup {job[j].hash}
          /\ Goto(j, "update")
          /\ UNCHANGED <<order, otp, credits, booking, agreed, txs, lock>>
          /\ UNCHANGED <<confirmed, overlap, lapsed, stale, faults>>
      BY <1>5 DEF MarkMilestone, At, chain_vars, env_vars
    <2>2. /\ job' \in [Jobs -> JobStates] /\ Rest(j)
          /\ job'[j].op = "milestone" /\ job'[j].at = "update"
          /\ job'[j].hash = job[j].hash
      BY <1>1, <2>1, Parts, GotoFacts DEF Stages
    <2>3. CreditInv => CreditInv'
      BY <1>1, <2>1, <2>2 DEF CreditInv, Rest
    <2>4. timeline' \subseteq 1 .. Delivered
      <3>1. job[j].hash \in 1 .. 3
        BY <1>1
      <3> QED
        BY <1>2, <2>1, <3>1 DEF Delivered
    <2> QED
      BY <1>1, <1>2, <1>4, <2>1, <2>2, <2>3, <2>4, MilestoneStep
  <1>6. CASE UpdateStatus(j)
    <2>1. /\ job[j].at = "update" /\ SetStatus(j)
          /\ UNCHANGED <<timeline, otp, credits, booking, agreed, txs>>
          /\ UNCHANGED <<confirmed, overlap, lapsed, stale, faults>>
      BY <1>6 DEF UpdateStatus, At, chain_vars, env_vars
    <2>2. /\ job' \in [Jobs -> JobStates] /\ Rest(j)
          /\ job'[j].op \in {"idle", "milestone"}
          /\ lock' = lock \/ (lock = j /\ lock' = "free")
          /\ job'[j].op = "milestone" => job'[j].at = "start" /\ job'[j].hash \in {1, 2}
      <3>1. CASE End(j)
        BY <3>1, Parts, EndFacts
      <3>2. CASE Goto(j, "start") /\ UNCHANGED lock
        BY <1>1, <3>2, Parts, GotoFacts DEF Stages
      <3> QED
        BY <1>6, <3>1, <3>2 DEF UpdateStatus
    <2>3. CreditInv => CreditInv'
      BY <1>1, <1>3, <2>1, <2>2, Parts DEF CreditInv, Rest, TypeOK
    <2>4. timeline' \subseteq 1 .. Delivered
      BY <1>2, <2>1 DEF Delivered
    <2> QED
      BY <1>1, <1>2, <1>3, <2>1, <2>2, <2>3, <2>4, MilestoneStep
  <1>7. CASE RepeatUpdate(j)
    <2>1. /\ SetStatus(j) /\ faults' = faults + 1 /\ overlap' = TRUE
          /\ UNCHANGED <<timeline, otp, credits, booking, agreed, txs>>
          /\ UNCHANGED <<confirmed, lapsed, stale, job, lock>>
      BY <1>7 DEF RepeatUpdate, chain_vars
    <2>2. timeline' \subseteq 1 .. Delivered /\ Rest(j)
      BY <1>2, <2>1 DEF Delivered, Rest
    <2> QED
      BY <1>1, <1>2, <1>3, <2>1, <2>2, MilestoneStep
  <1>8. CASE RollBackMilestone(j)
    <2>1. /\ job[j].at = "update" /\ timeline' = timeline \ {job[j].hash} /\ End(j)
          /\ faults' = faults + 1
          /\ UNCHANGED <<order, otp, credits, booking, agreed, txs>>
          /\ UNCHANGED <<confirmed, overlap, lapsed, stale>>
      BY <1>8 DEF RollBackMilestone, At, Fault, chain_vars
    <2>2. /\ job' \in [Jobs -> JobStates] /\ Rest(j) /\ job'[j].op = "idle"
          /\ lock' = lock \/ (lock = j /\ lock' = "free")
      BY <2>1, Parts, EndFacts
    <2>3. Apart /\ ~overlap' /\ CreditInv => CreditInv'
      BY <1>1, <2>1, <2>2, Parts DEF CreditInv, Rest
    <2>4. timeline' \subseteq 1 .. Delivered
      BY <1>2, <2>1 DEF Delivered
    <2> QED
      BY <1>1, <1>2, <1>4, <2>1, <2>2, <2>3, <2>4, MilestoneStep
  <1>9. CASE StartBooking(j)
    <2>1. /\ UNCHANGED booking \/ (booking = "active" /\ booking' = "started")
          /\ End(j)
          /\ UNCHANGED <<order, timeline, otp, credits, agreed, txs>>
          /\ UNCHANGED <<confirmed, overlap, lapsed, stale, faults>>
      BY <1>9 DEF StartBooking, row_vars, env_vars
    <2>2. /\ job' \in [Jobs -> JobStates] /\ Rest(j) /\ job'[j].op = "idle"
          /\ lock' = lock \/ (lock = j /\ lock' = "free")
      BY <2>1, Parts, EndFacts
    <2>3. CreditInv => CreditInv'
      BY <2>1, <2>2 DEF CreditInv, Rest
    <2>4. timeline' \subseteq 1 .. Delivered
      BY <1>2, <2>1 DEF Delivered
    <2> QED
      BY <1>1, <1>2, <1>4, <2>1, <2>2, <2>3, <2>4, MilestoneStep
  <1> QED
    BY <1>5, <1>6, <1>7, <1>8, <1>9

-----------------------------------------------------------------------------
(* The chain, the other environment's steps, and faults.                   *)

LEMMA MineStep ==
    ASSUME SettlementAssumption, IInv, Mine
    PROVE  IInv'
  <1>1. PICK n \in Pending :
           /\ txs' = [txs EXCEPT ![n].outcome = Effect(txs[n].call)]
           /\ booking' = IF Effect(txs[n].call) = "reverted"
                         THEN booking ELSE Effect(txs[n].call)
    BY DEF Mine
  <1>2. /\ n \in 1 .. Len(txs) /\ txs[n].outcome = "pending" /\ txs \in Seq(Sent)
        /\ Len(txs) \in Nat
    BY Parts, Basics DEF Pending, TypeOK
  <1> DEFINE outcome == Effect(txs[n].call)
             call == txs[n].call
  <1>3. txs[n] \in Sent /\ call \in {"release", "cancel", "penalty"}
    <2>1. txs[n] \in Sent
      BY <1>2
    <2> QED
      BY <2>1 DEF Sent
  <1>4. /\ outcome \in {"released", "refunded", "reverted"}
        /\ outcome = "released" => call = "release"
        /\ outcome = "refunded" => call # "release"
        /\ outcome # "reverted" => booking \in {"active", "started"}
    BY DEF Effect
  <1>5. /\ txs' \in Seq(Sent) /\ Len(txs') = Len(txs)
        /\ \A m \in 1 .. Len(txs) : txs'[m].call = txs[m].call
        /\ \A m \in 1 .. Len(txs) : m # n => txs'[m] = txs[m]
        /\ txs'[n].outcome = outcome
    BY <1>1, <1>2, <1>3, <1>4 DEF Sent
  <1>6. booking' = IF outcome = "reverted" THEN booking ELSE outcome
    BY <1>1
  <1> HIDE DEF outcome, call
  <1>7. /\ UNCHANGED <<order, timeline, otp, credits, agreed, lock, job>>
        /\ UNCHANGED <<confirmed, overlap, lapsed, stale, faults>>
    BY DEF Mine, row_vars, env_vars
  <1>8. SentRelease' <=> SentRelease
    BY <1>5 DEF SentRelease
  <1>9. SentRefund' <=> SentRefund
    BY <1>5 DEF SentRefund
  <1>10. call = txs[n].call
    BY DEF call
  <1>11. TypeOK'
    BY <1>4, <1>5, <1>6, <1>7, Parts DEF TypeOK
  <1>12. ChainInv'
    <2>1. outcome = "released" => SentRelease
      BY <1>2, <1>4, <1>10 DEF SentRelease
    <2>2. outcome = "refunded" => SentRefund
      BY <1>2, <1>4, <1>10 DEF SentRefund
    <2>3. \A m \in 1 .. Len(txs') :
             txs'[m].outcome \in {"released", "refunded"} => booking' = txs'[m].outcome
      BY <1>4, <1>5, <1>6, Parts DEF ChainInv
    <2> QED
      BY <1>6, <1>8, <1>9, <2>1, <2>2, <2>3, Parts DEF ChainInv
  <1>13. WebhookInv'
    BY <1>4, <1>6, <1>7, Parts DEF WebhookInv
  <1>14. HashInv' /\ OtpInv'
    BY <1>5, <1>7, <1>8, Parts DEF HashInv, OtpInv
  <1>15. ASSUME Apart PROVE LockInv' /\ SideInv' /\ RowInv'
    <2>1. LockInv' /\ SideInv'
      BY <1>7, <1>9, <1>15, Parts DEF LockInv, Locking, SideInv, ToRefund
    <2>2. RowInv'
      BY <1>4, <1>6, <1>7, <1>15, Parts DEF RowInv, KnowsRelease, KnowsRefund
    <2> QED
      BY <2>1, <2>2
  <1>16. ASSUME Apart, ~overlap PROVE CreditInv'
    BY <1>7, <1>16, Parts DEF CreditInv
  <1> QED
    BY <1>7, <1>11, <1>12, <1>13, <1>14, <1>15, <1>16 DEF IInv

\* Steps that write neither the row nor the chain, nor move a job.
LEMMA QuietStep ==
    ASSUME IInv, UNCHANGED <<order, timeline, credits, booking, txs, job>>,
           UNCHANGED <<confirmed, overlap, stale>>,
           agreed' \in BOOLEAN, otp' \in {"active", "verified", "expired"},
           faults' \in Nat, lapsed' \in BOOLEAN, lapsed => lapsed',
           lock' \in Jobs \cup {"free", "orphan"}, Apart' => LockInv'
    PROVE  IInv'
  <1>1. TypeOK'
    BY Parts DEF TypeOK
  <1>2. ChainInv' /\ WebhookInv' /\ HashInv' /\ OtpInv'
    BY Parts DEF ChainInv, WebhookInv, HashInv, OtpInv, SentRelease, SentRefund
  <1>3. Apart' => SideInv' /\ RowInv'
    BY Parts DEF SideInv, ToRefund, SentRefund, RowInv, KnowsRelease, KnowsRefund
  <1>4. Apart' /\ ~overlap => CreditInv'
    BY Parts DEF CreditInv
  <1> QED
    BY <1>1, <1>2, <1>3, <1>4 DEF IInv

LEMMA EnvironmentStep ==
    ASSUME SettlementAssumption, IInv,
           CorrectAmount \/ ResendOtp \/ LockExpires \/ LockLapses \/ UNCHANGED vars
    PROVE  IInv'
  <1>1. /\ agreed \in BOOLEAN /\ otp \in {"active", "verified", "expired"}
        /\ faults \in Nat /\ lapsed \in BOOLEAN /\ lock \in Jobs \cup {"free", "orphan"}
        /\ Apart => LockInv
    BY Parts DEF TypeOK
  <1>2. CASE CorrectAmount \/ ResendOtp \/ UNCHANGED vars
    <2>1. /\ UNCHANGED <<order, timeline, credits, booking, txs, job, lock>>
          /\ UNCHANGED <<confirmed, overlap, lapsed, stale, faults>>
          /\ agreed' \in {agreed, TRUE} /\ otp' \in {otp, "active"}
      BY <1>2 DEF CorrectAmount, ResendOtp, vars, row_vars, chain_vars, env_vars
    <2>2. agreed' \in BOOLEAN
      BY <1>1, <2>1
    <2> QED
      BY <1>1, <2>1, <2>2, QuietStep DEF LockInv, Locking
  <1>3. CASE LockExpires
    <2>1. LockInv => LockInv'
      BY <1>3 DEF LockExpires, LockInv, Locking, SettlementAssumption
    <2> QED
      BY <1>1, <1>3, <2>1, QuietStep DEF LockExpires, row_vars, chain_vars, env_vars
  <1>4. CASE LockLapses
    BY <1>1, <1>4, QuietStep DEF LockLapses, row_vars, chain_vars
  <1> QED
    BY <1>2, <1>3, <1>4

LEMMA StopStep ==
    ASSUME SettlementAssumption, IInv, NEW j \in Jobs, Stop(j)
    PROVE  IInv'
  <1>1. /\ job' = [job EXCEPT ![j] = Idle]
        /\ lock' \in IF lock = j THEN {"free", "orphan"} ELSE {lock}
        /\ UNCHANGED <<order, timeline, otp, credits, booking, agreed, txs>>
        /\ UNCHANGED <<confirmed, overlap, lapsed, stale>> /\ faults' = faults + 1
    BY DEF Stop, Fault, row_vars, chain_vars
  <1>2. job' \in [Jobs -> JobStates] /\ Rest(j) /\ job'[j].op = "idle"
    BY <1>1, Parts DEF TypeOK, JobStates, Idle, Rest
  <1>3. TypeOK'
    BY <1>1, <1>2, Parts DEF TypeOK
  <1>4. ChainInv' /\ WebhookInv' /\ HashInv' /\ OtpInv'
    BY <1>1, <1>2, Parts
       DEF ChainInv, WebhookInv, HashInv, OtpInv, SentRelease, SentRefund, Rest, Ops
  <1>5. ASSUME Apart PROVE LockInv' /\ SideInv' /\ RowInv'
    <2>1. LockInv'
      BY <1>1, <1>2, <1>5, Parts DEF LockInv, Locking, Rest
    <2>2. SideInv' /\ RowInv'
      BY <1>1, <1>2, <1>5, Parts
         DEF SideInv, ToRefund, SentRefund, RowInv, KnowsRelease, KnowsRefund, Rest
    <2> QED
      BY <2>1, <2>2
  <1>6. ASSUME Apart, ~overlap PROVE CreditInv'
    BY <1>1, <1>2, <1>6, Parts DEF CreditInv, Rest
  <1> QED
    BY <1>1, <1>3, <1>4, <1>5, <1>6 DEF IInv

-----------------------------------------------------------------------------
(* The theorems.                                                           *)

LEMMA InitIInv == SettlementAssumption /\ Init => IInv
  <1> SUFFICES ASSUME SettlementAssumption, Init PROVE IInv
    OBVIOUS
  <1>1. txs = << >> /\ Len(txs) = 0 /\ \A j \in Jobs : job[j] = Idle /\ job[j].op = "idle"
    BY DEF Init, Idle
  <1>2. TypeOK
    <2>1. order \in Rows
      BY DEF Init, Rows, Statuses, Unpaid, Refunding
    <2>2. agreed \in BOOLEAN
      BY Zenon DEF Init
    <2>3. /\ order.releaseHash = 0 /\ order.txHash = 0 /\ order.refundHash = 0
          /\ timeline = {} /\ otp = "active" /\ credits = 0 /\ booking = "active"
          /\ lock = "free" /\ confirmed = FALSE /\ overlap = FALSE /\ lapsed = FALSE
          /\ stale = FALSE
          /\ faults = 0
      BY DEF Init
    <2>4. job \in [Jobs -> JobStates]
      BY DEF Init, JobStates
    <2>5. txs \in Seq(Sent)
      BY <1>1
    <2>6. /\ order.releaseHash <= Len(txs) /\ order.txHash <= Len(txs)
          /\ order.refundHash <= Len(txs) /\ timeline \subseteq 1 .. Delivered
      BY <1>1, <2>3
    <2>7. /\ booking \in {"active", "started", "released", "refunded"}
          /\ lock \in Jobs \cup {"free", "orphan"} /\ faults \in Nat /\ credits \in Nat
          /\ otp \in {"active", "verified", "expired"}
          /\ confirmed \in BOOLEAN /\ overlap \in BOOLEAN /\ lapsed \in BOOLEAN
          /\ stale \in BOOLEAN
      BY <2>3
    <2> QED
      BY <2>1, <2>2, <2>4, <2>5, <2>6, <2>7 DEF TypeOK
  <1>3. ChainInv /\ HashInv /\ OtpInv /\ WebhookInv
    BY <1>1 DEF Init, ChainInv, HashInv, OtpInv, WebhookInv, Ops, SentRelease, SentRefund
  <1>4. LockInv /\ SideInv /\ RowInv /\ CreditInv
    BY <1>1 DEF Init, LockInv, Locking, SideInv, SentRefund, ToRefund, RowInv,
                KnowsRelease, KnowsRefund, CreditInv
  <1> QED
    BY <1>2, <1>3, <1>4 DEF IInv

\* Every step keeps the invariant.
LEMMA NextIInv ==
    ASSUME SettlementAssumption, IInv, [Next]_vars
    PROVE  IInv'
  <1>1. ASSUME NEW j \in Jobs,
               \/ Milestone(j) \/ VerifyDelivery(j) \/ Cancel(j) \/ Sweep(j)
               \/ SweepRefund(j) \/ PaymentReleased(j) \/ WithdrawalReady(j)
               \/ Continue(j) \/ Fails(j)
        PROVE  IInv'
    <2>1. CASE Milestone(j)
      BY <2>1, MilestoneBegins
    <2>2. CASE VerifyDelivery(j) \/ Cancel(j) \/ Sweep(j) \/ SweepRefund(j)
      BY <2>2, BeginStep, ListStep
    <2>3. CASE PaymentReleased(j) \/ WithdrawalReady(j)
      BY <2>3, EventBegins
    <2>4. CASE Driver(j)
      BY <2>4, MilestoneGoesOn, DeliveryStep DEF Driver
    <2>5. CASE Customer(j)
      BY <2>5, CancelStep
    <2>6. CASE Reconciler(j)
      BY <2>6, TakeUpStep, ReleaseSweepStep, RefundSweepStep DEF Reconciler
    <2>7. CASE RecordEvent(j) \/ CompleteEvent(j) \/ SettleEvent(j)
      BY <2>7, WebhookStep, SettleStep
    <2>8. CASE Fails(j)
      BY <2>8, MilestoneGoesOn, DeliveryStep, ReleaseSweepStep, RefundSweepStep,
         CancelStep, StopStep DEF Fails
    <2> QED
      BY <1>1, <2>1, <2>2, <2>3, <2>4, <2>5, <2>6, <2>7, <2>8 DEF Continue
  <1>2. CASE Mine
    BY <1>2, MineStep
  <1>3. CASE CorrectAmount \/ ResendOtp \/ LockExpires \/ LockLapses \/ UNCHANGED vars
    BY <1>3, EnvironmentStep
  <1>4. CASE BookingCancelled
    BY <1>4, CancelledStep
  <1> QED
    BY <1>1, <1>2, <1>3, <1>4 DEF Next

\* The invariant the other theorems are read from: the OTP or the refund,
\* decided under the order's lock.
THEOREM InvHolds == Spec => []IInv
  <1>1. Init => IInv
    BY InitIInv, SettlementAssumption
  <1>2. IInv /\ [Next]_vars => IInv'
    BY NextIInv, SettlementAssumption
  <1> QED
    BY <1>1, <1>2, PTL DEF Spec

\* Types are kept; a row names only transactions that were sent.
THEOREM TypeCorrect == Spec => []TypeOK
  <1>1. IInv => TypeOK
    BY DEF IInv
  <1> QED
    BY <1>1, InvHolds, PTL

\* Whichever job sends it, the contract releases only after the customer's
\* OTP matched, lock or no lock.
THEOREM ConfirmedRelease == Spec => []ReleaseIsConfirmed
  <1>1. IInv => ReleaseIsConfirmed
    BY DEF IInv, ChainInv, OtpInv, ReleaseIsConfirmed
  <1> QED
    BY <1>1, InvHolds, PTL

\* As long as the lock keeps the jobs apart, what is recorded as refunded was
\* refunded.
THEOREM RefundRecorded == Spec => []RefundedIsRefunded
  <1>1. IInv => RefundedIsRefunded
    BY DEF IInv, RowInv, RefundedIsRefunded
  <1> QED
    BY <1>1, InvHolds, PTL

\* As long as the lock keeps the jobs apart, what is recorded as released or
\* credited was paid to the driver.
THEOREM ReleaseRecorded == Spec => []CreditNeedsRelease
  <1>1. IInv => CreditNeedsRelease
    BY DEF IInv, RowInv, CreditNeedsRelease
  <1> QED
    BY <1>1, InvHolds, PTL

\* As long as the lock keeps the jobs apart and no two writes of a milestone
\* overlap, a delivery is credited at most once, however many deliveries, sweeps
\* and events try.
THEOREM OneCredit == Spec => []CreditedOnce
  <1>1. IInv => CreditedOnce
    BY DEF IInv, TypeOK, CreditInv, CreditedOnce
  <1> QED
    BY <1>1, InvHolds, PTL

-----------------------------------------------------------------------------
(* One order, one outcome                                                  *)

\* How a step may write to the row and the wallet: it opens an escrow that is
\* closed only for a delivery that is not paid yet, and a credit is recorded
\* with the release.
Books ==
    /\ order'.escrow \in Unpaid => order.escrow \in Unpaid \/ (confirmed /\ ~Paid)
    /\ \/ credits' = credits
       \/ credits' = credits + 1 /\ order'.escrow = "released"

Elsewhere == UNCHANGED <<booking, confirmed, overlap, lapsed, stale>>

\* What has no part in the outcome.
LEMMA OutcomeSame ==
    ASSUME UNCHANGED <<booking, confirmed, credits, overlap, lapsed, stale>>,
           order'.escrow = order.escrow
    PROVE  UNCHANGED Outcome!ovars
  BY DEF Outcome!ovars, Outcome!books, Way, Money, Record

\* The sides, with the booking's word on them.
Sides ==
    /\ confirmed => order.escrow \in Unpaid \cup {"released"}
    /\ booking = "released" => confirmed
    /\ booking = "refunded" => order.escrow \in Refunds
    /\ order.escrow = "released" => booking = "released"
    /\ order.escrow = "refunded" => booking = "refunded"
    /\ order.escrow \in Unpaid \cup Refunds \cup {"released"}
    /\ credits \in Nat /\ (credits > 0 => booking = "released")
    /\ ~overlap => credits <= 1

LEMMA SidesHold ==
    ASSUME IInv, IInv', Apart, Apart'
    PROVE  Sides /\ Sides'
  <1>1. Sides
    <2>1. /\ TypeOK /\ ChainInv /\ OtpInv /\ SideInv /\ RowInv /\ (~overlap => CreditInv)
      BY DEF IInv
    <2>2. order.escrow \in Unpaid \cup Refunds \cup {"released"} /\ credits \in Nat
      BY <2>1 DEF TypeOK, Rows, Refunds
    <2> QED
      BY <2>1, <2>2 DEF Sides, ChainInv, OtpInv, SideInv, RowInv, CreditInv
  <1>2. Sides'
    <2>1. /\ TypeOK' /\ ChainInv' /\ OtpInv' /\ SideInv' /\ RowInv' /\ (~overlap' => CreditInv')
      BY DEF IInv
    <2>2. order'.escrow \in Unpaid \cup Refunds \cup {"released"} /\ credits' \in Nat
      BY <2>1 DEF TypeOK, Rows, Refunds
    <2> QED
      BY <2>1, <2>2 DEF Sides, ChainInv, OtpInv, SideInv, RowInv, CreditInv
  <1> QED
    BY <1>1, <1>2

\* Whatever is written to the row and the wallet is a step of the outcome.
LEMMA BooksStep ==
    ASSUME IInv, IInv', Apart, Elsewhere, Books
    PROVE  Outcome!ONext \/ UNCHANGED Outcome!ovars
  <1> USE DEF Elsewhere
  <1>1. Sides /\ Sides'
    BY SidesHold
  <1> USE <1>1 DEF Sides
  <1>2. Money' = Money
    BY DEF Money
  <1>3. \/ Way' = Way
        \/ Way = "open" /\ Way' = "refund" /\ Record' = Record /\ credits' = credits
    BY DEF Way, Record, Books, Paid, Refunds, Refunding, Unpaid
  <1>4. \/ Record' = Record
        \/ Record = "open" /\ Record' = "released" /\ Money = "driver"
        \/ Record = "open" /\ Record' = "refunded" /\ Money = "customer"
        \/ Record = "refunded" /\ Record' = "open"
    BY DEF Record, Money, Books, Paid, Refunds, Refunding, Unpaid
  <1>5. CASE credits' = credits
    BY <1>2, <1>3, <1>4, <1>5
       DEF Outcome!ONext, Outcome!Choose, Outcome!Record, Outcome!Reopen, Outcome!ovars,
           Outcome!books
  <1>6. CASE credits' = credits + 1 /\ order'.escrow = "released"
    <2>1. Money = "driver" /\ Record' = "released" /\ Way' = Way
      BY <1>3, <1>6 DEF Money, Record
    <2>2. credits = 0 \/ overlap
      BY <1>6
    <2> QED
      BY <1>2, <1>6, <2>1, <2>2 DEF Outcome!ONext, Outcome!Credit
  <1> QED
    BY <1>5, <1>6 DEF Books

\* Requests and sweeps on the driver's side.
LEMMA DriverBooks ==
    ASSUME IInv, NEW j \in Jobs,
           \/ Driver(j) /\ ~StartBooking(j)
           \/ RollBackMilestone(j) \/ PersistFails(j)
    PROVE  Elsewhere /\ Books
  <1> USE DEF chain_vars, row_vars, env_vars, Elsewhere, Books
  <1>1. order \in Rows /\ (job[j].op = "deliver" => confirmed)
    BY DEF IInv, TypeOK, OtpInv
  <1>3. CASE UNCHANGED <<order, credits, booking, confirmed, overlap, lapsed, stale>>
    BY <1>3
  <1>4. CASE Mismatch(j)
    BY <1>1, <1>4 DEF Mismatch, At, Rows
  <1>5. CASE UpdateStatus(j)
    BY <1>1, <1>5 DEF UpdateStatus, SetStatus, Rows
  <1>6. CASE PersistRelease(j) \/ FinishDelivery(j)
    BY <1>1, <1>3, <1>6 DEF PersistRelease, FinishDelivery, RecordRelease, Rows, Unpaid
  <1>7. CASE CompleteDelivery(j)
    BY <1>1, <1>3, <1>7 DEF CompleteDelivery, CompleteTrip, Rows, Unpaid
  <1>8. CASE \/ MarkMilestone(j) \/ CannotRelease(j) \/ ReleaseMined(j) \/ GuardStatus(j)
             \/ RollBackMilestone(j) \/ PersistFails(j)
    BY <1>3, <1>8 DEF MarkMilestone, CannotRelease, ReleaseMined, GuardStatus,
                      RollBackMilestone, PersistFails, Fault
  <1>9. CASE Release(j, "deliver", "persist")
    BY <1>3, <1>9 DEF Release, Send
  <1> QED
    BY <1>4, <1>5, <1>6, <1>7, <1>8, <1>9 DEF Driver

\* The customer's cancellation.
LEMMA CustomerBooks ==
    ASSUME IInv, NEW j \in Jobs, Customer(j) \/ CompensateRefund(j)
    PROVE  Elsewhere /\ Books
  <1> USE DEF chain_vars, row_vars, env_vars, Elsewhere, Books
  <1>1. order \in Rows
    BY DEF IInv, TypeOK
  <1>2. CASE UNCHANGED <<order, credits, booking, confirmed, overlap, lapsed, stale>>
    BY <1>2
  <1>3. CASE RecordRefundPending(j)
    BY <1>1, <1>2, <1>3 DEF RecordRefundPending, Rows, Unpaid
  <1>4. CASE SubmitRefund(j) \/ RefundMined(j) \/ CleanUp(j)
    BY <1>2, <1>4 DEF SubmitRefund, Send, RefundMined, CleanUp
  <1>5. CASE PersistRefundHash(j)
    BY <1>1, <1>5 DEF PersistRefundHash, Rows
  <1>6. CASE ConfirmRefunded(j) \/ CompensateRefund(j)
    BY <1>1, <1>2, <1>6 DEF ConfirmRefunded, CompensateRefund, Refunded, Fault, Rows, Unpaid
  <1> QED
    BY <1>3, <1>4, <1>5, <1>6 DEF Customer

\* The two sweeps.
LEMMA ReconcilerBooks ==
    ASSUME IInv, NEW j \in Jobs,
           \/ Reconciler(j) /\ ~TakeUp(j)
           \/ SweepInterrupted(j) \/ ClaimFails(j) \/ RefundSweepInterrupted(j)
    PROVE  Elsewhere /\ Books
  <1> USE DEF chain_vars, row_vars, env_vars, Elsewhere, Books
  <1>1. order \in Rows
    BY DEF IInv, TypeOK
  <1>2. CASE UNCHANGED <<order, credits, booking, confirmed, overlap, lapsed, stale>>
    BY <1>2
  <1>3. CASE \/ PassOver(j) \/ TakeUpRefund(j) \/ ConsultChain(j)
             \/ Release(j, "sweep", "evidence") \/ SweepMined(j)
    BY <1>2, <1>3 DEF PassOver, TakeUpRefund, ConsultChain, Release, Send, SweepMined
  <1>4. CASE SweepFails(j) \/ SweepInterrupted(j)
    BY <1>1, <1>4 DEF SweepFails, SweepInterrupted, RecordAttempt, Fault, Rows
  <1>5. CASE PersistEvidence(j)
    BY <1>1, <1>5 DEF PersistEvidence, RecordRelease, Rows, Unpaid
  <1>6. CASE FinalizeRelease(j)
    BY <1>1, <1>2, <1>6 DEF FinalizeRelease, CompleteTrip, Rows, Unpaid
  <1>7. CASE \/ ClaimRefund(j) \/ ClaimFails(j) \/ RefundSweepFails(j)
             \/ RefundSweepInterrupted(j) \/ RefundSweepMined(j)
    BY <1>1, <1>2, <1>7
       DEF ClaimRefund, ClaimFails, Claim, RefundSweepFails, RefundSweepInterrupted,
           RefundSweepMined, GiveUp, Fault, Rows
  <1>8. CASE ResubmitRefund(j)
    BY <1>1, <1>2, <1>8 DEF ResubmitRefund, Send, GiveUp, Fault, Rows
  <1>9. CASE FinalizeRefund(j)
    BY <1>1, <1>2, <1>9 DEF FinalizeRefund, Refunded, Rows, Unpaid
  <1> QED
    BY <1>3, <1>4, <1>5, <1>6, <1>7, <1>8, <1>9 DEF Reconciler

\* The chain's events.
LEMMA EventBooks ==
    ASSUME IInv, NEW j \in Jobs,
           RecordEvent(j) \/ CompleteEvent(j) \/ SettleEvent(j)
    PROVE  Elsewhere /\ Books
  <1> USE DEF chain_vars, row_vars, env_vars, Elsewhere, Books
  <1>1. order \in Rows
    BY DEF IInv, TypeOK
  <1>2. CASE UNCHANGED <<order, credits, booking, confirmed, overlap, lapsed, stale>>
    BY <1>2
  <1>3. CASE RecordEvent(j)
    BY <1>1, <1>2, <1>3 DEF RecordEvent, RecordRelease, Rows, Unpaid
  <1>4. CASE CompleteEvent(j)
    BY <1>1, <1>2, <1>4 DEF CompleteEvent, CompleteTrip, Rows, Unpaid
  <1>5. CASE SettleEvent(j)
    BY <1>1, <1>2, <1>5 DEF SettleEvent, Rows, Unpaid
  <1> QED
    BY <1>3, <1>4, <1>5

\* A transaction pays the side that the order has taken.
LEMMA MineOutcome ==
    ASSUME IInv, IInv', Apart, Mine
    PROVE  Outcome!ONext \/ UNCHANGED Outcome!ovars
  <1>1. UNCHANGED <<order, credits, confirmed, overlap, lapsed, stale>>
    BY DEF Mine, row_vars, env_vars
  <1>2. Sides /\ Sides'
    BY <1>1, SidesHold
  <1>3. \/ booking' = booking
        \/ ~Paid /\ booking' \in {"released", "refunded"}
    BY DEF Mine, Effect, Paid
  <1>4. Way' = Way /\ Record' = Record
    BY <1>1 DEF Way, Record
  <1>5. CASE booking' = booking
    BY <1>1, <1>5, OutcomeSame
  <1>6. CASE ~Paid /\ booking' = "released"
    <2>1. Money = "escrow" /\ Money' = "driver" /\ Way = "delivery"
      BY <1>1, <1>2, <1>6 DEF Money, Way, Paid, Sides
    <2> QED
      BY <1>1, <1>4, <2>1 DEF Outcome!ONext, Outcome!Pay, Outcome!books
  <1>7. CASE ~Paid /\ booking' = "refunded"
    <2>1. Money = "escrow" /\ Money' = "customer" /\ Way = "refund"
      BY <1>1, <1>2, <1>7 DEF Money, Way, Paid, Sides, Refunds, Refunding, Unpaid
    <2> QED
      BY <1>1, <1>4, <2>1 DEF Outcome!ONext, Outcome!Pay, Outcome!books
  <1> QED
    BY <1>3, <1>5, <1>6, <1>7

\* An OTP that matches chooses the order's side, if it has none yet.
LEMMA VerifyOutcome ==
    ASSUME IInv, NEW j \in Jobs, VerifyDelivery(j)
    PROVE  Outcome!ONext \/ UNCHANGED Outcome!ovars
  <1>1. /\ UNCHANGED <<order, credits, booking, overlap, lapsed, stale>> /\ confirmed' = TRUE
        /\ order.escrow \notin Refunds
    BY DEF VerifyDelivery, row_vars, chain_vars, Refunds, Refunding, Unpaid
  <1>2. Money' = Money /\ Record' = Record /\ Way' = "delivery"
    BY <1>1 DEF Money, Record, Way
  <1>3. Way \in {"open", "delivery"}
    BY <1>1 DEF Way, Refunds
  <1> QED
    BY <1>1, <1>2, <1>3
       DEF Outcome!ONext, Outcome!Choose, Outcome!ovars, Outcome!books

\* Milestones have no part in the outcome, save that two may overlap.
LEMMA MilestoneOutcome ==
    ASSUME IInv, NEW j \in Jobs, Milestone(j) \/ RepeatUpdate(j) \/ StartBooking(j)
    PROVE  Outcome!ONext \/ UNCHANGED Outcome!ovars
  <1> USE DEF row_vars, chain_vars, env_vars
  <1>1. /\ order'.escrow = order.escrow /\ overlap' \in {overlap, TRUE}
        /\ UNCHANGED <<credits, confirmed, lapsed, stale>>
        /\ booking' = booking \/ (booking = "active" /\ booking' = "started")
    BY DEF IInv, TypeOK, Rows, Milestone, RepeatUpdate, SetStatus, StartBooking
  <1>2. Way' = Way /\ Money' = Money /\ Record' = Record
    BY <1>1 DEF Way, Money, Record
  <1> QED
    BY <1>1, <1>2 DEF Outcome!ONext, Outcome!Double, Outcome!ovars, Outcome!books

LEMMA OutcomeStep ==
    ASSUME IInv, IInv', [Next]_vars
    PROVE  Outcome!ONext \/ UNCHANGED Outcome!ovars
  <1> USE DEF chain_vars, row_vars, env_vars
  <1>1. CASE ~Apart'
    BY <1>1 DEF Outcome!ONext, Outcome!Break
  <1>2. ASSUME Apart', Elsewhere, Books PROVE Outcome!ONext \/ UNCHANGED Outcome!ovars
    BY <1>2, BooksStep DEF Elsewhere
  <1>3. ASSUME NEW j \in Jobs, Milestone(j) \/ VerifyDelivery(j) \/ RepeatUpdate(j) \/ StartBooking(j)
        PROVE  Outcome!ONext \/ UNCHANGED Outcome!ovars
    BY <1>3, MilestoneOutcome, VerifyOutcome
  <1>4. ASSUME NEW j \in Jobs, ~StartBooking(j), ~RepeatUpdate(j), ~Stop(j), ~TakeUp(j),
               Continue(j) \/ Fails(j)
        PROVE  Elsewhere /\ Books
    BY <1>4, DriverBooks, CustomerBooks, ReconcilerBooks, EventBooks DEF Continue, Fails
  <1>5. ASSUME NEW j \in Jobs,
               \/ Cancel(j) \/ Sweep(j) \/ SweepRefund(j) \/ PaymentReleased(j)
               \/ WithdrawalReady(j) \/ Stop(j) \/ (TakeUp(j) /\ stale' = stale)
        PROVE  UNCHANGED Outcome!ovars
    BY <1>5, OutcomeSame
       DEF Cancel, Sweep, SweepRefund, PaymentReleased, WithdrawalReady, Stop, Fault, TakeUp
  <1>6. CASE CorrectAmount \/ ResendOtp \/ LockExpires \/ UNCHANGED vars
    BY <1>6, OutcomeSame DEF CorrectAmount, ResendOtp, LockExpires, vars
  <1>7. CASE Mine
    <2>1. lapsed' = lapsed /\ stale' = stale
      BY <1>7 DEF Mine
    <2> QED
      BY <1>1, <1>7, <2>1, MineOutcome
  <1>8. CASE BookingCancelled
    <2>1. Elsewhere /\ Books
      BY <1>8 DEF BookingCancelled, Elsewhere, Books, IInv, TypeOK, Rows, Unpaid
    <2> QED
      BY <1>1, <1>2, <2>1
  <1>9. LockLapses => ~Apart'
    BY DEF LockLapses
  <1>10. ASSUME NEW j \in Jobs, TakeUp(j) PROVE stale' = stale \/ ~Apart'
    <2>1. stale \in BOOLEAN /\ stale' = (stale \/ order.escrow \in Refunds)
      BY <1>10 DEF TakeUp, IInv, TypeOK
    <2>2. (order.escrow \in Refunds) \in BOOLEAN
      OBVIOUS
    <2> QED
      BY <2>1, <2>2
  <1> QED
    BY <1>1, <1>2, <1>3, <1>4, <1>5, <1>6, <1>7, <1>8, <1>9, <1>10 DEF Next

\* Requests, sweeps and events settle an order one way, for any number of each:
\* the OTP or the cancellation decides under the order's lock, the money goes
\* that way, the row follows it, a recorded release is never taken back, and
\* there is one credit; as long as the lock keeps the jobs apart.
THEOREM OneOutcome == Spec => KeepsOutcome
  <1>1. Init => Outcome!OInit
    <2> SUFFICES ASSUME Init PROVE Outcome!OInit
      OBVIOUS
    <2>1. Way = "open" /\ Money = "escrow" /\ Record = "open"
      BY DEF Init, Way, Money, Record, Refunds, Refunding
    <2>2. (~Apart) = FALSE
      BY Zenon DEF Init
    <2>3. credits = 0 /\ overlap = FALSE
      BY DEF Init
    <2> QED
      BY <2>1, <2>2, <2>3 DEF Outcome!OInit
  <1>2. IInv /\ IInv' /\ [Next]_vars => [Outcome!ONext]_(Outcome!ovars)
    BY OutcomeStep
  <1> QED
    BY <1>1, <1>2, InvHolds, PTL DEF Spec, KeepsOutcome, Outcome!OSafety
=============================================================================
