-------------------------- MODULE WithdrawalsProofs --------------------------
(***************************************************************************)
(* Safety of Withdrawals, for any number of drivers, withdrawals and       *)
(* workers, and whatever the status column lets through: the types, the    *)
(* wallet's balance, that a completed withdrawal was paid, that closed     *)
(* withdrawals stay closed, the daily cap, what is asked of the provider,  *)
(* and that all of it implements WalletBook.                               *)
(***************************************************************************)
EXTENDS Withdrawals, TotalsProofs

\* Where a worker has the provider's word that the row in its hand was paid.
PaidPlaces == {"taken", "record", "settle", "unsettled"}

\* A recorded reference stands for a payout, and so does one that a worker has
\* seen in the row or has been told by the provider.
RefsArePaid ==
    /\ \A i \in Ids : ref[i] \/ status[i] = "completed" => paid[i] > 0
    /\ \A k \in Workers :
          /\ \A i \in Ids : seen[k][i].ref => paid[i] > 0
          /\ at[k] \in PaidPlaces => paid[hand[k]] > 0

\* The inductive invariant.  The wallet's part needs ReservedIsOwed, as it is
\* why no subtraction from wallet_pending is cut off at zero.
WithdrawalInv == TypeOK /\ ReservedIsOwed /\ NothingMinted /\ RefsArePaid

-----------------------------------------------------------------------------
(* Sums                                                                    *)

Ledger(d, S, am) ==
    [i \in Ids |-> IF i \in S /\ DriverOf[i] = d THEN am[i] ELSE 0]

\* Sum with the amounts as a parameter, so that its value after a step is the
\* same operator of the new amounts.
LEMMA SumLedger ==
    ASSUME NEW d, NEW S
    PROVE  Sum(d, S) = Total(Ledger(d, S, amount))
BY DEF Sum, Ledger

LEMMA LedgerType ==
    ASSUME NEW d, NEW S, NEW am \in [Ids -> Nat]
    PROVE  Ledger(d, S, am) \in [Ids -> Nat] /\ Total(Ledger(d, S, am)) \in Nat
<1>1. Ledger(d, S, am) \in [Ids -> Nat]
  BY DEF Ledger
<1> QED BY <1>1, WithdrawalAssumption, TotalType

\* Taking one more withdrawal into a sum, or changing the amount of one that
\* was not in it.
LEMMA SumAdds ==
    ASSUME NEW d, NEW S, NEW T, NEW i \in Ids, i \notin S,
           T \cap Ids = (S \cap Ids) \cup {i},
           NEW am \in [Ids -> Nat], NEW bm \in [Ids -> Nat],
           \A j \in Ids \ {i} : bm[j] = am[j]
    PROVE  Total(Ledger(d, T, bm)) =
             Total(Ledger(d, S, am)) + (IF DriverOf[i] = d THEN bm[i] ELSE 0)
<1> DEFINE f == Ledger(d, S, am)
           g == Ledger(d, T, bm)
<1>1. f \in [Ids -> Nat] /\ g \in [Ids -> Nat]
  BY LedgerType
<1>2. \A j \in Ids \ {i} : g[j] = f[j]
  BY DEF Ledger
<1>3. f[i] = 0 /\ g[i] = IF DriverOf[i] = d THEN bm[i] ELSE 0
  BY DEF Ledger
<1>4. Total(f) \in Nat /\ Total(g) \in Nat
  BY LedgerType
<1>5. Total(g) + f[i] = Total(f) + g[i]
  <2> HIDE DEF f, g
  <2> QED BY <1>1, <1>2, WithdrawalAssumption, TotalUpdate
<1> HIDE DEF f, g
<1>6. Total(g) = Total(f) + g[i]
  BY <1>1, <1>3, <1>4, <1>5
<1> QED BY <1>3, <1>6 DEF f, g

\* The same for every pair of sets.
LEMMA SumOpens ==
    ASSUME NEW d, NEW i \in Ids,
           NEW am \in [Ids -> Nat], NEW bm \in [Ids -> Nat],
           \A j \in Ids \ {i} : bm[j] = am[j]
    PROVE  \A S, T : i \notin S /\ T \cap Ids = (S \cap Ids) \cup {i} =>
              Total(Ledger(d, T, bm)) =
                Total(Ledger(d, S, am)) + (IF DriverOf[i] = d THEN bm[i] ELSE 0)
BY SumAdds

\* And with the amounts left alone.
LEMMA SumMoves ==
    ASSUME NEW d, NEW i \in Ids, NEW am \in [Ids -> Nat]
    PROVE  \A S, T : i \notin S /\ T \cap Ids = (S \cap Ids) \cup {i} =>
              Total(Ledger(d, T, am)) =
                Total(Ledger(d, S, am)) + (IF DriverOf[i] = d THEN am[i] ELSE 0)
BY SumAdds

\* A sum whose withdrawals and amounts are the same is the same.
LEMMA SumSame ==
    ASSUME NEW d, NEW S, NEW T, S \cap Ids = T \cap Ids,
           NEW am, NEW bm, \A j \in Ids : j \in S => bm[j] = am[j]
    PROVE  Total(Ledger(d, T, bm)) = Total(Ledger(d, S, am))
<1>1. Ledger(d, T, bm) = Ledger(d, S, am)
  BY DEF Ledger
<1> QED BY <1>1

-----------------------------------------------------------------------------
(* Types                                                                   *)

\* A step that leaves the row in hand keeps the worker's variables in type.
LEMMA LeavesType ==
    ASSUME TypeOK, NEW k \in Workers, NEW i \in Ids, Leaves(k, i)
    PROVE  /\ at' \in [Workers -> Places] /\ batch' \in [Workers -> SUBSET Ids]
           /\ hand' \in [Workers -> Ids \cup {NoRow}]
           /\ seen' \in [Workers -> [Ids -> Snapshots]]
           /\ \A w \in Workers : hand'[w] = NoRow <=> at'[w] \in {"idle", "loop"}
<1>1. Nothing \in Snapshots
  BY DEF Nothing, Snapshots
<1>2. [seen[k] EXCEPT ![i] = Nothing] \in [Ids -> Snapshots]
  BY <1>1 DEF TypeOK
<1>3. seen' = [seen EXCEPT ![k] = [seen[k] EXCEPT ![i] = Nothing]]
  BY DEF Leaves, TypeOK
<1>4. seen' \in [Workers -> [Ids -> Snapshots]]
  BY <1>2, <1>3 DEF TypeOK
<1>5. /\ at' \in [Workers -> Places] /\ batch' \in [Workers -> SUBSET Ids]
      /\ hand' \in [Workers -> Ids \cup {NoRow}]
  BY DEF Leaves, TypeOK, Places
<1>6. \A w \in Workers : hand'[w] = NoRow <=> at'[w] \in {"idle", "loop"}
  BY DEF Leaves, TypeOK
<1> QED BY <1>4, <1>5, <1>6

\* So does one that goes on with it.
LEMMA GoesType ==
    ASSUME TypeOK, NEW k \in Workers, hand[k] # NoRow,
           NEW place \in Places \ {"idle", "loop"}, Goes(k, place)
    PROVE  /\ at' \in [Workers -> Places] /\ batch' \in [Workers -> SUBSET Ids]
           /\ hand' \in [Workers -> Ids \cup {NoRow}]
           /\ seen' \in [Workers -> [Ids -> Snapshots]]
           /\ \A w \in Workers : hand'[w] = NoRow <=> at'[w] \in {"idle", "loop"}
BY DEF Goes, TypeOK

\* A worker away from the loop has a row in its hand.
LEMMA InHand ==
    ASSUME TypeOK, NEW k \in Workers, at[k] \notin {"idle", "loop"}
    PROVE  hand[k] \in Ids /\ hand[k] # NoRow
BY DEF TypeOK

\* The wallet's halves of the RPCs keep it in type.
LEMMA WalletType ==
    ASSUME TypeOK, NEW i \in Ids, Spend(i) \/ Restore(i)
    PROVE  confirmed' \in [Drivers -> Nat] /\ reserved' \in [Drivers -> Nat]
<1>1. DriverOf[i] \in Drivers /\ amount[i] \in Nat
  BY WithdrawalAssumption DEF TypeOK
<1> DEFINE d == DriverOf[i]
           r == Floored(reserved[d], amount[i])
<1>2. r \in Nat
  BY <1>1 DEF Floored, TypeOK
<1>3. /\ reserved' = [reserved EXCEPT ![d] = r]
      /\ confirmed' = confirmed
            \/ confirmed' = [confirmed EXCEPT ![d] = confirmed[d] + amount[i]]
  BY DEF Spend, Restore
<1> HIDE DEF r
<1>4. reserved' \in [Drivers -> Nat]
  BY <1>2, <1>3 DEF TypeOK
<1>5. confirmed' \in [Drivers -> Nat]
  BY <1>1, <1>3 DEF TypeOK
<1> QED BY <1>4, <1>5

\* The fault counter stays a number.
LEMMA FaultsType ==
    ASSUME TypeOK, CallFails \/ UNCHANGED faults
    PROVE  faults' \in Nat
BY DEF CallFails, TypeOK

LEMMA TypeStep ==
    ASSUME TypeOK, [Next]_vars
    PROVE  TypeOK'
<1> USE WithdrawalAssumption
<1>1. ASSUME NEW i \in Ids, NEW a \in Amounts, Withdraw(i, a) PROVE TypeOK'
  <2>1. DriverOf[i] \in Drivers /\ a \in Nat
    OBVIOUS
  <2>2. confirmed[DriverOf[i]] - a \in Nat
    BY <1>1, <2>1 DEF Withdraw, Funded, TypeOK
  <2>3. confirmed' \in [Drivers -> Nat] /\ reserved' \in [Drivers -> Nat]
    BY <1>1, <2>1, <2>2 DEF Withdraw, TypeOK
  <2> QED BY <1>1, <2>1, <2>3
        DEF Withdraw, TypeOK, Statuses, row, provider, worker, history
<1>2. ASSUME NEW i \in Ids, ComesDue(i) PROVE TypeOK'
  BY <1>2 DEF ComesDue, TypeOK, wallet, provider, worker, history
<1>3. ASSUME NEW i \in Ids, AcceptLate(i) PROVE TypeOK'
  BY <1>3 DEF AcceptLate, Pays, TypeOK, wallet, row, worker, history
<1>4. ASSUME NEW i \in Ids, AdminRetry(i) PROVE TypeOK'
  BY <1>4 DEF AdminRetry, TypeOK, Statuses, wallet, provider, worker
<1>5. ASSUME NEW i \in Ids, AdminRefund(i) PROVE TypeOK'
  <2> DEFINE r == Least(amount[i], reserved[DriverOf[i]])
  <2>1. DriverOf[i] \in Drivers /\ r \in Nat /\ reserved[DriverOf[i]] - r \in Nat
    BY DEF Least, TypeOK
  <2>2. confirmed' \in [Drivers -> Nat] /\ reserved' \in [Drivers -> Nat]
    <3>1. /\ reserved' = [reserved EXCEPT ![DriverOf[i]] = reserved[DriverOf[i]] - r]
          /\ confirmed' = [confirmed EXCEPT ![DriverOf[i]] = confirmed[DriverOf[i]] + r]
      BY <1>5 DEF AdminRefund
    <3> HIDE DEF r
    <3> QED BY <2>1, <3>1 DEF TypeOK
  <2> QED BY <1>5, <2>2 DEF AdminRefund, TypeOK, Statuses, provider, worker, history
<1>6. CASE NewDay
  BY <1>6 DEF NewDay, TypeOK, wallet, provider, worker, history
<1>7. ASSUME NEW k \in Workers, Begin(k) PROVE TypeOK'
  <2> DEFINE snap == [i \in Ids |->
             IF i \in {j \in Ids : Selected(j)}
             THEN [claimed |-> claimed[i], ref |-> ref[i],
                   retries |-> retries[i], attempts |-> attempts[i]]
             ELSE Nothing]
  <2>1. snap \in [Ids -> Snapshots]
    BY DEF Snapshots, Nothing, TypeOK
  <2>2. seen' = [seen EXCEPT ![k] = snap]
    BY <1>7 DEF Begin
  <2>3. seen' \in [Workers -> [Ids -> Snapshots]]
    <3> HIDE DEF snap
    <3> QED BY <2>1, <2>2 DEF TypeOK
  <2>4. batch' \in [Workers -> SUBSET Ids]
    BY <1>7 DEF Begin, TypeOK
  <2>5. /\ at' = [at EXCEPT ![k] = "loop"] /\ at[k] = "idle"
        /\ UNCHANGED <<wallet, row, provider, hand, history>>
    BY <1>7 DEF Begin
  <2> QED BY <2>3, <2>4, <2>5 DEF TypeOK, Places, wallet, row, provider, history
<1>8. ASSUME NEW k \in Workers, NEW i \in Ids, Claim(k, i) PROVE TypeOK'
  <2>1. claimed' \in [Ids -> BOOLEAN] /\ faults' \in Nat
    <3>1. CallFails \/ UNCHANGED faults
      BY <1>8 DEF Claim
    <3>2. claimed' = claimed \/ claimed' = [claimed EXCEPT ![i] = TRUE]
      BY <1>8 DEF Claim
    <3> QED BY <3>1, <3>2, FaultsType DEF TypeOK
  <2>2. /\ at' \in [Workers -> Places] /\ batch' \in [Workers -> SUBSET Ids]
        /\ hand' \in [Workers -> Ids \cup {NoRow}]
        /\ seen' \in [Workers -> [Ids -> Snapshots]]
        /\ \A w \in Workers : hand'[w] = NoRow <=> at'[w] \in {"idle", "loop"}
    <3>1. CASE Leaves(k, i)
      BY <3>1, LeavesType
    <3>2. CASE ~Leaves(k, i)
      <4>1. /\ at' = [at EXCEPT ![k] = "claimed"] /\ hand' = [hand EXCEPT ![k] = i]
            /\ UNCHANGED <<batch, seen>>
        BY <1>8, <3>2 DEF Claim
      <4> QED BY <4>1 DEF TypeOK, Places
    <3> QED BY <3>1, <3>2
  <2>3. UNCHANGED <<wallet, status, amount, today, ref, settled, due, retries,
                    attempts, provider, adminRetries>>
    BY <1>8 DEF Claim
  <2> QED BY <2>1, <2>2, <2>3 DEF TypeOK, wallet, provider
<1>9. ASSUME NEW k \in Workers, NEW i \in Ids, Resume(k, i) PROVE TypeOK'
  BY <1>9 DEF Resume, TypeOK, Places, wallet, row, provider, history
<1>10. ASSUME NEW k \in Workers, Dispatch(k) PROVE TypeOK'
  <2>1. \E p \in {"sent", "refused"} : Goes(k, p)
    BY <1>10 DEF Dispatch
  <2>2. hand[k] # NoRow
    BY <1>10, InHand DEF Dispatch
  <2> QED BY <1>10, <2>1, <2>2, GoesType
        DEF Dispatch, TypeOK, Places, wallet, row, provider, history
<1>11. ASSUME NEW k \in Workers, Accept(k) PROVE TypeOK'
  <2>1. hand[k] \in Ids /\ hand[k] # NoRow
    BY <1>11, InHand DEF Accept
  <2>2. paid' \in [Ids -> Nat]
    BY <1>11, <2>1 DEF Accept, Pays, TypeOK
  <2> QED BY <1>11, <2>1, <2>2, GoesType
        DEF Accept, TypeOK, Places, wallet, row, history
<1>12. ASSUME NEW k \in Workers, Answer(k) PROVE TypeOK'
  <2>1. hand[k] # NoRow
    BY <1>12, InHand DEF Answer
  <2> QED BY <1>12, <2>1, GoesType
        DEF Answer, TypeOK, Places, wallet, row, provider, history
<1>13. ASSUME NEW k \in Workers, Unsure(k) PROVE TypeOK'
  <2>1. hand[k] \in Ids /\ hand[k] # NoRow
    BY <1>13, InHand DEF Unsure
  <2>2. paid' \in [Ids -> Nat] /\ late' \in [Ids -> Nat]
    <3>1. Abandoned(k)
      BY <1>13 DEF Unsure
    <3>2. paid' \in [Ids -> Nat]
      BY <3>1 DEF Abandoned, TypeOK
    <3>3. late' \in [Ids -> Nat]
      BY <2>1, <3>1 DEF Abandoned, TypeOK
    <3> QED BY <3>2, <3>3
  <2>3. Goes(k, "unsure") /\ UNCHANGED <<wallet, row, history>>
    BY <1>13 DEF Unsure
  <2> QED BY <2>1, <2>2, <2>3, GoesType DEF TypeOK, Places, wallet, row, history
<1>14. ASSUME NEW k \in Workers, PutOff(k) PROVE TypeOK'
  <2>1. hand[k] \in Ids
    BY <1>14, InHand DEF PutOff
  <2>2. Leaves(k, hand[k])
    BY <1>14 DEF PutOff
  <2>3. /\ status' \in [Ids -> Statuses] /\ claimed' \in [Ids -> BOOLEAN]
        /\ due' \in [Ids -> BOOLEAN] /\ retries' \in [Ids -> Nat]
        /\ faults' \in Nat
    <3>1. CallFails \/ UNCHANGED faults
      BY <1>14 DEF PutOff
    <3>2. \/ UNCHANGED status
          \/ status' = [status EXCEPT ![hand[k]] = "settlement_failed"]
      BY <1>14 DEF PutOff
    <3>3. \/ UNCHANGED <<retries, due, claimed>>
          \/ /\ retries' = [retries EXCEPT ![hand[k]] = retries[hand[k]] + 1]
             /\ due' = [due EXCEPT ![hand[k]] = FALSE]
             /\ claimed' = [claimed EXCEPT ![hand[k]] = FALSE]
      BY <1>14 DEF PutOff
    <3>4. status' \in [Ids -> Statuses]
      BY <2>1, <3>2 DEF TypeOK, Statuses
    <3>5. claimed' \in [Ids -> BOOLEAN] /\ due' \in [Ids -> BOOLEAN]
      BY <3>3 DEF TypeOK
    <3>6. retries' \in [Ids -> Nat]
      BY <2>1, <3>3 DEF TypeOK
    <3> QED BY <3>1, <3>4, <3>5, <3>6, FaultsType
  <2>4. UNCHANGED <<wallet, amount, today, ref, settled, attempts, provider,
                    adminRetries>>
    BY <1>14 DEF PutOff
  <2> QED BY <2>1, <2>2, <2>3, <2>4, LeavesType DEF TypeOK, wallet, provider
<1>15. ASSUME NEW k \in Workers, Refuse(k) PROVE TypeOK'
  <2>1. hand[k] \in Ids
    BY <1>15, InHand DEF Refuse
  <2>2. Leaves(k, hand[k])
    BY <1>15 DEF Refuse
  <2>3. confirmed' \in [Drivers -> Nat] /\ reserved' \in [Drivers -> Nat]
    BY <1>15, <2>1, WalletType DEF Refuse, wallet, TypeOK
  <2>4. status' \in [Ids -> Statuses] /\ faults' \in Nat
    <3>1. CallFails \/ UNCHANGED faults
      BY <1>15 DEF Refuse
    <3>2. UNCHANGED status \/ status' = [status EXCEPT ![hand[k]] = "failed"]
      BY <1>15 DEF Refuse
    <3> QED BY <2>1, <3>1, <3>2, FaultsType DEF TypeOK, Statuses
  <2>5. UNCHANGED <<amount, today, claimed, ref, settled, due, retries, attempts,
                    provider, adminRetries>>
    BY <1>15 DEF Refuse
  <2> QED BY <2>1, <2>2, <2>3, <2>4, <2>5, LeavesType DEF TypeOK, provider
<1>16. ASSUME NEW k \in Workers, Recover(k) PROVE TypeOK'
  <2>1. hand[k] \in Ids /\ hand[k] # NoRow
    BY <1>16, InHand DEF Recover
  <2>2. CASE Goes(k, "record")
    BY <1>16, <2>1, <2>2, GoesType
       DEF Recover, TypeOK, Places, wallet, row, provider, history
  <2>3. CASE Leaves(k, hand[k])
    BY <1>16, <2>1, <2>3, LeavesType
       DEF Recover, TypeOK, wallet, row, provider, history
  <2> QED BY <1>16, <2>2, <2>3 DEF Recover
<1>17. ASSUME NEW k \in Workers, Record(k) PROVE TypeOK'
  <2>1. hand[k] \in Ids /\ hand[k] # NoRow
    BY <1>17, InHand DEF Record
  <2>2. ref' \in [Ids -> BOOLEAN] /\ faults' \in Nat
    <3>1. CallFails \/ UNCHANGED faults
      BY <1>17 DEF Record
    <3>2. UNCHANGED ref \/ ref' = [ref EXCEPT ![hand[k]] = TRUE]
      BY <1>17 DEF Record
    <3> QED BY <2>1, <3>1, <3>2, FaultsType DEF TypeOK
  <2>3. /\ Goes(k, "settle")
        /\ UNCHANGED <<wallet, status, amount, today, claimed, settled, due,
                       retries, attempts, provider, adminRetries>>
    BY <1>17 DEF Record
  <2> QED BY <2>1, <2>2, <2>3, GoesType DEF TypeOK, Places, wallet, provider
<1>18. ASSUME NEW k \in Workers, Settle(k) PROVE TypeOK'
  <2>1. hand[k] \in Ids /\ hand[k] # NoRow
    BY <1>18, InHand DEF Settle
  <2>2. confirmed' \in [Drivers -> Nat] /\ reserved' \in [Drivers -> Nat]
    BY <1>18, <2>1, WalletType DEF Settle, wallet, TypeOK
  <2>3. /\ status' \in [Ids -> Statuses] /\ settled' \in [Ids -> BOOLEAN]
        /\ ref' \in [Ids -> BOOLEAN] /\ faults' \in Nat
    <3>1. CallFails \/ UNCHANGED faults
      BY <1>18 DEF Settle
    <3>2. \/ UNCHANGED <<status, settled, ref>>
          \/ /\ status' = [status EXCEPT ![hand[k]] = "completed"]
             /\ settled' = [settled EXCEPT ![hand[k]] = TRUE]
             /\ ref' = [ref EXCEPT ![hand[k]] = TRUE]
      BY <1>18 DEF Settle
    <3> QED BY <2>1, <3>1, <3>2, FaultsType DEF TypeOK, Statuses
  <2>4. /\ at' \in [Workers -> Places] /\ batch' \in [Workers -> SUBSET Ids]
        /\ hand' \in [Workers -> Ids \cup {NoRow}]
        /\ seen' \in [Workers -> [Ids -> Snapshots]]
        /\ \A w \in Workers : hand'[w] = NoRow <=> at'[w] \in {"idle", "loop"}
    <3>1. Leaves(k, hand[k]) \/ Goes(k, "unsettled")
      BY <1>18 DEF Settle
    <3>2. "unsettled" \in Places \ {"idle", "loop"}
      BY DEF Places
    <3> QED BY <2>1, <3>1, <3>2, LeavesType, GoesType
  <2>5. UNCHANGED <<amount, today, claimed, due, retries, attempts, provider,
                    adminRetries>>
    BY <1>18 DEF Settle
  <2> QED BY <2>2, <2>3, <2>4, <2>5 DEF TypeOK, provider
<1>19. ASSUME NEW k \in Workers, RecordFailure(k) PROVE TypeOK'
  <2>1. hand[k] \in Ids
    BY <1>19, InHand DEF RecordFailure
  <2>2. Leaves(k, hand[k])
    BY <1>19 DEF RecordFailure
  <2>3. /\ status' \in [Ids -> Statuses] /\ attempts' \in [Ids -> Nat]
        /\ faults' \in Nat
    <3>1. CallFails \/ UNCHANGED faults
      BY <1>19 DEF RecordFailure
    <3>2. \/ UNCHANGED <<status, attempts>>
          \/ /\ attempts' = [attempts EXCEPT ![hand[k]] = attempts[hand[k]] + 1]
             /\ \E s \in {"pending", "settlement_failed"} :
                   status' = [status EXCEPT ![hand[k]] = s]
      BY <1>19 DEF RecordFailure
    <3>3. status' \in [Ids -> Statuses]
      BY <2>1, <3>2 DEF TypeOK, Statuses
    <3>4. attempts' \in [Ids -> Nat]
      BY <2>1, <3>2 DEF TypeOK
    <3> QED BY <3>1, <3>3, <3>4, FaultsType
  <2>4. UNCHANGED <<wallet, amount, today, claimed, ref, settled, due, retries,
                    provider, adminRetries>>
    BY <1>19 DEF RecordFailure
  <2> QED BY <2>1, <2>2, <2>3, <2>4, LeavesType DEF TypeOK, wallet, provider
<1>20. ASSUME NEW k \in Workers, Crash(k) PROVE TypeOK'
  <2>1. Nothing \in Snapshots
    BY DEF Nothing, Snapshots
  <2>2. [i \in Ids |-> Nothing] \in [Ids -> Snapshots]
    BY <2>1
  <2>3. paid' \in [Ids -> Nat] /\ late' \in [Ids -> Nat] /\ faults' \in Nat
    <3>1. at[k] = "sent" => hand[k] \in Ids
      BY InHand
    <3>2. Abandoned(k) /\ CallFails
      BY <1>20 DEF Crash
    <3>3. paid' \in [Ids -> Nat] /\ late' \in [Ids -> Nat]
      BY <3>1, <3>2 DEF Abandoned, TypeOK
    <3> QED BY <3>2, <3>3, FaultsType
  <2>4. seen' \in [Workers -> [Ids -> Snapshots]]
    BY <1>20, <2>2 DEF Crash, TypeOK
  <2>5. /\ at' = [at EXCEPT ![k] = "idle"] /\ batch' = [batch EXCEPT ![k] = {}]
        /\ hand' = [hand EXCEPT ![k] = NoRow]
        /\ UNCHANGED <<wallet, row, adminRetries>>
    BY <1>20 DEF Crash
  <2> QED BY <2>3, <2>4, <2>5 DEF TypeOK, Places, wallet, row
<1>21. ASSUME NEW k \in Workers, Decline(k) PROVE TypeOK'
  <2>1. hand[k] # NoRow
    BY <1>21, InHand DEF Decline
  <2> QED BY <1>21, <2>1, GoesType
        DEF Decline, TypeOK, Places, wallet, row, provider, history
<1>22. CASE UNCHANGED vars
  BY <1>22 DEF vars, wallet, row, provider, worker, history, TypeOK
<1> QED BY <1>1, <1>2, <1>3, <1>4, <1>5, <1>6, <1>7, <1>8, <1>9, <1>10, <1>11,
           <1>12, <1>13, <1>14, <1>15, <1>16, <1>17, <1>18, <1>19, <1>20, <1>21,
           <1>22
        DEF Next, Work

-----------------------------------------------------------------------------
(* The wallet                                                              *)

WalletInv == ReservedIsOwed /\ NothingMinted

\* A step that neither moves money nor opens or closes a withdrawal.
LEMMA WalletSame ==
    ASSUME WalletInv, UNCHANGED <<wallet, amount>>,
           Unresolved' = Unresolved, Completed' = Completed
    PROVE  WalletInv'
BY DEF WalletInv, ReservedIsOwed, NothingMinted, Sum, wallet

\* A withdrawal that stays unresolved: pending, or given up.
LEMMA StaysUnresolved ==
    ASSUME TypeOK, NEW i \in Ids, i \in Unresolved,
           NEW s \in {"pending", "settlement_failed"},
           status' = [status EXCEPT ![i] = s]
    PROVE  Unresolved' = Unresolved /\ Completed' = Completed
BY DEF TypeOK, Unresolved, Completed

\* What is reserved covers each unresolved withdrawal.
LEMMA Covered ==
    ASSUME TypeOK, ReservedIsOwed, NEW i \in Ids, i \in Unresolved
    PROVE  /\ DriverOf[i] \in Drivers
           /\ amount[i] \in Nat /\ reserved[DriverOf[i]] \in Nat
           /\ amount[i] <= reserved[DriverOf[i]]
<1> DEFINE d == DriverOf[i]
           rest == Total(Ledger(d, Unresolved \ {i}, amount))
<1>1. d \in Drivers /\ amount \in [Ids -> Nat] /\ reserved[d] \in Nat
  BY WithdrawalAssumption DEF TypeOK
<1>2. Total(Ledger(d, Unresolved, amount)) = rest + amount[i]
  <2>1. Unresolved \cap Ids = ((Unresolved \ {i}) \cap Ids) \cup {i}
    OBVIOUS
  <2> QED BY <1>1, <2>1, SumAdds
<1>3. rest \in Nat
  BY <1>1, LedgerType
<1>4. reserved[d] = rest + amount[i]
  BY <1>1, <1>2, SumLedger DEF ReservedIsOwed
<1> HIDE DEF rest
<1> QED BY <1>1, <1>3, <1>4

\* The same of a step: a withdrawal leaves the unresolved ones.
LEMMA SumLeaves ==
    ASSUME TypeOK, NEW i \in Ids, i \in Unresolved, NEW d,
           NEW s \in {"completed", "failed"}, status' = [status EXCEPT ![i] = s]
    PROVE  /\ Total(Ledger(d, Unresolved, amount)) =
                Total(Ledger(d, Unresolved', amount))
                  + (IF DriverOf[i] = d THEN amount[i] ELSE 0)
           /\ Total(Ledger(d, Completed', amount)) =
                Total(Ledger(d, Completed, amount))
                  + (IF s = "completed" /\ DriverOf[i] = d THEN amount[i] ELSE 0)
<1>1. amount \in [Ids -> Nat] /\ amount[i] \in Nat
  BY DEF TypeOK
<1>2. Unresolved \cap Ids = (Unresolved' \cap Ids) \cup {i} /\ i \notin Unresolved'
  BY DEF Unresolved, TypeOK
<1>3. i \notin Completed
  BY DEF Unresolved, Completed
<1>4. \A S, T : i \notin S /\ T \cap Ids = (S \cap Ids) \cup {i} =>
         Total(Ledger(d, T, amount)) =
           Total(Ledger(d, S, amount)) + (IF DriverOf[i] = d THEN amount[i] ELSE 0)
  BY <1>1, SumMoves
<1>5. Total(Ledger(d, Unresolved, amount)) = Total(Ledger(d, Unresolved', amount))
        + (IF DriverOf[i] = d THEN amount[i] ELSE 0)
  BY <1>2, <1>4, Zenon
<1>6. CASE s = "completed"
  <2>1. Completed' \cap Ids = (Completed \cap Ids) \cup {i}
    BY <1>6 DEF Completed, TypeOK
  <2>2. Total(Ledger(d, Completed', amount)) = Total(Ledger(d, Completed, amount))
          + (IF DriverOf[i] = d THEN amount[i] ELSE 0)
    BY <1>3, <1>4, <2>1, Zenon
  <2> QED BY <1>5, <1>6, <2>2
<1>7. CASE s = "failed"
  <2>1. Completed' \cap Ids = Completed \cap Ids
    BY <1>3, <1>7 DEF Completed, TypeOK
  <2>2. Total(Ledger(d, Completed', amount)) = Total(Ledger(d, Completed, amount))
    BY <2>1, SumSame
  <2>3. Total(Ledger(d, Completed, amount)) \in Nat
    BY <1>1, LedgerType
  <2> QED BY <1>5, <1>7, <2>2, <2>3
<1> QED BY <1>6, <1>7

\* Closing a withdrawal takes its amount out of the reserve, and returns it to
\* the driver exactly when the withdrawal failed.
Closes(i, s) ==
    /\ i \in Unresolved /\ status' = [status EXCEPT ![i] = s] /\ amount' = amount
    /\ reserved' = [reserved EXCEPT ![DriverOf[i]] = reserved[DriverOf[i]] - amount[i]]
    /\ s = "completed" => confirmed' = confirmed
    /\ s = "failed" => confirmed' = [confirmed EXCEPT ![DriverOf[i]] =
                                        confirmed[DriverOf[i]] + amount[i]]

LEMMA RefundCloses ==
    ASSUME TypeOK, ReservedIsOwed, NEW i \in Ids, AdminRefund(i)
    PROVE  Closes(i, "failed")
<1>1. i \in Unresolved
  BY DEF AdminRefund, Open, Unresolved, TypeOK, Statuses
<1>2. Least(amount[i], reserved[DriverOf[i]]) = amount[i]
  BY <1>1, Covered DEF Least
<1> QED BY <1>1, <1>2 DEF AdminRefund, Closes

LEMMA RefuseCloses ==
    ASSUME TypeOK, ReservedIsOwed, NEW k \in Workers, Refuse(k)
    PROVE  UNCHANGED <<status, wallet, amount>> \/ Closes(hand[k], "failed")
<1>1. hand[k] \in Ids
  BY InHand DEF Refuse
<1>2. MayFail(hand[k]) => /\ hand[k] \in Unresolved
                          /\ Floored(reserved[DriverOf[hand[k]]], amount[hand[k]])
                               = reserved[DriverOf[hand[k]]] - amount[hand[k]]
  BY <1>1, Covered DEF MayFail, Pending, Unresolved, Floored
<1> QED BY <1>2 DEF Refuse, Restore, Closes

LEMMA SettleCloses ==
    ASSUME TypeOK, ReservedIsOwed, NEW k \in Workers, Settle(k)
    PROVE  UNCHANGED <<status, wallet, amount>> \/ Closes(hand[k], "completed")
<1>1. hand[k] \in Ids
  BY InHand DEF Settle
<1>2. Pending(hand[k]) => /\ hand[k] \in Unresolved
                          /\ Floored(reserved[DriverOf[hand[k]]], amount[hand[k]])
                               = reserved[DriverOf[hand[k]]] - amount[hand[k]]
  BY <1>1, Covered DEF Pending, Unresolved, Floored
<1> QED BY <1>2 DEF Settle, Spend, Closes

LEMMA WalletCloses ==
    ASSUME TypeOK, WalletInv, NEW i \in Ids, NEW s \in {"completed", "failed"}, Closes(i, s)
    PROVE  WalletInv'
<1> USE DEF Closes
<1>1. /\ DriverOf[i] \in Drivers /\ amount[i] \in Nat
      /\ reserved \in [Drivers -> Nat] /\ confirmed \in [Drivers -> Nat]
      /\ amount \in [Ids -> Nat] /\ Deposits \in [Drivers -> Nat]
  BY WithdrawalAssumption DEF TypeOK
<1> SUFFICES ASSUME NEW d \in Drivers
             PROVE  /\ reserved'[d] = Sum(d, Unresolved)'
                    /\ confirmed'[d] + reserved'[d] + Sum(d, Completed)' = Deposits[d]
  BY DEF WalletInv, ReservedIsOwed, NothingMinted
<1> DEFINE U == Total(Ledger(d, Unresolved, amount))
           V == Total(Ledger(d, Unresolved', amount))
           C == Total(Ledger(d, Completed, amount))
           D == Total(Ledger(d, Completed', amount))
           part == IF DriverOf[i] = d THEN amount[i] ELSE 0
<1>5. U \in Nat /\ V \in Nat /\ C \in Nat /\ D \in Nat
  BY <1>1, LedgerType
<1>6. /\ U = V + (IF DriverOf[i] = d THEN amount[i] ELSE 0)
      /\ D = C + (IF s = "completed" /\ DriverOf[i] = d THEN amount[i] ELSE 0)
  BY SumLeaves
<1>7. U = V + part /\ D = C + (IF s = "completed" THEN part ELSE 0)
  BY <1>6
<1>8. Sum(d, Unresolved)' = V /\ Sum(d, Completed)' = D
  BY DEF Sum, Ledger
<1>9. reserved[d] = U /\ confirmed[d] + reserved[d] + C = Deposits[d]
  BY SumLedger DEF WalletInv, ReservedIsOwed, NothingMinted
<1>10. part \in Nat
  BY <1>1
<1>11. reserved'[d] = reserved[d] - part
  BY <1>1
<1>12. confirmed'[d] = confirmed[d] + (IF s = "failed" THEN part ELSE 0)
  BY <1>1
<1>13. /\ confirmed[d] \in Nat /\ reserved[d] \in Nat /\ Deposits[d] \in Nat
       /\ s = "completed" \/ s = "failed"
  BY <1>1
<1> HIDE DEF U, V, C, D, part
<1>14. reserved'[d] = V
  BY <1>5, <1>7, <1>9, <1>10, <1>11
<1>15. confirmed'[d] + V + D = Deposits[d]
  BY <1>5, <1>7, <1>9, <1>10, <1>12, <1>13, <1>14
<1> QED BY <1>8, <1>14, <1>15

\* Asking for a withdrawal moves its amount from confirmed to reserved.
LEMMA WalletOpens ==
    ASSUME TypeOK, WalletInv, NEW i \in Ids, NEW a \in Amounts, Withdraw(i, a)
    PROVE  WalletInv'
<1>1. /\ DriverOf[i] \in Drivers /\ a \in Nat
      /\ reserved \in [Drivers -> Nat] /\ confirmed \in [Drivers -> Nat]
      /\ amount \in [Ids -> Nat] /\ Deposits \in [Drivers -> Nat]
  BY WithdrawalAssumption DEF TypeOK
<1>2. amount' \in [Ids -> Nat] /\ amount'[i] = a
      /\ \A j \in Ids \ {i} : amount'[j] = amount[j]
  BY <1>1 DEF Withdraw
<1>3. /\ reserved' = [reserved EXCEPT ![DriverOf[i]] = reserved[DriverOf[i]] + a]
      /\ confirmed' = [confirmed EXCEPT ![DriverOf[i]] = confirmed[DriverOf[i]] - a]
      /\ confirmed[DriverOf[i]] >= a
  BY DEF Withdraw, Funded
<1>4. status[i] = "none" /\ status' = [status EXCEPT ![i] = "pending"]
  BY DEF Withdraw
<1>5. i \notin Unresolved /\ Unresolved' \cap Ids = (Unresolved \cap Ids) \cup {i}
  BY <1>4 DEF Unresolved, TypeOK
<1>6. i \notin Completed /\ Completed' \cap Ids = Completed \cap Ids
  BY <1>4 DEF Completed, TypeOK
<1> SUFFICES ASSUME NEW d \in Drivers
             PROVE  /\ reserved'[d] = Sum(d, Unresolved)'
                    /\ confirmed'[d] + reserved'[d] + Sum(d, Completed)' = Deposits[d]
  BY DEF WalletInv, ReservedIsOwed, NothingMinted
<1> DEFINE U == Total(Ledger(d, Unresolved, amount))
           V == Total(Ledger(d, Unresolved', amount'))
           C == Total(Ledger(d, Completed, amount))
           D == Total(Ledger(d, Completed', amount'))
           part == IF DriverOf[i] = d THEN a ELSE 0
<1>7. U \in Nat /\ V \in Nat /\ C \in Nat /\ D \in Nat
  BY <1>1, <1>2, LedgerType
<1>8. V = U + (IF DriverOf[i] = d THEN amount'[i] ELSE 0)
  <2>1. \A S, T : i \notin S /\ T \cap Ids = (S \cap Ids) \cup {i} =>
            Total(Ledger(d, T, amount')) =
              Total(Ledger(d, S, amount)) + (IF DriverOf[i] = d THEN amount'[i] ELSE 0)
    BY <1>1, <1>2, SumOpens
  <2> QED BY <1>5, <2>1, Zenon
<1>9. D = C
  BY <1>2, <1>6, SumSame
<1>10. V = U + part
  BY <1>2, <1>8
<1>11. Sum(d, Unresolved)' = V /\ Sum(d, Completed)' = D
  BY DEF Sum, Ledger
<1>12. reserved[d] = U /\ confirmed[d] + reserved[d] + C = Deposits[d]
  BY SumLedger DEF WalletInv, ReservedIsOwed, NothingMinted
<1>13. part \in Nat /\ confirmed[d] \in Nat /\ reserved[d] \in Nat
       /\ Deposits[d] \in Nat
  BY <1>1
<1>14. reserved'[d] = reserved[d] + part /\ confirmed'[d] = confirmed[d] - part
  BY <1>1, <1>3
<1> HIDE DEF U, V, C, D, part
<1>15. reserved'[d] = V
  BY <1>10, <1>12, <1>14
<1>16. confirmed'[d] + V + D = Deposits[d]
  BY <1>7, <1>9, <1>10, <1>12, <1>13, <1>14
<1> QED BY <1>11, <1>15, <1>16

LEMMA WalletStep ==
    ASSUME TypeOK, WalletInv, [Next]_vars
    PROVE  WalletInv'
<1>1. ASSUME NEW i \in Ids, NEW a \in Amounts, Withdraw(i, a) PROVE WalletInv'
  BY <1>1, WalletOpens
<1>2. CASE UNCHANGED <<wallet, amount, status>>
  BY <1>2, WalletSame DEF Unresolved, Completed
<1>3. ASSUME NEW i \in Ids, AdminRetry(i) PROVE WalletInv'
  <2>1. i \in Unresolved /\ status' = [status EXCEPT ![i] = "pending"]
    BY <1>3 DEF AdminRetry, Open, Unresolved, TypeOK, Statuses
  <2>2. UNCHANGED <<wallet, amount>>
    BY <1>3 DEF AdminRetry
  <2> QED BY <2>1, <2>2, StaysUnresolved, WalletSame
<1>4. ASSUME NEW i \in Ids, AdminRefund(i) PROVE WalletInv'
  BY <1>4, RefundCloses, WalletCloses DEF WalletInv
<1>5. ASSUME NEW k \in Workers, PutOff(k) PROVE WalletInv'
  <2>1. hand[k] \in Ids
    BY <1>5, InHand DEF PutOff
  <2>2. UNCHANGED <<wallet, amount>>
    BY <1>5 DEF PutOff
  <2>3. CASE UNCHANGED status
    BY <1>2, <2>2, <2>3
  <2>4. CASE Pending(hand[k]) /\ status' = [status EXCEPT ![hand[k]] = "settlement_failed"]
    <3>1. hand[k] \in Unresolved
      BY <2>1, <2>4 DEF Pending, Unresolved
    <3> QED BY <2>1, <2>2, <2>4, <3>1, StaysUnresolved, WalletSame
  <2> QED BY <1>5, <2>3, <2>4 DEF PutOff
<1>6. ASSUME NEW k \in Workers, RecordFailure(k) PROVE WalletInv'
  <2>1. hand[k] \in Ids
    BY <1>6, InHand DEF RecordFailure
  <2>2. UNCHANGED <<wallet, amount>>
    BY <1>6 DEF RecordFailure
  <2>3. CASE UNCHANGED status
    BY <1>2, <2>2, <2>3
  <2>4. CASE Pending(hand[k]) /\ \E s \in {"pending", "settlement_failed"} :
                                  status' = [status EXCEPT ![hand[k]] = s]
    <3>1. hand[k] \in Unresolved
      BY <2>1, <2>4 DEF Pending, Unresolved
    <3> QED BY <2>1, <2>2, <2>4, <3>1, StaysUnresolved, WalletSame
  <2> QED BY <1>6, <2>3, <2>4 DEF RecordFailure
<1>7. ASSUME NEW k \in Workers, Refuse(k) PROVE WalletInv'
  <2>1. hand[k] \in Ids
    BY <1>7, InHand DEF Refuse
  <2> QED BY <1>2, <1>7, <2>1, RefuseCloses, WalletCloses DEF WalletInv
<1>8. ASSUME NEW k \in Workers, Settle(k) PROVE WalletInv'
  <2>1. hand[k] \in Ids
    BY <1>8, InHand DEF Settle
  <2> QED BY <1>2, <1>8, <2>1, SettleCloses, WalletCloses DEF WalletInv
<1>9. ASSUME NEW i \in Ids, ComesDue(i) \/ AcceptLate(i) PROVE WalletInv'
  BY <1>2, <1>9 DEF ComesDue, AcceptLate, wallet, row
<1>10. ASSUME NEW k \in Workers,
              Begin(k) \/ Dispatch(k) \/ Answer(k) \/ Unsure(k) \/ Recover(k)
              \/ Record(k) \/ Accept(k) \/ Decline(k) \/ Crash(k)
       PROVE  WalletInv'
  BY <1>2, <1>10 DEF Begin, Dispatch, Answer, Unsure, Recover, Record, Accept,
                     Decline, Crash, wallet, row
<1>11. ASSUME NEW k \in Workers, NEW i \in Ids, Claim(k, i) \/ Resume(k, i)
       PROVE  WalletInv'
  BY <1>2, <1>11 DEF Claim, Resume, row
<1>12. CASE NewDay \/ UNCHANGED vars
  BY <1>2, <1>12 DEF NewDay, vars, wallet, row
<1> QED BY <1>1, <1>3, <1>4, <1>5, <1>6, <1>7, <1>8, <1>9, <1>10, <1>11, <1>12
        DEF Next, Work

-----------------------------------------------------------------------------
(* References and payouts                                                  *)

\* What it takes of a step to keep RefsArePaid.
LEMMA RefsFrame ==
    ASSUME RefsArePaid,
           \A i \in Ids : paid[i] > 0 => paid'[i] > 0,
           \A i \in Ids : ref'[i] => ref[i] \/ paid[i] > 0,
           \A i \in Ids : status'[i] = "completed" => status[i] = "completed" \/ paid[i] > 0,
           \A k \in Workers, i \in Ids : seen'[k][i].ref => seen[k][i].ref \/ ref[i],
           \A k \in Workers : at'[k] \in PaidPlaces => paid'[hand'[k]] > 0
    PROVE  RefsArePaid'
BY DEF RefsArePaid

\* A step of worker k that finds or has found a payout, or leaves the row.
LEMMA WorkerFrame ==
    ASSUME TypeOK, RefsArePaid, NEW k \in Workers,
           \A i \in Ids : paid[i] > 0 => paid'[i] > 0,
           NEW place \in Places, at' = [at EXCEPT ![k] = place],
           NEW row2 \in Ids \cup {NoRow}, hand' = [hand EXCEPT ![k] = row2],
           place \in PaidPlaces => paid'[row2] > 0
    PROVE  \A w \in Workers : at'[w] \in PaidPlaces => paid'[hand'[w]] > 0
<1> SUFFICES ASSUME NEW w \in Workers, at'[w] \in PaidPlaces
             PROVE  paid'[hand'[w]] > 0
  OBVIOUS
<1>1. CASE w = k
  BY <1>1 DEF TypeOK
<1>2. CASE w # k
  <2>1. at'[w] = at[w] /\ hand'[w] = hand[w]
    BY <1>2 DEF TypeOK
  <2>2. hand[w] \in Ids
    BY <2>1, InHand DEF PaidPlaces
  <2>3. paid[hand[w]] > 0
    BY <2>1 DEF RefsArePaid
  <2> QED BY <2>1, <2>2, <2>3
<1> QED BY <1>1, <1>2

\* Going on with the row in hand, and leaving it, in the form of WorkerFrame.
LEMMA GoesFrame ==
    ASSUME TypeOK, NEW k \in Workers, NEW place, Goes(k, place)
    PROVE  /\ at' = [at EXCEPT ![k] = place]
           /\ hand' = [hand EXCEPT ![k] = hand[k]] /\ hand[k] \in Ids \cup {NoRow}
           /\ \A w \in Workers, i \in Ids : seen'[w][i].ref => seen[w][i].ref
BY DEF Goes, TypeOK

LEMMA LeavesFrame ==
    ASSUME TypeOK, NEW k \in Workers, NEW i \in Ids, Leaves(k, i)
    PROVE  /\ \E place \in {"idle", "loop"} : at' = [at EXCEPT ![k] = place]
           /\ hand' = [hand EXCEPT ![k] = NoRow]
           /\ \A w \in Workers, j \in Ids : seen'[w][j].ref => seen[w][j].ref
<1>1. seen' = [seen EXCEPT ![k] = [seen[k] EXCEPT ![i] = Nothing]]
  BY DEF Leaves, TypeOK
<1>2. Nothing.ref = FALSE
  BY DEF Nothing
<1>3. \A w \in Workers, j \in Ids : seen'[w][j].ref => seen[w][j].ref
  <2> TAKE w \in Workers, j \in Ids
  <2>1. seen'[w][j] = seen[w][j] \/ seen'[w][j] = Nothing
    BY <1>1 DEF TypeOK
  <2> QED BY <1>2, <2>1
<1>4. /\ \E place \in {"idle", "loop"} : at' = [at EXCEPT ![k] = place]
      /\ hand' = [hand EXCEPT ![k] = NoRow]
  BY DEF Leaves
<1> QED BY <1>3, <1>4

\* The provider's payouts.
LEMMA PaysMore ==
    ASSUME TypeOK, NEW i \in Ids, Pays(i)
    PROVE  paid'[i] > 0 /\ \A j \in Ids : paid[j] > 0 => paid'[j] > 0
<1>1. paid[i] \in Nat
  BY DEF TypeOK
<1>2. paid' = [paid EXCEPT ![i] = IF OncePerReference THEN 1 ELSE paid[i] + 1]
  BY DEF Pays
<1>3. paid'[i] > 0
  BY <1>1, <1>2 DEF TypeOK
<1>4. \A j \in Ids \ {i} : paid'[j] = paid[j]
  BY <1>2 DEF TypeOK
<1> QED BY <1>3, <1>4

LEMMA RefsStep ==
    ASSUME TypeOK, RefsArePaid, [Next]_vars
    PROVE  RefsArePaid'
<1>1. ASSUME UNCHANGED worker,
             \A i \in Ids : paid[i] > 0 => paid'[i] > 0,
             \A i \in Ids : ref'[i] => ref[i],
             \A i \in Ids : status'[i] = "completed" => status[i] = "completed"
      PROVE  RefsArePaid'
  <2>1. \A k \in Workers : at'[k] \in PaidPlaces => paid'[hand'[k]] > 0
    <3> SUFFICES ASSUME NEW k \in Workers, at[k] \in PaidPlaces
                 PROVE  paid'[hand[k]] > 0
      BY <1>1 DEF worker
    <3>1. hand[k] \in Ids
      BY InHand DEF PaidPlaces
    <3> QED BY <1>1, <3>1 DEF RefsArePaid
  <2>2. \A k \in Workers, i \in Ids : seen'[k][i].ref => seen[k][i].ref
    BY <1>1 DEF worker
  <2> QED BY <1>1, <2>1, <2>2, RefsFrame
<1>2. ASSUME NEW i \in Ids, NEW a \in Amounts, Withdraw(i, a) PROVE RefsArePaid'
  <2>1. \A j \in Ids : status'[j] = "completed" => status[j] = "completed"
    BY <1>2 DEF Withdraw, TypeOK
  <2> QED BY <1>1, <1>2, <2>1 DEF Withdraw, provider
<1>3. ASSUME NEW i \in Ids, ComesDue(i) PROVE RefsArePaid'
  BY <1>1, <1>3 DEF ComesDue, provider
<1>4. ASSUME NEW i \in Ids, AcceptLate(i) PROVE RefsArePaid'
  <2>1. \A j \in Ids : paid[j] > 0 => paid'[j] > 0
    BY <1>4, PaysMore DEF AcceptLate
  <2> QED BY <1>1, <1>4, <2>1 DEF AcceptLate, row
<1>5. ASSUME NEW i \in Ids, AdminRetry(i) PROVE RefsArePaid'
  <2>1. \A j \in Ids : status'[j] = "completed" => status[j] = "completed"
    BY <1>5 DEF AdminRetry, TypeOK
  <2>2. \A j \in Ids : ref'[j] => ref[j]
    BY <1>5 DEF AdminRetry, TypeOK
  <2> QED BY <1>1, <1>5, <2>1, <2>2 DEF AdminRetry, provider
<1>6. ASSUME NEW i \in Ids, AdminRefund(i) PROVE RefsArePaid'
  <2>1. \A j \in Ids : status'[j] = "completed" => status[j] = "completed"
    BY <1>6 DEF AdminRefund, TypeOK
  <2> QED BY <1>1, <1>6, <2>1 DEF AdminRefund, provider
<1>7. CASE NewDay \/ UNCHANGED vars
  BY <1>1, <1>7 DEF NewDay, vars, provider, row
<1>8. ASSUME NEW k \in Workers, NEW place \in Places, NEW row2 \in Ids \cup {NoRow},
             at' = [at EXCEPT ![k] = place], hand' = [hand EXCEPT ![k] = row2],
             place \in PaidPlaces => paid[row2] > 0, UNCHANGED paid,
             \A i \in Ids : ref'[i] => ref[i] \/ paid[i] > 0,
             \A i \in Ids : status'[i] = "completed" =>
                               status[i] = "completed" \/ paid[i] > 0,
             \A w \in Workers, i \in Ids :
                 seen'[w][i].ref => seen[w][i].ref \/ ref[i]
      PROVE  RefsArePaid'
  <2>1. \A w \in Workers : at'[w] \in PaidPlaces => paid'[hand'[w]] > 0
    BY <1>8, WorkerFrame
  <2> QED BY <1>8, <2>1, RefsFrame
<1>9. ASSUME NEW k \in Workers, NEW i \in Ids, Leaves(k, i), UNCHANGED paid,
             \A j \in Ids : ref'[j] => ref[j] \/ paid[j] > 0,
             \A j \in Ids : status'[j] = "completed" =>
                               status[j] = "completed" \/ paid[j] > 0
      PROVE  RefsArePaid'
  <2>1. PICK place \in {"idle", "loop"} : at' = [at EXCEPT ![k] = place]
    BY <1>9, LeavesFrame
  <2>2. place \in Places /\ place \notin PaidPlaces
    BY DEF Places, PaidPlaces
  <2>3. /\ hand' = [hand EXCEPT ![k] = NoRow]
        /\ \A w \in Workers, j \in Ids : seen'[w][j].ref => seen[w][j].ref
    BY <1>9, LeavesFrame
  <2> QED BY <1>8, <1>9, <2>1, <2>2, <2>3
<1>10. ASSUME NEW k \in Workers, NEW place \in Places, Goes(k, place),
              place \in PaidPlaces => paid[hand[k]] > 0, UNCHANGED <<paid, status>>,
              \A j \in Ids : ref'[j] => ref[j] \/ paid[j] > 0
       PROVE  RefsArePaid'
  BY <1>8, <1>10, GoesFrame
<1>11. ASSUME NEW k \in Workers, Begin(k) PROVE RefsArePaid'
  <2>1. at' = [at EXCEPT ![k] = "loop"] /\ hand' = [hand EXCEPT ![k] = hand[k]]
        /\ hand[k] \in Ids \cup {NoRow}
    BY <1>11 DEF Begin, TypeOK
  <2>2. \A w \in Workers, i \in Ids : seen'[w][i].ref => seen[w][i].ref \/ ref[i]
    BY <1>11 DEF Begin, Nothing, TypeOK
  <2>3. "loop" \in Places /\ "loop" \notin PaidPlaces
    BY DEF Places, PaidPlaces
  <2>4. UNCHANGED <<paid, ref, status>>
    BY <1>11 DEF Begin, row, provider
  <2> QED BY <1>8, <2>1, <2>2, <2>3, <2>4
<1>12. ASSUME NEW k \in Workers, NEW i \in Ids, Claim(k, i) PROVE RefsArePaid'
  <2>1. UNCHANGED <<paid, ref, status>>
    BY <1>12 DEF Claim, provider
  <2>2. CASE Leaves(k, i)
    BY <1>9, <2>1, <2>2
  <2>3. CASE ~Leaves(k, i)
    <3>1. /\ at' = [at EXCEPT ![k] = "claimed"] /\ hand' = [hand EXCEPT ![k] = i]
          /\ UNCHANGED seen
      BY <1>12, <2>3 DEF Claim
    <3>2. "claimed" \in Places /\ "claimed" \notin PaidPlaces
      BY DEF Places, PaidPlaces
    <3> QED BY <1>8, <2>1, <3>1, <3>2
  <2> QED BY <2>2, <2>3
<1>13. ASSUME NEW k \in Workers, NEW i \in Ids, Resume(k, i) PROVE RefsArePaid'
  <2>1. /\ at' = [at EXCEPT ![k] = IF seen[k][i].ref THEN "settle" ELSE "recover"]
        /\ hand' = [hand EXCEPT ![k] = i]
        /\ UNCHANGED <<seen, paid, ref, status>>
    BY <1>13 DEF Resume, row, provider
  <2>2. seen[k][i].ref => paid[i] > 0
    BY DEF RefsArePaid
  <2>3. "settle" \in Places /\ "recover" \in Places /\ "recover" \notin PaidPlaces
    BY DEF Places, PaidPlaces
  <2>4. CASE seen[k][i].ref
    BY <1>8, <2>1, <2>2, <2>3, <2>4
  <2>5. CASE ~seen[k][i].ref
    BY <1>8, <2>1, <2>3, <2>5
  <2> QED BY <2>4, <2>5
<1>14. ASSUME NEW k \in Workers, Dispatch(k) PROVE RefsArePaid'
  <2>1. "sent" \in Places /\ "refused" \in Places
        /\ "sent" \notin PaidPlaces /\ "refused" \notin PaidPlaces
    BY DEF Places, PaidPlaces
  <2>2. (Goes(k, "sent") \/ Goes(k, "refused")) /\ UNCHANGED <<paid, ref, status>>
    BY <1>14 DEF Dispatch, row, provider
  <2> QED BY <1>10, <2>1, <2>2
<1>15. ASSUME NEW k \in Workers, Accept(k) PROVE RefsArePaid'
  <2>1. hand[k] \in Ids
    BY <1>15, InHand DEF Accept
  <2>2. paid'[hand[k]] > 0 /\ \A j \in Ids : paid[j] > 0 => paid'[j] > 0
    BY <1>15, <2>1, PaysMore DEF Accept
  <2>3. Goes(k, "taken") /\ UNCHANGED <<ref, status>>
    BY <1>15 DEF Accept, row
  <2>4. "taken" \in Places
    BY DEF Places
  <2>5. \A w \in Workers : at'[w] \in PaidPlaces => paid'[hand'[w]] > 0
    BY <2>2, <2>3, <2>4, GoesFrame, WorkerFrame
  <2>6. \A w \in Workers, i \in Ids : seen'[w][i].ref => seen[w][i].ref
    BY <2>3, GoesFrame
  <2> QED BY <2>2, <2>3, <2>5, <2>6, RefsFrame
<1>16. ASSUME NEW k \in Workers, Answer(k) PROVE RefsArePaid'
  <2>1. paid[hand[k]] > 0
    BY <1>16 DEF Answer, RefsArePaid, PaidPlaces
  <2>2. Goes(k, "record") /\ UNCHANGED <<paid, ref, status>>
    BY <1>16 DEF Answer, row, provider
  <2>3. "record" \in Places
    BY DEF Places
  <2> QED BY <1>10, <2>1, <2>2, <2>3
<1>17. ASSUME NEW k \in Workers, Unsure(k) PROVE RefsArePaid'
  <2>1. Goes(k, "unsure") /\ UNCHANGED <<paid, ref, status>>
    BY <1>17 DEF Unsure, Abandoned, row
  <2>2. "unsure" \in Places /\ "unsure" \notin PaidPlaces
    BY DEF Places, PaidPlaces
  <2> QED BY <1>10, <2>1, <2>2
<1>18. ASSUME NEW k \in Workers, PutOff(k) PROVE RefsArePaid'
  <2>1. hand[k] \in Ids
    BY <1>18, InHand DEF PutOff
  <2>2. Leaves(k, hand[k]) /\ UNCHANGED <<paid, ref>>
    BY <1>18 DEF PutOff, provider
  <2>3. \A j \in Ids : status'[j] = "completed" => status[j] = "completed"
    <3>1. UNCHANGED status \/ status' = [status EXCEPT ![hand[k]] = "settlement_failed"]
      BY <1>18 DEF PutOff
    <3> QED BY <3>1 DEF TypeOK
  <2> QED BY <1>9, <2>1, <2>2, <2>3
<1>19. ASSUME NEW k \in Workers, Refuse(k) PROVE RefsArePaid'
  <2>1. hand[k] \in Ids
    BY <1>19, InHand DEF Refuse
  <2>2. Leaves(k, hand[k]) /\ UNCHANGED <<paid, ref>>
    BY <1>19 DEF Refuse, provider
  <2>3. \A j \in Ids : status'[j] = "completed" => status[j] = "completed"
    <3>1. UNCHANGED status \/ status' = [status EXCEPT ![hand[k]] = "failed"]
      BY <1>19 DEF Refuse
    <3> QED BY <3>1 DEF TypeOK
  <2> QED BY <1>9, <2>1, <2>2, <2>3
<1>20. ASSUME NEW k \in Workers, Recover(k) PROVE RefsArePaid'
  <2>1. hand[k] \in Ids
    BY <1>20, InHand DEF Recover
  <2>2. UNCHANGED <<paid, ref, status>>
    BY <1>20 DEF Recover, row, provider
  <2>3. CASE Found(hand[k]) /\ Goes(k, "record")
    <3>1. paid[hand[k]] > 0 /\ "record" \in Places
      BY <2>3 DEF Found, Places
    <3> QED BY <1>10, <2>2, <2>3, <3>1
  <2>4. CASE Leaves(k, hand[k])
    BY <1>9, <2>1, <2>2, <2>4
  <2> QED BY <1>20, <2>3, <2>4 DEF Recover
<1>21. ASSUME NEW k \in Workers, Record(k) PROVE RefsArePaid'
  <2>1. paid[hand[k]] > 0
    BY <1>21 DEF Record, RefsArePaid, PaidPlaces
  <2>2. Goes(k, "settle") /\ UNCHANGED <<paid, status>> /\ "settle" \in Places
    BY <1>21 DEF Record, Places, provider
  <2>3. \A j \in Ids : ref'[j] => ref[j] \/ paid[j] > 0
    <3>1. UNCHANGED ref \/ ref' = [ref EXCEPT ![hand[k]] = TRUE]
      BY <1>21 DEF Record
    <3> QED BY <2>1, <3>1 DEF TypeOK
  <2> QED BY <1>10, <2>1, <2>2, <2>3
<1>22. ASSUME NEW k \in Workers, Settle(k) PROVE RefsArePaid'
  <2>1. hand[k] \in Ids /\ paid[hand[k]] > 0
    BY <1>22, InHand DEF Settle, RefsArePaid, PaidPlaces
  <2>2. UNCHANGED paid
    BY <1>22 DEF Settle, provider
  <2>3. \/ UNCHANGED <<status, ref>>
        \/ /\ status' = [status EXCEPT ![hand[k]] = "completed"]
           /\ ref' = [ref EXCEPT ![hand[k]] = TRUE]
    BY <1>22 DEF Settle
  <2>4. \A j \in Ids : ref'[j] => ref[j] \/ paid[j] > 0
    BY <2>1, <2>3 DEF TypeOK
  <2>5. \A j \in Ids : status'[j] = "completed" => status[j] = "completed" \/ paid[j] > 0
    BY <2>1, <2>3 DEF TypeOK
  <2>6. CASE Leaves(k, hand[k])
    BY <1>9, <2>1, <2>2, <2>4, <2>5, <2>6
  <2>7. CASE Goes(k, "unsettled") /\ UNCHANGED status
    <3>1. "unsettled" \in Places
      BY DEF Places
    <3> QED BY <1>10, <2>1, <2>2, <2>4, <2>7, <3>1
  <2> QED BY <1>22, <2>6, <2>7 DEF Settle
<1>23. ASSUME NEW k \in Workers, RecordFailure(k) PROVE RefsArePaid'
  <2>1. hand[k] \in Ids
    BY <1>23, InHand DEF RecordFailure
  <2>2. Leaves(k, hand[k]) /\ UNCHANGED <<paid, ref>>
    BY <1>23 DEF RecordFailure, provider
  <2>3. \A j \in Ids : status'[j] = "completed" => status[j] = "completed"
    <3>1. \/ UNCHANGED status
          \/ \E s \in {"pending", "settlement_failed"} :
                 status' = [status EXCEPT ![hand[k]] = s]
      BY <1>23 DEF RecordFailure
    <3> QED BY <3>1 DEF TypeOK
  <2> QED BY <1>9, <2>1, <2>2, <2>3
<1>24. ASSUME NEW k \in Workers, Crash(k) PROVE RefsArePaid'
  <2>1. at' = [at EXCEPT ![k] = "idle"] /\ hand' = [hand EXCEPT ![k] = NoRow]
        /\ seen' = [seen EXCEPT ![k] = [i \in Ids |-> Nothing]]
        /\ UNCHANGED <<paid, ref, status>>
    BY <1>24 DEF Crash, Abandoned, row
  <2>2. \A w \in Workers, i \in Ids : seen'[w][i].ref => seen[w][i].ref
    BY <2>1 DEF Nothing, TypeOK
  <2>3. "idle" \in Places /\ "idle" \notin PaidPlaces
    BY DEF Places, PaidPlaces
  <2> QED BY <1>8, <2>1, <2>2, <2>3
<1>25. ASSUME NEW k \in Workers, Decline(k) PROVE RefsArePaid'
  <2>1. "refused" \in Places /\ "refused" \notin PaidPlaces
    BY DEF Places, PaidPlaces
  <2>2. Goes(k, "refused") /\ UNCHANGED <<paid, ref, status>>
    BY <1>25 DEF Decline, row, provider
  <2> QED BY <1>10, <2>1, <2>2
<1> QED BY <1>2, <1>3, <1>4, <1>5, <1>6, <1>7, <1>11, <1>12, <1>13, <1>14, <1>15,
           <1>16, <1>17, <1>18, <1>19, <1>20, <1>21, <1>22, <1>23, <1>24, <1>25
        DEF Next, Work

-----------------------------------------------------------------------------
(* The theorems                                                            *)

LEMMA InitInv ==
    ASSUME Init
    PROVE  WithdrawalInv
<1>1. Nothing \in Snapshots /\ Nothing.ref = FALSE
  BY DEF Nothing, Snapshots
<1>2. TypeOK
  BY <1>1, WithdrawalAssumption DEF Init, TypeOK, Statuses, Places
<1>3. Unresolved = {} /\ Completed = {}
  BY DEF Init, Unresolved, Completed
<1>4. \A d \in Drivers, S \in {{}} : Sum(d, S) = 0
  <2> TAKE d \in Drivers, S \in {{}}
  <2>1. \A i \in Ids : Ledger(d, S, amount)[i] = 0
    BY DEF Ledger
  <2>2. Ledger(d, S, amount) \in [Ids -> Nat]
    BY <1>2, LedgerType DEF TypeOK
  <2> QED BY <2>1, <2>2, SumLedger, TotalZero, WithdrawalAssumption
<1>5. ReservedIsOwed /\ NothingMinted
  <2> SUFFICES ASSUME NEW d \in Drivers
               PROVE  /\ reserved[d] = Sum(d, Unresolved)
                      /\ confirmed[d] + reserved[d] + Sum(d, Completed) = Deposits[d]
    BY DEF ReservedIsOwed, NothingMinted
  <2>1. Sum(d, Unresolved) = 0 /\ Sum(d, Completed) = 0
    BY <1>3, <1>4
  <2>2. reserved[d] = 0 /\ confirmed[d] = Deposits[d] /\ Deposits[d] \in Nat
    BY WithdrawalAssumption DEF Init
  <2> QED BY <2>1, <2>2
<1>6. RefsArePaid
  BY <1>1 DEF Init, RefsArePaid, PaidPlaces
<1> QED BY <1>2, <1>5, <1>6 DEF WithdrawalInv

\* WithdrawalInv holds of everything the system does.
THEOREM WithdrawalInvariance == Spec => []WithdrawalInv
<1>1. Init => WithdrawalInv
  BY InitInv
<1>2. WithdrawalInv /\ [Next]_vars => WithdrawalInv'
  BY TypeStep, WalletStep, RefsStep DEF WithdrawalInv, WalletInv
<1> QED BY <1>1, <1>2, PTL DEF Spec

\* TypeOK: every variable keeps its type, and a worker has a row in its hand
\* exactly when it is working on one.
THEOREM WithdrawalTypes == Spec => []TypeOK
<1>1. WithdrawalInv => TypeOK
  BY DEF WithdrawalInv
<1> QED BY <1>1, WithdrawalInvariance, PTL

\* ReservedIsOwed: no reserve is spent or restored twice or forgotten, whatever
\* the workers, the provider and the admins do.
THEOREM ReserveBalanced == Spec => []ReservedIsOwed
<1>1. WithdrawalInv => ReservedIsOwed
  BY DEF WithdrawalInv
<1> QED BY <1>1, WithdrawalInvariance, PTL

\* NothingMinted: the wallet loses what was completed and nothing else.
THEOREM WalletBalanced == Spec => []NothingMinted
<1>1. WithdrawalInv => NothingMinted
  BY DEF WithdrawalInv
<1> QED BY <1>1, WithdrawalInvariance, PTL

\* CompletedWasPaid: a completed withdrawal has been paid by the provider.
THEOREM PaidBeforeCompleted == Spec => []CompletedWasPaid
<1>1. WithdrawalInv => CompletedWasPaid
  BY DEF WithdrawalInv, RefsArePaid, CompletedWasPaid, Completed
<1> QED BY <1>1, WithdrawalInvariance, PTL

\* A closed withdrawal's status stays.
LEMMA ClosedStep ==
    ASSUME TypeOK, [Next]_vars, NEW i \in Ids, status[i] \in {"completed", "failed"}
    PROVE  status'[i] = status[i]
<1>1. ASSUME NEW j \in Ids, NEW s, status' = [status EXCEPT ![j] = s],
             status[j] \notin {"completed", "failed"}
      PROVE  status'[i] = status[i]
  BY <1>1 DEF TypeOK
<1>2. ASSUME NEW j \in Ids, NEW a \in Amounts, Withdraw(j, a)
      PROVE  status'[i] = status[i]
  BY <1>1, <1>2 DEF Withdraw
<1>3. ASSUME NEW j \in Ids, AdminRetry(j) \/ AdminRefund(j)
      PROVE  status'[i] = status[i]
  BY <1>1, <1>3 DEF AdminRetry, AdminRefund, Open
<1>4. ASSUME NEW k \in Workers, PutOff(k) \/ Refuse(k) \/ Settle(k) \/ RecordFailure(k)
      PROVE  status'[i] = status[i]
  <2>1. hand[k] \in Ids
    BY <1>4, InHand DEF PutOff, Refuse, Settle, RecordFailure
  <2>2. UNCHANGED status \/ (Pending(hand[k]) /\
                              \E s \in Statuses : status' = [status EXCEPT ![hand[k]] = s])
    BY <1>4 DEF PutOff, Refuse, Settle, RecordFailure, MayFail, Statuses
  <2> QED BY <1>1, <2>1, <2>2 DEF Pending
<1>5. ASSUME NEW j \in Ids, ComesDue(j) \/ AcceptLate(j) PROVE status'[i] = status[i]
  BY <1>5 DEF ComesDue, AcceptLate, row
<1>6. ASSUME NEW k \in Workers, NEW j \in Ids, Claim(k, j) \/ Resume(k, j)
      PROVE  status'[i] = status[i]
  BY <1>6 DEF Claim, Resume, row
<1>7. ASSUME NEW k \in Workers,
             Begin(k) \/ Dispatch(k) \/ Answer(k) \/ Unsure(k) \/ Recover(k)
             \/ Record(k) \/ Accept(k) \/ Decline(k) \/ Crash(k)
      PROVE  status'[i] = status[i]
  BY <1>7 DEF Begin, Dispatch, Answer, Unsure, Recover, Record, Accept, Decline,
              Crash, row
<1>8. CASE NewDay \/ UNCHANGED vars
  BY <1>8 DEF NewDay, vars, row
<1> QED BY <1>2, <1>3, <1>4, <1>5, <1>6, <1>7, <1>8 DEF Next, Work

\* ClosedIsFinal: no step of a worker or an admin, however late, changes a
\* completed or refunded withdrawal.
THEOREM ClosedForGood == Spec => ClosedIsFinal
<1>1. TypeOK /\ [Next]_vars =>
        [\A i \in Ids : status[i] \in {"completed", "failed"} => status'[i] = status[i]]_vars
  BY ClosedStep
<1> QED BY <1>1, WithdrawalTypes, PTL DEF Spec, ClosedIsFinal

-----------------------------------------------------------------------------
(* The daily cap                                                           *)

\* Only a request opens a withdrawal; any other step changes the status of one
\* at most, and never of a refunded one.
LEMMA StatusSteps ==
    ASSUME TypeOK, [Next]_vars,
           ~ \E i \in Ids : \E a \in Amounts : Withdraw(i, a), ~NewDay
    PROVE  /\ UNCHANGED <<amount, today>>
           /\ \/ UNCHANGED status
              \/ \E i \in Ids, s \in Statuses \ {"none"} :
                    /\ status[i] \notin {"none", "failed"}
                    /\ status' = [status EXCEPT ![i] = s]
<1>1. CASE \E i \in Ids : \/ ComesDue(i) \/ AcceptLate(i)
                          \/ AdminRetry(i) \/ AdminRefund(i)
  BY <1>1 DEF ComesDue, AcceptLate, AdminRetry, AdminRefund, Open, Statuses, row
<1>2. ASSUME NEW k \in Workers, PutOff(k) \/ Refuse(k) \/ Settle(k) \/ RecordFailure(k)
      PROVE  /\ UNCHANGED <<amount, today>>
             /\ \/ UNCHANGED status
                \/ /\ hand[k] \in Ids /\ Pending(hand[k])
                   /\ \E s \in Statuses \ {"none"} :
                         status' = [status EXCEPT ![hand[k]] = s]
  <2>1. hand[k] \in Ids
    BY <1>2, InHand DEF PutOff, Refuse, Settle, RecordFailure
  <2>2. UNCHANGED <<amount, today>>
    BY <1>2 DEF PutOff, Refuse, Settle, RecordFailure
  <2>3. UNCHANGED status \/ (Pending(hand[k]) /\
            \E s \in Statuses \ {"none"} : status' = [status EXCEPT ![hand[k]] = s])
    BY <1>2 DEF PutOff, Refuse, Settle, RecordFailure, MayFail, Statuses
  <2> QED BY <2>1, <2>2, <2>3
<1>3. ASSUME NEW k \in Workers,
             \/ Begin(k) \/ Dispatch(k) \/ Answer(k) \/ Unsure(k) \/ Recover(k)
             \/ Record(k) \/ Accept(k) \/ Decline(k) \/ Crash(k)
             \/ \E i \in Ids : Claim(k, i) \/ Resume(k, i)
      PROVE  UNCHANGED <<amount, today, status>>
  BY <1>3 DEF Begin, Dispatch, Answer, Unsure, Recover, Record, Accept, Decline,
              Crash, Claim, Resume, row
<1>4. CASE UNCHANGED vars
  BY <1>4 DEF vars, row
<1> QED BY <1>1, <1>2, <1>3, <1>4 DEF Next, Work, Pending

LEMMA CapStep ==
    ASSUME TypeOK, WithinDailyCap, [Next]_vars
    PROVE  WithinDailyCap'
<1> SUFFICES ASSUME NEW d \in Drivers
             PROVE  Total(Ledger(d, CountedToday', amount')) <= DailyCap
  BY SumLedger DEF WithinDailyCap, Sum, Ledger
<1>1. Total(Ledger(d, CountedToday, amount)) <= DailyCap
  BY SumLedger DEF WithinDailyCap
<1>2. amount \in [Ids -> Nat]
  BY DEF TypeOK
<1>3. ASSUME NEW i \in Ids, NEW a \in Amounts, Withdraw(i, a)
      PROVE  Total(Ledger(d, CountedToday', amount')) <= DailyCap
  <2>1. /\ Sum(DriverOf[i], CountedToday) + a <= DailyCap /\ a \in Nat
        /\ status[i] = "none" /\ status' = [status EXCEPT ![i] = "pending"]
        /\ amount' = [amount EXCEPT ![i] = a] /\ today' = [today EXCEPT ![i] = TRUE]
    BY <1>3, WithdrawalAssumption DEF Withdraw
  <2>2. i \notin CountedToday /\ CountedToday' \cap Ids = (CountedToday \cap Ids) \cup {i}
    BY <2>1 DEF CountedToday, TypeOK
  <2>3. /\ amount' \in [Ids -> Nat] /\ amount'[i] = a
        /\ \A j \in Ids \ {i} : amount'[j] = amount[j]
    BY <1>2, <2>1
  <2>4. Total(Ledger(d, CountedToday', amount')) =
          Total(Ledger(d, CountedToday, amount)) + (IF DriverOf[i] = d THEN a ELSE 0)
    <3>1. \A S, T : i \notin S /\ T \cap Ids = (S \cap Ids) \cup {i} =>
              Total(Ledger(d, T, amount')) =
                Total(Ledger(d, S, amount)) + (IF DriverOf[i] = d THEN amount'[i] ELSE 0)
      BY <1>2, <2>3, SumOpens
    <3>2. Total(Ledger(d, CountedToday', amount')) =
            Total(Ledger(d, CountedToday, amount))
              + (IF DriverOf[i] = d THEN amount'[i] ELSE 0)
      BY <2>2, <3>1, Zenon
    <3> QED BY <2>3, <3>2
  <2>5. Total(Ledger(d, CountedToday, amount)) \in Nat
    BY <1>2, LedgerType
  <2>6. Sum(d, CountedToday) = Total(Ledger(d, CountedToday, amount))
    BY SumLedger
  <2> QED BY <1>1, <2>1, <2>4, <2>5, <2>6, WithdrawalAssumption
<1>4. CASE NewDay
  <2>1. CountedToday' = {}
    <3>1. \A i \in Ids : today'[i] = FALSE
      BY <1>4, Zenon DEF NewDay
    <3> QED BY <3>1, Zenon DEF CountedToday
  <2>2. Ledger(d, CountedToday', amount') = [i \in Ids |-> 0]
    BY <2>1 DEF Ledger
  <2>3. Total(Ledger(d, CountedToday', amount')) = 0
    BY <2>2, TotalZero
  <2> QED BY <2>3, WithdrawalAssumption
<1>5. CASE /\ ~ \E i \in Ids : \E a \in Amounts : Withdraw(i, a)
           /\ ~NewDay
  <2>1. UNCHANGED <<amount, today>>
    BY <1>5, StatusSteps
  <2>2. CASE CountedToday' = CountedToday
    BY <1>1, <2>1, <2>2
  <2>3. ASSUME NEW i \in Ids, i \in CountedToday, CountedToday' = CountedToday \ {i}
        PROVE  Total(Ledger(d, CountedToday', amount')) <= DailyCap
    <3>1. CountedToday \cap Ids = (CountedToday' \cap Ids) \cup {i}
          /\ i \notin CountedToday'
      BY <2>3
    <3>2. Total(Ledger(d, CountedToday, amount)) =
            Total(Ledger(d, CountedToday', amount))
              + (IF DriverOf[i] = d THEN amount[i] ELSE 0)
      <4>1. \A S, T : i \notin S /\ T \cap Ids = (S \cap Ids) \cup {i} =>
                Total(Ledger(d, T, amount)) =
                  Total(Ledger(d, S, amount)) + (IF DriverOf[i] = d THEN amount[i] ELSE 0)
        BY <1>2, SumMoves
      <4> QED BY <3>1, <4>1, Zenon
    <3>3. amount[i] \in Nat /\ Total(Ledger(d, CountedToday', amount)) \in Nat
      BY <1>2, LedgerType
    <3> QED BY <1>1, <2>1, <3>2, <3>3, WithdrawalAssumption
  <2>4. \/ CountedToday' = CountedToday
        \/ \E i \in Ids : i \in CountedToday /\ CountedToday' = CountedToday \ {i}
    <3>1. CASE UNCHANGED status
      BY <2>1, <3>1 DEF CountedToday
    <3>2. ASSUME NEW i \in Ids, NEW s \in Statuses \ {"none"},
                 status[i] \notin {"none", "failed"},
                 status' = [status EXCEPT ![i] = s]
          PROVE  \/ CountedToday' = CountedToday
                 \/ i \in CountedToday /\ CountedToday' = CountedToday \ {i}
      <4>1. CASE s = "failed" /\ today[i]
        BY <2>1, <3>2, <4>1 DEF CountedToday, TypeOK
      <4>2. CASE ~(s = "failed" /\ today[i])
        BY <2>1, <3>2, <4>2 DEF CountedToday, TypeOK
      <4> QED BY <4>1, <4>2
    <3> QED BY <1>5, <3>1, <3>2, StatusSteps
  <2> QED BY <2>2, <2>3, <2>4
<1> QED BY <1>3, <1>4, <1>5

\* A driver's withdrawals of a day stay within the cap, although failures make
\* room in it and an admin takes up withdrawals of the same day again
\* (withdraw_funds_tx, admin_resolve_dlq_withdrawal).
THEOREM CapHolds == Spec => []WithinDailyCap
<1>1. Init => WithinDailyCap
  <2> SUFFICES ASSUME Init, NEW d \in Drivers
               PROVE  Total(Ledger(d, CountedToday, amount)) <= DailyCap
    BY SumLedger DEF WithinDailyCap
  <2>1. Ledger(d, CountedToday, amount) = [i \in Ids |-> 0]
    BY DEF Init, Ledger
  <2> QED BY <2>1, TotalZero, WithdrawalAssumption
<1> QED BY <1>1, CapStep, WithdrawalTypes, PTL DEF Spec

-----------------------------------------------------------------------------
(* Claims, and requests to the provider                                    *)

\* The workers that have withdrawal i in hand at one of some places.
Holding(i, P) == {k \in Workers : hand[k] = i /\ at[k] \in P}

\* Worker k's share in the size of Holding(i, P).
Share(k, i, P) == IF hand[k] = i /\ at[k] \in P THEN 1 ELSE 0

\* From the claim to the end of the dispatch, and to the request's arrival.
Dispatching == {"claimed", "sent", "taken", "unsure", "refused"}
Asking == {"claimed", "sent"}

\* A claim that can be won.
Free(i) == IF claimed[i] THEN 0 ELSE 1

\* A claim is with one worker or to be won, unless an admin took it from its
\* holder; and every request that was made, or may be made under the claim, is
\* the first one or a counted retry.
CountInv ==
    \A i \in Ids :
        /\ IsFiniteSet(Holding(i, Dispatching))
        /\ Cardinality(Holding(i, Dispatching)) + Free(i) <= 1 + adminRetries[i]
        /\ adminRetries[i] = 0 =>
              paid[i] + late[i] + Cardinality(Holding(i, Asking)) + Free(i)
                <= 1 + retries[i]

\* One worker's step changes the size of a set of holders by his share.
LEMMA HoldingMoves ==
    ASSUME NEW i, NEW P, IsFiniteSet(Holding(i, P)), NEW k \in Workers,
           \A w \in Workers \ {k} : at'[w] = at[w] /\ hand'[w] = hand[w]
    PROVE  /\ IsFiniteSet(Holding(i, P)')
           /\ Cardinality(Holding(i, P)) \in Nat /\ Cardinality(Holding(i, P)') \in Nat
           /\ Cardinality(Holding(i, P)') + Share(k, i, P) =
                Cardinality(Holding(i, P)) + Share(k, i, P)'
<1> DEFINE H == Holding(i, P)
           G == Holding(i, P)'
           R == H \ {k}
<1>1. IsFiniteSet(R) /\ Cardinality(R) \in Nat /\ k \notin R
  BY FS_RemoveElement, FS_CardinalityType
<1>2. IsFiniteSet(R \cup {k}) /\ Cardinality(R \cup {k}) = Cardinality(R) + 1
  BY <1>1, FS_AddElement
<1>3. H = (IF Share(k, i, P) = 1 THEN R \cup {k} ELSE R)
  BY DEF Holding, Share
<1>4. G = (IF Share(k, i, P)' = 1 THEN R \cup {k} ELSE R)
  BY DEF Holding, Share
<1>5. Share(k, i, P) \in {0, 1} /\ Share(k, i, P)' \in {0, 1}
  BY DEF Share
<1> HIDE DEF H, G, R
<1>6. /\ IsFiniteSet(G) /\ Cardinality(H) \in Nat /\ Cardinality(G) \in Nat
      /\ Cardinality(G) + Share(k, i, P) = Cardinality(H) + Share(k, i, P)'
  BY <1>1, <1>2, <1>3, <1>4, <1>5
<1> QED BY <1>6 DEF G, H

LEMMA AskingFinite ==
    ASSUME NEW i, IsFiniteSet(Holding(i, Dispatching))
    PROVE  IsFiniteSet(Holding(i, Asking))
<1>1. Holding(i, Asking) \in SUBSET Holding(i, Dispatching)
  BY DEF Holding, Asking, Dispatching
<1> QED BY <1>1, FS_Subset

\* What it takes of a worker's step to keep CountInv.
LEMMA CountFrame ==
    ASSUME TypeOK, TypeOK', CountInv, NEW k \in Workers,
           \A w \in Workers \ {k} : at'[w] = at[w] /\ hand'[w] = hand[w],
           adminRetries' = adminRetries,
           \A i \in Ids :
              /\ Share(k, i, Dispatching)' + Free(i)' <= Share(k, i, Dispatching) + Free(i)
              /\ paid'[i] + late'[i] + Share(k, i, Asking)' + Free(i)' + retries[i]
                   <= paid[i] + late[i] + Share(k, i, Asking) + Free(i) + retries'[i]
    PROVE  CountInv'
<1> SUFFICES ASSUME NEW i \in Ids
             PROVE  /\ IsFiniteSet(Holding(i, Dispatching)')
                    /\ Cardinality(Holding(i, Dispatching)') + Free(i)'
                         <= 1 + adminRetries'[i]
                    /\ adminRetries'[i] = 0 =>
                          paid'[i] + late'[i] + Cardinality(Holding(i, Asking)') + Free(i)'
                            <= 1 + retries'[i]
  BY DEF CountInv, Holding
<1> DEFINE D == Cardinality(Holding(i, Dispatching))
           E == Cardinality(Holding(i, Dispatching)')
           A == Cardinality(Holding(i, Asking))
           B == Cardinality(Holding(i, Asking)')
           s == Share(k, i, Dispatching)
           t == Share(k, i, Dispatching)'
           u == Share(k, i, Asking)
           v == Share(k, i, Asking)'
           f == Free(i)
           g == Free(i)'
<1>1. IsFiniteSet(Holding(i, Dispatching)') /\ D \in Nat /\ E \in Nat /\ E + s = D + t
  BY HoldingMoves DEF CountInv
<1>2. A \in Nat /\ B \in Nat /\ B + u = A + v
  BY AskingFinite, HoldingMoves DEF CountInv
<1>3. s \in Nat /\ t \in Nat /\ u \in Nat /\ v \in Nat /\ f \in Nat /\ g \in Nat
  BY DEF Share, Free
<1>4. /\ paid[i] \in Nat /\ late[i] \in Nat /\ retries[i] \in Nat
      /\ paid'[i] \in Nat /\ late'[i] \in Nat /\ retries'[i] \in Nat
      /\ adminRetries[i] \in Nat
  BY DEF TypeOK
<1>5. /\ D + f <= 1 + adminRetries[i]
      /\ adminRetries[i] = 0 => paid[i] + late[i] + A + f <= 1 + retries[i]
  BY DEF CountInv
<1>6. /\ t + g <= s + f
      /\ paid'[i] + late'[i] + v + g + retries[i] <= paid[i] + late[i] + u + f + retries'[i]
  OBVIOUS
<1> HIDE DEF D, E, A, B, s, t, u, v, f, g
<1>7. E + g <= 1 + adminRetries[i]
  BY <1>1, <1>3, <1>4, <1>5, <1>6
<1>8. adminRetries[i] = 0 => paid'[i] + late'[i] + B + g <= 1 + retries'[i]
  BY <1>2, <1>3, <1>4, <1>5, <1>6
<1> QED BY <1>1, <1>7, <1>8 DEF E, B, g

\* The shares of a worker after he went on with his row, or left it.
LEMMA GoesShare ==
    ASSUME TypeOK, NEW k \in Workers, NEW place, Goes(k, place)
    PROVE  /\ \A w \in Workers \ {k} : at'[w] = at[w] /\ hand'[w] = hand[w]
           /\ at'[k] = place /\ hand'[k] = hand[k]
BY DEF Goes, TypeOK

LEMMA LeavesShare ==
    ASSUME TypeOK, NEW k \in Workers, NEW j \in Ids, Leaves(k, j)
    PROVE  /\ \A w \in Workers \ {k} : at'[w] = at[w] /\ hand'[w] = hand[w]
           /\ \A i \in Ids, P \in {Dispatching, Asking} : Share(k, i, P)' = 0
<1>1. /\ hand' = [hand EXCEPT ![k] = NoRow]
      /\ at' = [at EXCEPT ![k] = IF batch[k] \subseteq {j} THEN "idle" ELSE "loop"]
  BY DEF Leaves
<1>2. hand'[k] = NoRow /\ \A w \in Workers \ {k} : at'[w] = at[w] /\ hand'[w] = hand[w]
  BY <1>1 DEF TypeOK
<1> QED BY <1>2, WithdrawalAssumption DEF Share

\* A step that sends nothing, gives no claim back and does not bring the worker
\* back into the dispatch.
LEMMA CountQuiet ==
    ASSUME TypeOK, TypeOK', CountInv, NEW k \in Workers,
           \A w \in Workers \ {k} : at'[w] = at[w] /\ hand'[w] = hand[w],
           UNCHANGED <<paid, late, retries, adminRetries>>,
           \A i \in Ids : claimed[i] => claimed'[i],
           \A i \in Ids, P \in {Dispatching, Asking} : Share(k, i, P)' <= Share(k, i, P)
    PROVE  CountInv'
<1>1. ASSUME NEW i \in Ids
      PROVE  /\ Share(k, i, Dispatching)' + Free(i)' <= Share(k, i, Dispatching) + Free(i)
             /\ paid'[i] + late'[i] + Share(k, i, Asking)' + Free(i)' + retries[i]
                  <= paid[i] + late[i] + Share(k, i, Asking) + Free(i) + retries'[i]
  <2> DEFINE s == Share(k, i, Dispatching)
             t == Share(k, i, Dispatching)'
             u == Share(k, i, Asking)
             v == Share(k, i, Asking)'
             f == Free(i)
             g == Free(i)'
  <2>1. t <= s /\ v <= u
    OBVIOUS
  <2>2. s \in Nat /\ t \in Nat /\ u \in Nat /\ v \in Nat
    BY DEF Share
  <2>3. f \in Nat /\ g \in Nat /\ g <= f
    BY DEF Free
  <2>4. paid[i] \in Nat /\ late[i] \in Nat /\ retries[i] \in Nat
    BY DEF TypeOK
  <2> HIDE DEF s, t, u, v, f, g
  <2>5. t + g <= s + f
    BY <2>1, <2>2, <2>3
  <2>6. paid[i] + late[i] + v + g + retries[i] <= paid[i] + late[i] + u + f + retries[i]
    BY <2>1, <2>2, <2>3, <2>4
  <2> QED BY <2>5, <2>6 DEF s, t, u, v, f, g
<1> QED BY <1>1, CountFrame

\* A payout of the provider is one more, or none.
LEMMA PaysOnce ==
    ASSUME TypeOK, NEW j \in Ids, Pays(j)
    PROVE  \A i \in Ids : paid'[i] <= paid[i] + (IF i = j THEN 1 ELSE 0)
<1>1. paid' = [paid EXCEPT ![j] = IF OncePerReference THEN 1 ELSE paid[j] + 1]
  BY DEF Pays
<1>2. \A i \in Ids : paid[i] \in Nat
  BY DEF TypeOK
<1>3. paid'[j] \in {1, paid[j] + 1} /\ \A i \in Ids \ {j} : paid'[i] = paid[i]
  BY <1>1 DEF TypeOK
<1> QED BY <1>2, <1>3

LEMMA CountStep ==
    ASSUME TypeOK, TypeOK', CountInv, [Next]_vars
    PROVE  CountInv'
<1>1. ASSUME UNCHANGED <<at, hand>>,
             \A i \in Ids :
                /\ adminRetries[i] <= adminRetries'[i]
                /\ Free(i)' + adminRetries[i] <= Free(i) + adminRetries'[i]
                /\ adminRetries'[i] = 0 =>
                      paid'[i] + late'[i] + Free(i)' + retries[i]
                        <= paid[i] + late[i] + Free(i) + retries'[i]
      PROVE  CountInv'
  <2> SUFFICES ASSUME NEW i \in Ids
               PROVE  /\ IsFiniteSet(Holding(i, Dispatching))
                      /\ Cardinality(Holding(i, Dispatching)) + Free(i)'
                           <= 1 + adminRetries'[i]
                      /\ adminRetries'[i] = 0 =>
                            paid'[i] + late'[i] + Cardinality(Holding(i, Asking)) + Free(i)'
                              <= 1 + retries'[i]
    BY <1>1 DEF CountInv, Holding
  <2> DEFINE D == Cardinality(Holding(i, Dispatching))
             A == Cardinality(Holding(i, Asking))
             f == Free(i)
             g == Free(i)'
  <2>1. IsFiniteSet(Holding(i, Dispatching)) /\ D \in Nat /\ A \in Nat
    BY AskingFinite, FS_CardinalityType DEF CountInv
  <2>2. /\ paid[i] \in Nat /\ late[i] \in Nat /\ retries[i] \in Nat
        /\ paid'[i] \in Nat /\ late'[i] \in Nat /\ retries'[i] \in Nat
        /\ adminRetries[i] \in Nat /\ adminRetries'[i] \in Nat
        /\ f \in Nat /\ g \in Nat
    BY DEF TypeOK, Free
  <2>3. /\ D + f <= 1 + adminRetries[i]
        /\ adminRetries[i] = 0 => paid[i] + late[i] + A + f <= 1 + retries[i]
    BY DEF CountInv
  <2>4. /\ adminRetries[i] <= adminRetries'[i]
        /\ g + adminRetries[i] <= f + adminRetries'[i]
        /\ adminRetries'[i] = 0 => paid'[i] + late'[i] + g + retries[i]
                                     <= paid[i] + late[i] + f + retries'[i]
    BY <1>1
  <2> HIDE DEF D, A, f, g
  <2>5. D + g <= 1 + adminRetries'[i]
    BY <2>1, <2>2, <2>3, <2>4
  <2>6. adminRetries'[i] = 0 => paid'[i] + late'[i] + A + g <= 1 + retries'[i]
    <3> SUFFICES ASSUME adminRetries'[i] = 0
                 PROVE  paid'[i] + late'[i] + A + g <= 1 + retries'[i]
      OBVIOUS
    <3>1. adminRetries[i] = 0
      BY <2>2, <2>4
    <3> QED BY <2>1, <2>2, <2>3, <2>4, <3>1
  <2> QED BY <2>1, <2>5, <2>6 DEF D, A, g
<1>2. CASE \/ UNCHANGED vars \/ NewDay
           \/ \E i \in Ids : \/ \E a \in Amounts : Withdraw(i, a)
                             \/ ComesDue(i) \/ AdminRefund(i)
  <2>1. UNCHANGED <<at, hand, paid, late, claimed, retries, adminRetries>>
    BY <1>2 DEF vars, NewDay, Withdraw, ComesDue, AdminRefund, row, provider, worker,
                history
  <2>2. \A i \in Ids : Free(i)' = Free(i) /\ Free(i) \in Nat
    BY <2>1 DEF Free
  <2> QED BY <1>1, <2>1, <2>2 DEF TypeOK
<1>3. ASSUME NEW j \in Ids, AcceptLate(j) PROVE CountInv'
  <2>1. /\ UNCHANGED <<at, hand, claimed, retries, adminRetries>>
        /\ late[j] > 0 /\ late' = [late EXCEPT ![j] = late[j] - 1] /\ Pays(j)
    BY <1>3 DEF AcceptLate, row, worker, history
  <2>2. \A i \in Ids : Free(i)' = Free(i) /\ Free(i) \in Nat
    BY <2>1 DEF Free
  <2>3. ASSUME NEW i \in Ids PROVE paid'[i] + late'[i] <= paid[i] + late[i]
    BY <2>1, PaysOnce DEF TypeOK
  <2>4. ASSUME NEW i \in Ids
        PROVE  paid'[i] + late'[i] + Free(i)' + retries[i]
                 <= paid[i] + late[i] + Free(i) + retries'[i]
    BY <2>1, <2>2, <2>3 DEF TypeOK
  <2> QED BY <1>1, <2>1, <2>2, <2>4 DEF TypeOK
<1>4. ASSUME NEW j \in Ids, AdminRetry(j) PROVE CountInv'
  <2>1. /\ UNCHANGED <<at, hand, paid, late>>
        /\ adminRetries' = [adminRetries EXCEPT ![j] = adminRetries[j] + 1]
        /\ claimed' = [claimed EXCEPT ![j] = FALSE]
        /\ retries' = [retries EXCEPT ![j] = 0]
    BY <1>4 DEF AdminRetry, provider, worker
  <2>2. \A i \in Ids : Free(i) \in {0, 1} /\ Free(i)' \in {0, 1}
    BY DEF Free
  <2>3. \A i \in Ids \ {j} : claimed'[i] = claimed[i]
    BY <2>1 DEF TypeOK
  <2>4. \A i \in Ids \ {j} : Free(i)' = Free(i)
    BY <2>3 DEF Free
  <2>5. /\ adminRetries'[j] = adminRetries[j] + 1 /\ adminRetries[j] \in Nat
        /\ \A i \in Ids \ {j} : adminRetries'[i] = adminRetries[i] /\ retries'[i] = retries[i]
    BY <2>1 DEF TypeOK
  <2>6. ASSUME NEW i \in Ids
        PROVE  /\ adminRetries[i] <= adminRetries'[i]
               /\ Free(i)' + adminRetries[i] <= Free(i) + adminRetries'[i]
               /\ adminRetries'[i] = 0 =>
                     paid'[i] + late'[i] + Free(i)' + retries[i]
                       <= paid[i] + late[i] + Free(i) + retries'[i]
    <3>1. CASE i = j
      BY <2>2, <2>5, <3>1
    <3>2. CASE i # j
      <4>1. /\ paid'[i] = paid[i] /\ late'[i] = late[i] /\ retries'[i] = retries[i]
            /\ Free(i)' = Free(i) /\ adminRetries'[i] = adminRetries[i]
        BY <2>1, <2>4, <2>5, <3>2
      <4>2. /\ paid[i] \in Nat /\ late[i] \in Nat /\ retries[i] \in Nat
            /\ adminRetries[i] \in Nat
        BY DEF TypeOK
      <4> QED BY <2>2, <4>1, <4>2
    <3> QED BY <3>1, <3>2
  <2> QED BY <1>1, <2>1, <2>6
<1>5. ASSUME NEW k \in Workers, NEW place,
             Goes(k, place), UNCHANGED <<paid, late, retries, adminRetries, claimed>>,
             place \in Dispatching => at[k] \in Dispatching,
             place \in Asking => at[k] \in Asking
      PROVE  CountInv'
  <2>1. \A i \in Ids, P \in {Dispatching, Asking} : Share(k, i, P)' <= Share(k, i, P)
    BY <1>5, GoesShare DEF Share
  <2> QED BY <1>5, <2>1, GoesShare, CountQuiet
<1>6. ASSUME NEW k \in Workers, NEW j \in Ids, Leaves(k, j),
             UNCHANGED <<paid, late, retries, adminRetries>>,
             \A i \in Ids : claimed[i] => claimed'[i]
      PROVE  CountInv'
  <2>1. \A i \in Ids, P \in {Dispatching, Asking} : Share(k, i, P)' <= Share(k, i, P)
    BY <1>6, LeavesShare DEF Share
  <2> QED BY <1>6, <2>1, LeavesShare, CountQuiet
<1>7. ASSUME NEW k \in Workers, Begin(k) PROVE CountInv'
  <2>1. /\ at' = [at EXCEPT ![k] = "loop"] /\ at[k] = "idle"
        /\ UNCHANGED <<hand, paid, late, retries, adminRetries, claimed>>
    BY <1>7 DEF Begin, row, provider, history
  <2>2. \A i \in Ids, P \in {Dispatching, Asking} : Share(k, i, P)' = 0
    BY <2>1 DEF Share, Dispatching, Asking, TypeOK
  <2>3. \A i \in Ids, P \in {Dispatching, Asking} : Share(k, i, P)' <= Share(k, i, P)
    BY <2>2 DEF Share
  <2>4. \A w \in Workers \ {k} : at'[w] = at[w] /\ hand'[w] = hand[w]
    BY <2>1 DEF TypeOK
  <2> QED BY <2>1, <2>3, <2>4, CountQuiet
<1>8. ASSUME NEW k \in Workers, NEW j \in Ids, Resume(k, j) PROVE CountInv'
  <2>1. /\ at' = [at EXCEPT ![k] = IF seen[k][j].ref THEN "settle" ELSE "recover"]
        /\ hand' = [hand EXCEPT ![k] = j]
        /\ UNCHANGED <<paid, late, retries, adminRetries, claimed>>
    BY <1>8 DEF Resume, row, provider, history
  <2>2. at'[k] \in {"settle", "recover"}
    BY <2>1 DEF TypeOK
  <2>3. \A i \in Ids, P \in {Dispatching, Asking} : Share(k, i, P)' <= Share(k, i, P)
    BY <2>2 DEF Share, Dispatching, Asking
  <2>4. \A w \in Workers \ {k} : at'[w] = at[w] /\ hand'[w] = hand[w]
    BY <2>1 DEF TypeOK
  <2> QED BY <2>1, <2>3, <2>4, CountQuiet
<1>9. ASSUME NEW k \in Workers, NEW j \in Ids, Claim(k, j) PROVE CountInv'
  <2>1. UNCHANGED <<paid, late, retries, adminRetries>>
    BY <1>9 DEF Claim, provider
  <2>2. CASE Leaves(k, j)
    <3>1. \A i \in Ids : claimed[i] => claimed'[i]
      BY <1>9 DEF Claim, TypeOK
    <3> QED BY <1>6, <2>1, <2>2, <3>1
  <2>3. CASE ~Leaves(k, j)
    <3>1. /\ ~claimed[j] /\ claimed' = [claimed EXCEPT ![j] = TRUE]
          /\ at' = [at EXCEPT ![k] = "claimed"] /\ hand' = [hand EXCEPT ![k] = j]
          /\ at[k] = "loop"
      BY <1>9, <2>3 DEF Claim, MayClaim
    <3>2. /\ at'[k] = "claimed" /\ hand'[k] = j
          /\ \A w \in Workers \ {k} : at'[w] = at[w] /\ hand'[w] = hand[w]
      BY <3>1 DEF TypeOK
    <3>3. /\ Free(j) = 1 /\ Free(j)' = 0
          /\ \A i \in Ids \ {j} : Free(i)' = Free(i) /\ Free(i) \in Nat
      BY <3>1 DEF Free, TypeOK
    <3>4. \A i \in Ids, P \in {Dispatching, Asking} :
             Share(k, i, P)' = (IF i = j THEN 1 ELSE 0) /\ Share(k, i, P) = 0
      BY <3>1, <3>2 DEF Share, Dispatching, Asking
    <3>5. ASSUME NEW i \in Ids
          PROVE  /\ Share(k, i, Dispatching)' + Free(i)'
                      <= Share(k, i, Dispatching) + Free(i)
                 /\ paid'[i] + late'[i] + Share(k, i, Asking)' + Free(i)' + retries[i]
                      <= paid[i] + late[i] + Share(k, i, Asking) + Free(i) + retries'[i]
      <4>1. paid[i] \in Nat /\ late[i] \in Nat /\ retries[i] \in Nat
        BY DEF TypeOK
      <4>2. CASE i = j
        BY <2>1, <3>3, <3>4, <4>1, <4>2
      <4>3. CASE i # j
        BY <2>1, <3>3, <3>4, <4>1, <4>3
      <4> QED BY <4>2, <4>3
    <3> QED BY <2>1, <3>2, <3>5, CountFrame
  <2> QED BY <2>2, <2>3
<1>10. ASSUME NEW k \in Workers,
              Dispatch(k) \/ Decline(k) \/ Answer(k) \/ Record(k)
       PROVE  CountInv'
  <2>1. UNCHANGED <<paid, late, retries, adminRetries, claimed>>
    BY <1>10 DEF Dispatch, Decline, Answer, Record, row, provider, history
  <2>2. \/ at[k] \in Asking /\ (Goes(k, "sent") \/ Goes(k, "refused"))
        \/ Goes(k, "record") \/ Goes(k, "settle")
    BY <1>10 DEF Dispatch, Decline, Answer, Record, Asking
  <2> QED BY <1>5, <2>1, <2>2 DEF Asking, Dispatching
<1>11. ASSUME NEW k \in Workers,
              Refuse(k) \/ Recover(k) \/ Settle(k) \/ RecordFailure(k)
       PROVE  CountInv'
  <2>1. UNCHANGED <<paid, late, retries, adminRetries, claimed>>
    BY <1>11 DEF Refuse, Recover, Settle, RecordFailure, row, provider, history
  <2>2. hand[k] \in Ids
    BY <1>11, InHand DEF Refuse, Recover, Settle, RecordFailure
  <2>3. Leaves(k, hand[k]) \/ Goes(k, "record") \/ Goes(k, "unsettled")
    BY <1>11 DEF Refuse, Recover, Settle, RecordFailure
  <2> QED BY <1>5, <1>6, <2>1, <2>2, <2>3 DEF Asking, Dispatching
<1>12. ASSUME NEW k \in Workers, Accept(k) PROVE CountInv'
  <2>1. /\ UNCHANGED <<late, retries, adminRetries, claimed>>
        /\ at[k] = "sent" /\ Pays(hand[k]) /\ Goes(k, "taken")
    BY <1>12 DEF Accept, row, history
  <2>2. hand[k] \in Ids
    BY <2>1, InHand
  <2>3. /\ at'[k] = "taken" /\ hand'[k] = hand[k]
        /\ \A w \in Workers \ {k} : at'[w] = at[w] /\ hand'[w] = hand[w]
    BY <2>1, GoesShare
  <2>4. ASSUME NEW i \in Ids
        PROVE  /\ Share(k, i, Dispatching)' = Share(k, i, Dispatching)
               /\ Share(k, i, Dispatching) \in Nat
               /\ Share(k, i, Asking) = (IF i = hand[k] THEN 1 ELSE 0)
               /\ Share(k, i, Asking)' = 0
               /\ Free(i)' = Free(i) /\ Free(i) \in Nat
    BY <2>1, <2>3 DEF Share, Dispatching, Asking, Free
  <2>5. ASSUME NEW i \in Ids
        PROVE  /\ Share(k, i, Dispatching)' + Free(i)' <= Share(k, i, Dispatching) + Free(i)
               /\ paid'[i] + late'[i] + Share(k, i, Asking)' + Free(i)' + retries[i]
                    <= paid[i] + late[i] + Share(k, i, Asking) + Free(i) + retries'[i]
    <3>1. /\ paid[i] \in Nat /\ paid'[i] \in Nat /\ late[i] \in Nat /\ retries[i] \in Nat
          /\ Share(k, i, Asking) \in Nat
      BY DEF TypeOK, Share
    <3>2. paid'[i] <= paid[i] + Share(k, i, Asking)
      BY <2>1, <2>2, <2>4, <3>1, PaysOnce
    <3> QED BY <2>1, <2>4, <3>1, <3>2
  <2> QED BY <2>1, <2>3, <2>5, CountFrame
<1>13. ASSUME NEW k \in Workers, Unsure(k) \/ Crash(k) PROVE CountInv'
  <2>1. /\ UNCHANGED <<retries, adminRetries, claimed>>
        /\ Abandoned(k) /\ at[k] # "idle"
    BY <1>13 DEF Unsure, Crash, row, history
  <2>2. /\ \A w \in Workers \ {k} : at'[w] = at[w] /\ hand'[w] = hand[w]
        /\ \A i \in Ids : /\ Share(k, i, Dispatching)' <= Share(k, i, Dispatching)
                          /\ Share(k, i, Asking)' = 0
    <3>1. CASE Unsure(k)
      <4>1. Goes(k, "unsure") /\ at[k] \in {"sent", "taken"}
        BY <3>1 DEF Unsure
      <4> QED BY <4>1, GoesShare DEF Share, Dispatching, Asking
    <3>2. CASE Crash(k)
      <4>1. at' = [at EXCEPT ![k] = "idle"] /\ hand' = [hand EXCEPT ![k] = NoRow]
        BY <3>2 DEF Crash
      <4>2. /\ at'[k] = "idle"
            /\ \A w \in Workers \ {k} : at'[w] = at[w] /\ hand'[w] = hand[w]
        BY <4>1 DEF TypeOK
      <4> QED BY <4>2 DEF Share, Dispatching, Asking
    <3> QED BY <1>13, <3>1, <3>2
  <2>3. /\ paid' = paid
        /\ \A i \in Ids : late'[i] <= late[i] + Share(k, i, Asking)
    <3>1. CASE UNCHANGED late
      BY <2>1, <3>1 DEF Abandoned, Share, TypeOK
    <3>2. CASE at[k] = "sent" /\ late' = [late EXCEPT ![hand[k]] = late[hand[k]] + 1]
      <4>1. hand[k] \in Ids
        BY <3>2, InHand
      <4>2. /\ late'[hand[k]] = late[hand[k]] + 1
            /\ \A i \in Ids \ {hand[k]} : late'[i] = late[i]
        BY <3>2, <4>1 DEF TypeOK
      <4>3. Share(k, hand[k], Asking) = 1
        BY <3>2 DEF Share, Asking
      <4> QED BY <2>1, <4>1, <4>2, <4>3 DEF Abandoned, Share, TypeOK
    <3> QED BY <2>1, <3>1, <3>2 DEF Abandoned
  <2>4. ASSUME NEW i \in Ids
        PROVE  /\ Share(k, i, Dispatching)' + Free(i)' <= Share(k, i, Dispatching) + Free(i)
               /\ paid'[i] + late'[i] + Share(k, i, Asking)' + Free(i)' + retries[i]
                    <= paid[i] + late[i] + Share(k, i, Asking) + Free(i) + retries'[i]
    <3>1. /\ paid[i] \in Nat /\ late[i] \in Nat /\ late'[i] \in Nat /\ retries[i] \in Nat
          /\ Share(k, i, Asking) \in Nat /\ Share(k, i, Dispatching) \in Nat
          /\ Share(k, i, Dispatching)' \in Nat
          /\ Free(i)' = Free(i) /\ Free(i) \in Nat
      BY <2>1 DEF TypeOK, Share, Free
    <3> QED BY <2>1, <2>2, <2>3, <3>1
  <2> QED BY <2>1, <2>2, <2>4, CountFrame
<1>14. ASSUME NEW k \in Workers, PutOff(k) PROVE CountInv'
  <2>1. /\ UNCHANGED <<paid, late, adminRetries>> /\ at[k] = "unsure"
        /\ Leaves(k, hand[k])
        /\ \/ UNCHANGED <<claimed, retries>>
           \/ /\ retries' = [retries EXCEPT ![hand[k]] = retries[hand[k]] + 1]
              /\ claimed' = [claimed EXCEPT ![hand[k]] = FALSE]
    BY <1>14 DEF PutOff, provider
  <2>2. hand[k] \in Ids
    BY <2>1, InHand
  <2>3. CASE UNCHANGED <<claimed, retries>>
    BY <1>6, <2>1, <2>2, <2>3
  <2>4. CASE /\ retries' = [retries EXCEPT ![hand[k]] = retries[hand[k]] + 1]
             /\ claimed' = [claimed EXCEPT ![hand[k]] = FALSE]
    <3>1. /\ \A w \in Workers \ {k} : at'[w] = at[w] /\ hand'[w] = hand[w]
          /\ \A i \in Ids : Share(k, i, Dispatching)' = 0 /\ Share(k, i, Asking)' = 0
      BY <2>1, <2>2, LeavesShare
    <3>2. Share(k, hand[k], Dispatching) = 1
      BY <2>1 DEF Share, Dispatching
    <3>3. \A i \in Ids : /\ Share(k, i, Dispatching) \in Nat /\ Share(k, i, Asking) \in Nat
                         /\ Free(i) \in {0, 1} /\ Free(i)' \in {0, 1}
      BY DEF Share, Free
    <3>4. /\ retries'[hand[k]] = retries[hand[k]] + 1
          /\ \A i \in Ids \ {hand[k]} : retries'[i] = retries[i] /\ claimed'[i] = claimed[i]
      BY <2>2, <2>4 DEF TypeOK
    <3>5. \A i \in Ids \ {hand[k]} : Free(i)' = Free(i)
      BY <3>4 DEF Free
    <3>6. ASSUME NEW i \in Ids
          PROVE  /\ Share(k, i, Dispatching)' + Free(i)'
                      <= Share(k, i, Dispatching) + Free(i)
                 /\ paid'[i] + late'[i] + Share(k, i, Asking)' + Free(i)' + retries[i]
                      <= paid[i] + late[i] + Share(k, i, Asking) + Free(i) + retries'[i]
      <4>1. paid[i] \in Nat /\ late[i] \in Nat /\ retries[i] \in Nat
        BY DEF TypeOK
      <4>2. CASE i = hand[k]
        BY <2>1, <3>1, <3>2, <3>3, <3>4, <4>1, <4>2
      <4>3. CASE i # hand[k]
        BY <2>1, <3>1, <3>3, <3>4, <3>5, <4>1, <4>3
      <4> QED BY <4>2, <4>3
    <3> QED BY <2>1, <3>1, <3>6, CountFrame
  <2> QED BY <2>1, <2>3, <2>4
<1> QED BY <1>2, <1>3, <1>4, <1>7, <1>8, <1>9, <1>10, <1>11, <1>12, <1>13, <1>14
        DEF Next, Work

LEMMA CountInvariance == Spec => []CountInv
<1>1. Init => CountInv
  <2> SUFFICES ASSUME Init, NEW i \in Ids
               PROVE  /\ IsFiniteSet(Holding(i, Dispatching))
                      /\ Cardinality(Holding(i, Dispatching)) + Free(i)
                           <= 1 + adminRetries[i]
                      /\ paid[i] + late[i] + Cardinality(Holding(i, Asking)) + Free(i)
                           <= 1 + retries[i]
    BY DEF CountInv
  <2>1. Holding(i, Dispatching) = {} /\ Holding(i, Asking) = {}
    BY DEF Init, Holding, Dispatching, Asking
  <2>2. /\ Free(i) = 1 /\ adminRetries[i] = 0 /\ paid[i] = 0 /\ late[i] = 0
        /\ retries[i] = 0
    BY DEF Init, Free
  <2> QED BY <2>1, <2>2, FS_EmptySet
<1> QED BY <1>1, CountStep, WithdrawalTypes, PTL DEF Spec

\* However old the SELECT it started from, a worker dispatches a withdrawal
\* alone, unless an admin's retry took the claim from its holder
\* (claimWithdrawal, schedule_withdrawal_retry).
THEOREM DispatchedAlone == Spec => []OneDispatcher
<1>1. TypeOK /\ CountInv => OneDispatcher
  <2> SUFFICES ASSUME TypeOK, CountInv, NEW i \in Ids
               PROVE  Cardinality(Dispatchers(i)) <= 1 + adminRetries[i]
    BY DEF OneDispatcher
  <2>1. Dispatchers(i) = Holding(i, Dispatching)
    BY DEF Dispatchers, Holding, Dispatching
  <2>2. Cardinality(Dispatchers(i)) \in Nat
    BY <2>1, FS_CardinalityType DEF CountInv
  <2>3. Cardinality(Dispatchers(i)) + Free(i) <= 1 + adminRetries[i]
    BY <2>1 DEF CountInv
  <2>4. adminRetries[i] \in Nat /\ Free(i) \in Nat
    BY DEF TypeOK, Free
  <2> QED BY <2>2, <2>3, <2>4
<1> QED BY <1>1, CountInvariance, WithdrawalTypes, PTL

\* Crashes, stale SELECTs, lost answers and recoveries send no request of their
\* own: each one after the first is a retry the row has counted
\* (dispatchPayout, schedule_withdrawal_retry).
THEOREM RequestsCounted == Spec => []RequestsAreCounted
<1>1. TypeOK /\ CountInv => RequestsAreCounted
  <2> SUFFICES ASSUME TypeOK, CountInv, NEW i \in Ids, adminRetries[i] = 0
               PROVE  Requests(i) <= 1 + retries[i]
    BY DEF RequestsAreCounted
  <2> DEFINE sent == {k \in Workers : hand[k] = i /\ at[k] = "sent"}
             A == Cardinality(Holding(i, Asking))
             n == Cardinality(sent)
  <2>1. sent \in SUBSET Holding(i, Asking) /\ IsFiniteSet(Holding(i, Asking))
    BY AskingFinite DEF Holding, Asking, CountInv
  <2>2. n \in Nat /\ A \in Nat /\ n <= A
    BY <2>1, FS_Subset, FS_CardinalityType
  <2>3. paid[i] + late[i] + A + Free(i) <= 1 + retries[i]
    BY DEF CountInv
  <2>4. /\ paid[i] \in Nat /\ late[i] \in Nat /\ retries[i] \in Nat /\ Free(i) \in Nat
        /\ Requests(i) = paid[i] + late[i] + n
    BY DEF TypeOK, Free, Requests
  <2> HIDE DEF sent, A, n
  <2> QED BY <2>2, <2>3, <2>4
<1> QED BY <1>1, CountInvariance, WithdrawalTypes, PTL

-----------------------------------------------------------------------------
(* The driver's book                                                       *)

\* Whatever a worker has in its batch or in hand, and whatever is still on the
\* wire, was asked for.
AskedInv ==
    /\ \A i \in Ids : late[i] > 0 => status[i] # "none"
    /\ \A k \in Workers : hand[k] # NoRow => status[hand[k]] # "none"
    /\ \A k \in Workers : \A i \in batch[k] : status[i] # "none"

\* What was asked for stays so.
LEMMA AskedStays ==
    ASSUME TypeOK, [Next]_vars, NEW i \in Ids, status[i] # "none"
    PROVE  status'[i] # "none"
<1>1. ASSUME NEW j \in Ids, NEW a \in Amounts, Withdraw(j, a) PROVE status'[i] # "none"
  BY <1>1 DEF Withdraw, TypeOK
<1>2. CASE NewDay
  BY <1>2 DEF NewDay
<1>3. ASSUME NEW j \in Ids, NEW s \in Statuses \ {"none"}, status' = [status EXCEPT ![j] = s]
      PROVE  status'[i] # "none"
  BY <1>3 DEF TypeOK
<1> QED BY <1>1, <1>2, <1>3, StatusSteps

LEMMA AskedStep ==
    ASSUME TypeOK, TypeOK', AskedInv, [Next]_vars
    PROVE  AskedInv'
<1>1. \A i \in Ids : status[i] # "none" => status'[i] # "none"
  BY AskedStays
<1>2. \A k \in Workers : hand[k] # NoRow => hand[k] \in Ids
  BY DEF TypeOK
<1>3. \A i \in Ids : late'[i] > 0 => late[i] > 0 \/ status[i] # "none"
  <2>1. ASSUME NEW k \in Workers, Abandoned(k)
        PROVE  \A i \in Ids : late'[i] > 0 => late[i] > 0 \/ status[i] # "none"
    <3>1. CASE UNCHANGED late
      BY <3>1
    <3>2. CASE at[k] = "sent" /\ late' = [late EXCEPT ![hand[k]] = late[hand[k]] + 1]
      <4>1. hand[k] \in Ids /\ status[hand[k]] # "none"
        BY <3>2, InHand DEF AskedInv
      <4> QED BY <3>2, <4>1 DEF TypeOK
    <3> QED BY <2>1, <3>1, <3>2 DEF Abandoned
  <2>2. ASSUME NEW i \in Ids, AcceptLate(i)
        PROVE  \A j \in Ids : late'[j] > 0 => late[j] > 0 \/ status[j] # "none"
    BY <2>2 DEF AcceptLate, TypeOK
  <2>3. ASSUME NEW k \in Workers, Unsure(k) \/ Crash(k) PROVE Abandoned(k)
    BY <2>3 DEF Unsure, Crash
  <2>4. CASE UNCHANGED late
    BY <2>4
  <2>5. \/ UNCHANGED late \/ (\E k \in Workers : Unsure(k) \/ Crash(k))
        \/ \E i \in Ids : AcceptLate(i)
    BY DEF Next, Work, Withdraw, ComesDue, AdminRetry, AdminRefund, NewDay, Begin, Dispatch,
       Answer, PutOff, Refuse, Recover, Record, Settle, RecordFailure, Claim, Resume, Accept,
       Decline, provider, vars
  <2> QED BY <2>1, <2>2, <2>3, <2>4, <2>5
<1>4. \A k \in Workers : /\ hand'[k] # NoRow => status'[hand'[k]] # "none"
                         /\ \A i \in batch'[k] : status'[i] # "none"
  <2> DEFINE Asked(k) == /\ hand'[k] \in {hand[k], NoRow} \/ hand'[k] \in batch[k]
                         /\ \A i \in batch'[k] : i \in batch[k] \/ status[i] # "none"
  <2>1. CASE \A k \in Workers : Asked(k)
    <3>1. \A k \in Workers : batch[k] \subseteq Ids /\ batch'[k] \subseteq Ids
      BY DEF TypeOK
    <3> QED BY <1>1, <1>2, <2>1, <3>1 DEF AskedInv
  <2>2. CASE UNCHANGED <<hand, batch>>
    BY <2>1, <2>2
  <2>3. ASSUME NEW k \in Workers, NEW i, Leaves(k, i) PROVE \A w \in Workers : Asked(w)
    BY <2>3 DEF Leaves, TypeOK
  <2>4. ASSUME NEW k \in Workers, NEW i \in batch[k], UNCHANGED batch,
               hand' = [hand EXCEPT ![k] = i]
        PROVE  \A w \in Workers : Asked(w)
    BY <2>4 DEF TypeOK
  <2>5. ASSUME NEW k \in Workers, Begin(k) PROVE \A w \in Workers : Asked(w)
    <3>1. \A i \in Ids : Selected(i) => status[i] # "none"
      BY DEF Selected, Pending
    <3> QED BY <2>5, <3>1 DEF Begin, TypeOK
  <2>6. ASSUME NEW k \in Workers, Crash(k) PROVE \A w \in Workers : Asked(w)
    BY <2>6 DEF Crash, TypeOK
  <2> HIDE DEF Asked
  <2>7. ASSUME NEW k \in Workers, NEW i \in Ids, Claim(k, i) \/ Resume(k, i)
        PROVE  \A w \in Workers : Asked(w)
    BY <2>3, <2>4, <2>7 DEF Claim, Resume
  <2>8. ASSUME NEW k \in Workers,
               \/ PutOff(k) \/ Refuse(k) \/ Recover(k) \/ Settle(k) \/ RecordFailure(k)
        PROVE  UNCHANGED <<hand, batch>> \/ \A w \in Workers : Asked(w)
    BY <2>3, <2>8 DEF PutOff, Refuse, Recover, Settle, RecordFailure, Goes
  <2>9. \/ UNCHANGED <<hand, batch>>
        \/ \E k \in Workers : \/ PutOff(k) \/ Refuse(k) \/ Recover(k) \/ Settle(k)
                              \/ RecordFailure(k) \/ Begin(k) \/ Crash(k)
                              \/ \E i \in Ids : Claim(k, i) \/ Resume(k, i)
    BY DEF Next, Work, Withdraw, ComesDue, AcceptLate, AdminRetry, AdminRefund, NewDay,
       Dispatch, Answer, Unsure, Record, Accept, Decline, Goes, worker, vars
  <2> QED BY <2>1, <2>2, <2>5, <2>6, <2>7, <2>8, <2>9
<1> QED BY <1>1, <1>3, <1>4 DEF AskedInv

\* A withdrawal's place in the book changes with its status.
LEMMA StageMoves ==
    ASSUME TypeOK, NEW i \in Ids, NEW s, status' = [status EXCEPT ![i] = s]
    PROVE  [j \in Ids |-> StageOf(status'[j])] =
              [[j \in Ids |-> StageOf(status[j])] EXCEPT ![i] = StageOf(s)]
BY DEF TypeOK

LEMMA BookCloses ==
    ASSUME TypeOK, NEW i \in Ids, NEW s \in {"completed", "failed"}, Closes(i, s),
           paid' = paid, s = "completed" => paid[i] > 0
    PROVE  Book!BNext
<1>1. /\ DriverOf[i] \in Drivers /\ amount[i] \in Nat
      /\ reserved \in [Drivers -> Nat] /\ confirmed \in [Drivers -> Nat]
  BY WithdrawalAssumption DEF TypeOK
<1>2. StageOf(status[i]) = "open"
  BY DEF Closes, Unresolved, StageOf
<1>3. /\ [j \in Ids |-> StageOf(status'[j])] =
            [[j \in Ids |-> StageOf(status[j])] EXCEPT ![i] = StageOf(s)]
      /\ [j \in Ids |-> paid'[j] > 0] = [j \in Ids |-> paid[j] > 0]
  BY StageMoves DEF Closes
<1>4. reserved' = [reserved EXCEPT ![DriverOf[i]] = @ + (-amount[i])] /\ amount' = amount
  BY <1>1 DEF Closes
<1>5. CASE s = "completed"
  <2>1. StageOf(s) = "paid"
    BY <1>5 DEF StageOf
  <2>2. confirmed' = [confirmed EXCEPT ![DriverOf[i]] = @ + 0]
    BY <1>1, <1>5 DEF Closes
  <2>3. Book!PayOut(i)
    BY <1>2, <1>3, <1>4, <1>5, <2>1, <2>2 DEF Book!PayOut, Book!Moves
  <2> QED BY <2>3 DEF Book!BNext
<1>6. CASE s = "failed"
  <2>1. StageOf(s) = "returned"
    BY <1>6 DEF StageOf
  <2>2. confirmed' = [confirmed EXCEPT ![DriverOf[i]] = @ + amount[i]]
    BY <1>1, <1>6 DEF Closes
  <2>3. Book!GiveBack(i)
    BY <1>2, <1>3, <1>4, <2>1, <2>2 DEF Book!GiveBack, Book!Moves
  <2> QED BY <2>3 DEF Book!BNext
<1> QED BY <1>5, <1>6

\* What has no part in the book.
LEMMA BookSame ==
    ASSUME TypeOK, UNCHANGED <<wallet, amount, paid>>,
           \A i \in Ids : StageOf(status'[i]) = StageOf(status[i])
    PROVE  UNCHANGED Book!bvars
BY DEF Book!bvars, wallet

LEMMA BookWires ==
    ASSUME TypeOK, NEW i \in Ids, status[i] # "none", Pays(i),
           UNCHANGED <<wallet, amount, status>>
    PROVE  Book!BNext
<1>1. [j \in Ids |-> paid'[j] > 0] = [[j \in Ids |-> paid[j] > 0] EXCEPT ![i] = TRUE]
  <2>1. paid'[i] > 0 /\ \A j \in Ids \ {i} : paid'[j] = paid[j]
    BY DEF Pays, TypeOK
  <2> QED BY <2>1
<1>2. StageOf(status[i]) # "none"
  BY DEF StageOf
<1>3. Book!Wire(i)
  BY <1>1, <1>2 DEF Book!Wire, wallet
<1> QED BY <1>3 DEF Book!BNext

LEMMA BookAsks ==
    ASSUME TypeOK, NEW i \in Ids, NEW a \in Amounts, Withdraw(i, a)
    PROVE  Book!BNext
<1>1. /\ DriverOf[i] \in Drivers /\ a \in Nat
      /\ reserved \in [Drivers -> Nat] /\ confirmed \in [Drivers -> Nat]
  BY WithdrawalAssumption DEF TypeOK
<1>2. /\ StageOf(status[i]) = "none" /\ StageOf("pending") = "open"
      /\ status' = [status EXCEPT ![i] = "pending"]
  BY DEF Withdraw, StageOf
<1>3. [j \in Ids |-> StageOf(status'[j])] =
         [[j \in Ids |-> StageOf(status[j])] EXCEPT ![i] = "open"]
  BY <1>2, StageMoves
<1>4. /\ confirmed' = [confirmed EXCEPT ![DriverOf[i]] = @ + (-a)]
      /\ reserved' = [reserved EXCEPT ![DriverOf[i]] = @ + a]
      /\ amount' = [amount EXCEPT ![i] = a] /\ a <= confirmed[DriverOf[i]]
      /\ paid' = paid
  BY <1>1 DEF Withdraw, Funded, provider
<1>5. Book!Ask(i, a)
  BY <1>2, <1>3, <1>4 DEF Book!Ask, Book!Moves
<1> QED BY <1>5 DEF Book!BNext

LEMMA BookStep ==
    ASSUME WithdrawalInv, AskedInv, [Next]_vars
    PROVE  Book!BNext \/ UNCHANGED Book!bvars
<1>1. TypeOK /\ ReservedIsOwed /\ RefsArePaid
  BY DEF WithdrawalInv
<1>2. CASE UNCHANGED <<wallet, amount, paid, status>>
  BY <1>1, <1>2, BookSame
<1>3. ASSUME NEW i \in Ids, NEW a \in Amounts, Withdraw(i, a) PROVE Book!BNext
  BY <1>1, <1>3, BookAsks
<1>4. ASSUME NEW i \in Ids, AdminRefund(i) PROVE Book!BNext
  <2>1. paid' = paid
    BY <1>4 DEF AdminRefund, provider
  <2> QED BY <1>1, <1>4, <2>1, RefundCloses, BookCloses
<1>5. ASSUME NEW i \in Ids, AdminRetry(i) PROVE UNCHANGED Book!bvars
  <2>1. UNCHANGED <<wallet, amount, paid>>
    BY <1>5 DEF AdminRetry, provider
  <2>2. \A j \in Ids : StageOf(status'[j]) = StageOf(status[j])
    BY <1>1, <1>5 DEF AdminRetry, Open, StageOf, TypeOK
  <2> QED BY <1>1, <2>1, <2>2, BookSame
<1>6. ASSUME NEW k \in Workers, Refuse(k) PROVE Book!BNext \/ UNCHANGED Book!bvars
  <2>1. hand[k] \in Ids /\ paid' = paid
    BY <1>1, <1>6, InHand DEF Refuse, provider
  <2> QED BY <1>1, <1>2, <1>6, <2>1, RefuseCloses, BookCloses
<1>7. ASSUME NEW k \in Workers, Settle(k) PROVE Book!BNext \/ UNCHANGED Book!bvars
  <2>1. hand[k] \in Ids /\ paid' = paid /\ paid[hand[k]] > 0
    BY <1>1, <1>7, InHand DEF Settle, provider, RefsArePaid, PaidPlaces
  <2> QED BY <1>1, <1>2, <1>7, <2>1, SettleCloses, BookCloses
<1>8. ASSUME NEW k \in Workers, PutOff(k) \/ RecordFailure(k) PROVE UNCHANGED Book!bvars
  <2>1. hand[k] \in Ids /\ UNCHANGED <<wallet, amount, paid>>
    BY <1>1, <1>8, InHand DEF PutOff, RecordFailure, provider
  <2>2. \/ UNCHANGED status
        \/ Pending(hand[k]) /\ \E s \in {"pending", "settlement_failed"} :
                                  status' = [status EXCEPT ![hand[k]] = s]
    BY <1>8 DEF PutOff, RecordFailure
  <2>3. \A j \in Ids : StageOf(status'[j]) = StageOf(status[j])
    BY <1>1, <2>1, <2>2 DEF StageOf, Pending, TypeOK
  <2> QED BY <1>1, <2>1, <2>3, BookSame
<1>9. ASSUME NEW k \in Workers, Accept(k) PROVE Book!BNext
  <2>1. hand[k] \in Ids /\ status[hand[k]] # "none"
    BY <1>1, <1>9, InHand DEF Accept, AskedInv
  <2> QED BY <1>1, <1>9, <2>1, BookWires DEF Accept, row
<1>10. ASSUME NEW i \in Ids, AcceptLate(i) PROVE Book!BNext
  BY <1>1, <1>10, BookWires DEF AcceptLate, AskedInv, row
<1>11. ASSUME NEW k \in Workers,
              \/ Begin(k) \/ Dispatch(k) \/ Answer(k) \/ Unsure(k) \/ Recover(k)
              \/ Record(k) \/ Decline(k) \/ Crash(k)
              \/ \E i \in Ids : Claim(k, i) \/ Resume(k, i)
       PROVE  UNCHANGED <<wallet, amount, paid, status>>
  BY <1>11 DEF Begin, Dispatch, Answer, Unsure, Recover, Record, Decline, Crash, Claim, Resume,
               Abandoned, provider, wallet, row
<1>12. CASE NewDay \/ UNCHANGED vars \/ \E i \in Ids : ComesDue(i)
  BY <1>2, <1>12 DEF NewDay, ComesDue, vars, provider, wallet, row
<1> QED BY <1>2, <1>3, <1>4, <1>5, <1>6, <1>7, <1>8, <1>9, <1>10, <1>11, <1>12
        DEF Next, Work

\* The wallet and the withdrawals move as in the driver's book, for any number of
\* workers, crashes, retries and admins: the RPCs, which lock and look at the row
\* again, close each withdrawal once, and completed ones follow a payout.
THEOREM BookKept == Spec => KeepsBook
<1>1. Init => Book!BInit
  <2> SUFFICES ASSUME Init PROVE Book!BInit
    OBVIOUS
  <2>1. [i \in Ids |-> StageOf(status[i])] = [i \in Ids |-> "none"]
    BY DEF Init, StageOf
  <2>2. [i \in Ids |-> paid[i] > 0] = [i \in Ids |-> FALSE]
    <3>1. \A i \in Ids : (paid[i] > 0) = FALSE
      BY DEF Init
    <3> QED BY <3>1, Zenon
  <2>3. confirmed = Deposits /\ reserved = [d \in Drivers |-> 0] /\ amount = [i \in Ids |-> 0]
    BY DEF Init
  <2> QED BY <2>1, <2>2, <2>3, Zenon DEF Book!BInit
<1>2. Init => AskedInv
  <2> SUFFICES ASSUME Init PROVE AskedInv
    OBVIOUS
  <2> QED BY DEF Init, AskedInv
<1>3. WithdrawalInv /\ AskedInv /\ [Next]_vars => [Book!BNext]_(Book!bvars)
  BY BookStep
<1>4. TypeOK /\ TypeOK' /\ AskedInv /\ [Next]_vars => AskedInv'
  BY AskedStep
<1>5. Spec => []AskedInv
  BY <1>2, <1>4, WithdrawalTypes, PTL DEF Spec
<1> QED BY <1>1, <1>3, <1>5, WithdrawalInvariance, PTL DEF Spec, KeepsBook, Book!BSafety
=============================================================================
