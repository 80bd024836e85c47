------------------------- MODULE DeadLettersProofs -------------------------
(***************************************************************************)
(* The dead-letter queue's safety for any number of events, rows, requests *)
(* and workers.  DeadLetterInv is inductive.                               *)
(***************************************************************************)
EXTENDS DeadLetters, TLAPS

\* What a worker has of its claim.
Held(w) == batch[w] \cup hand[w]

\* Each lease that ran out and each failure has been paid for: only a claim of
\* a pending row goes beyond MaxAttempts, and a failure came before it.
Counted ==
    \A r \in Rows :
        /\ rows[r].status = "none" => rows[r].attempt = 0 /\ rows[r].retry = 0
        /\ Open(r) => rows[r].retry < Backoffs
        /\ rows[r].status = "pending"
           => rows[r].attempt < MaxAttempts + rows[r].retry
        /\ rows[r].status = "processing"
           => rows[r].attempt <= MaxAttempts + rows[r].retry
        /\ rows[r].attempt < MaxAttempts + Backoffs

\* No claim is of a later attempt than its row's, and one of the same attempt
\* has the row's retry count.
TicketsGood ==
    \A w \in Workers : \A t \in Held(w) :
        /\ t.attempt <= rows[t.row].attempt
        /\ rows[t.row].status = "processing" /\ t.attempt = rows[t.row].attempt
           => t.retry = rows[t.row].retry

\* A resolved row's event was applied, and so was one a worker is to resolve.
Honest ==
    /\ \A r \in Rows : rows[r].status = "resolved" => applied[EventOf[r]]
    /\ \A w \in Workers : at[w] = "ok" =>
          \A t \in hand[w] : applied[EventOf[t.row]]

\* An event has one row that is open or resolved, at most.
OneRow == \A r, s \in Rows : EventOf[r] = EventOf[s] /\ r # s =>
             rows[r].status \in {"none", "failed_permanently"}
             \/ rows[s].status \in {"none", "failed_permanently"}

DeadLetterInv == TypeOK /\ Counted /\ TicketsGood /\ Honest /\ OneRow

-----------------------------------------------------------------------------
(* The invariant                                                           *)

LEMMA InitInv == Init => DeadLetterInv
<1> SUFFICES ASSUME Init PROVE DeadLetterInv
  OBVIOUS
<1> USE DeadLetterAssumption
<1>1. TypeOK
  BY DEF Init, TypeOK, Row, Statuses
<1>2. Counted
  BY DEF Init, Counted, Open
<1>3. TicketsGood /\ Honest /\ OneRow
  BY DEF Init, TicketsGood, Honest, OneRow, Held
<1> QED
  BY <1>1, <1>2, <1>3 DEF DeadLetterInv

\* Time changes nothing that the invariant speaks of.
LEMMA ComesDueInv ==
    ASSUME DeadLetterInv, NEW r \in Rows, ComesDue(r)
    PROVE  DeadLetterInv'
<1> USE DeadLetterAssumption DEF ComesDue, DeadLetterInv, worker
<1>1. TypeOK'
  BY DEF TypeOK, Row
<1>2. \A s \in Rows : /\ rows'[s].status = rows[s].status
                      /\ rows'[s].attempt = rows[s].attempt
                      /\ rows'[s].retry = rows[s].retry
  BY DEF TypeOK, Row
<1>3. Counted'
  BY <1>2 DEF Counted, Open
<1>4. TicketsGood'
  BY <1>2 DEF TicketsGood, Held, Tickets, TypeOK
<1>5. Honest' /\ OneRow'
  BY <1>2 DEF Honest, OneRow
<1> QED
  BY <1>1, <1>3, <1>4, <1>5

\* What the handler leaves behind never undoes what was applied.
LEMMA HandledKeeps ==
    ASSUME TypeOK, NEW e \in Events, NEW outcome, Handled(e, outcome)
    PROVE  /\ applied' \in [Events -> BOOLEAN]
           /\ \A x \in Events : applied[x] => applied'[x]
           /\ \A x \in Events \ {e} : applied'[x] = applied[x]
           /\ outcome = "ok" => applied'[e]
  BY DEF Handled, TypeOK

LEMMA PostInv ==
    ASSUME DeadLetterInv, NEW q \in Requests, NEW e \in Events, Post(q, e)
    PROVE  DeadLetterInv'
<1> USE DeadLetterAssumption DEF DeadLetterInv
<1>1. /\ applied' \in [Events -> BOOLEAN]
      /\ \A x \in Events : applied[x] => applied'[x]
  BY HandledKeeps DEF Post
<1>2. UNCHANGED <<rows, worker>>
  BY DEF Post
<1>3. request' \in [Requests -> {{}} \cup {{x} : x \in Events \X Failures}]
  BY DEF Post, TypeOK
<1>4. TypeOK'
  BY <1>1, <1>2, <1>3 DEF TypeOK, worker
<1>5. Counted' /\ OneRow'
  BY <1>2 DEF Counted, OneRow, Open
<1>6. TicketsGood'
  BY <1>2 DEF TicketsGood, Held, worker
<1>7. Honest'
  BY <1>1, <1>2 DEF Honest, worker, TypeOK, Tickets
<1> QED
  BY <1>4, <1>5, <1>6, <1>7

\* An insert keeps the invariant's parts that speak of the rows.
LEMMA InsertedKeeps ==
    ASSUME DeadLetterInv, NEW r \in Rows, NEW failure \in Failures,
           Inserted(r, failure), UNCHANGED <<worker, applied>>
    PROVE  /\ rows' \in [Rows -> Row]
           /\ (Counted /\ TicketsGood /\ Honest /\ OneRow)'
<1> USE DeadLetterAssumption DEF DeadLetterInv, Inserted
<1>1. rows' \in [Rows -> Row]
  BY DEF TypeOK, Row, Statuses, Failures
<1>2. \A s \in Rows : /\ rows'[s].attempt = rows[s].attempt
                      /\ rows'[s].retry = rows[s].retry
                      /\ s # r => rows'[s] = rows[s]
  BY DEF TypeOK, Row
<1>3. rows'[r].status \in {"pending", "failed_permanently"}
  BY DEF TypeOK, Row
<1>4. Counted'
  BY <1>2, <1>3 DEF Counted, Open, TypeOK, Row
<1>5. TicketsGood'
  BY <1>2, <1>3 DEF TicketsGood, Held, Tickets, TypeOK, worker
<1>6. Honest'
  BY <1>2, <1>3 DEF Honest, worker, TypeOK
<1>7. OneRow'
  <2>1. rows'[r].status = "pending" =>
           \A s \in Rows : EventOf[s] = EventOf[r] =>
              rows[s].status \in {"none", "failed_permanently"}
    BY DEF Blocking, RowsOf, TypeOK, Row, Failures
  <2> QED
    BY <1>2, <1>3, <2>1 DEF OneRow
<1> QED
  BY <1>1, <1>4, <1>5, <1>6, <1>7

LEMMA RequestInv ==
    ASSUME DeadLetterInv, NEW q \in Requests, Enqueue(q) \/ Unanswered(q)
    PROVE  DeadLetterInv'
<1> USE DeadLetterAssumption DEF DeadLetterInv
<1>1. UNCHANGED <<worker, applied>>
  BY DEF Enqueue, Unanswered
<1>2. request' \in [Requests -> {{}} \cup {{x} : x \in Events \X Failures}]
  BY DEF Enqueue, Unanswered, TypeOK
<1>3. CASE UNCHANGED rows
  <2>1. TypeOK'
    BY <1>1, <1>2, <1>3 DEF TypeOK, worker
  <2>2. Counted' /\ OneRow'
    BY <1>3 DEF Counted, OneRow, Open
  <2>3. TicketsGood' /\ Honest'
    BY <1>1, <1>3 DEF TicketsGood, Honest, Held, worker
  <2> QED
    BY <2>1, <2>2, <2>3
<1>4. CASE ~UNCHANGED rows
  <2>1. PICK r \in Rows, failure \in Failures : Inserted(r, failure)
    BY <1>4 DEF Enqueue, Unanswered, RowsOf, TypeOK
  <2>2. TypeOK'
    BY <1>1, <1>2, <2>1, InsertedKeeps DEF TypeOK, worker
  <2> QED
    BY <1>1, <2>1, <2>2, InsertedKeeps
<1> QED
  BY <1>3, <1>4

LEMMA TickInv ==
    ASSUME DeadLetterInv, NEW w \in Workers, Tick(w)
    PROVE  DeadLetterInv'
<1> USE DeadLetterAssumption DEF DeadLetterInv
<1>1. /\ rows' = Claimed(NameOf[w]) /\ UNCHANGED <<request, hand, applied>>
      /\ at' \in {at, [at EXCEPT ![w] = "loop"]}
      /\ batch' \in {batch, [batch EXCEPT ![w] = Taken]}
      /\ hand[w] = {}
  BY DEF Tick, TypeOK
<1>2. \A r \in Rows :
         /\ Lost(r) => rows'[r] =
                         [rows[r] EXCEPT !.status = "failed_permanently"]
         /\ Eligible(r) => rows'[r] =
                [rows[r] EXCEPT !.status = "processing", !.owner = NameOf[w],
                                !.attempt = @ + 1, !.due = FALSE]
         /\ ~Lost(r) /\ ~Eligible(r) => rows'[r] = rows[r]
  BY <1>1 DEF Claimed, Eligible
<1>3. \A r \in Rows :
         /\ rows'[r] \in Row
         /\ Lost(r) => /\ rows'[r].status = "failed_permanently"
                       /\ rows'[r].attempt = rows[r].attempt
                       /\ rows'[r].retry = rows[r].retry
         /\ Eligible(r) => /\ rows'[r].status = "processing"
                           /\ rows'[r].attempt = rows[r].attempt + 1
                           /\ rows'[r].retry = rows[r].retry
         /\ ~Lost(r) /\ ~Eligible(r) => rows'[r] = rows[r]
  <2> SUFFICES ASSUME NEW r \in Rows
               PROVE  /\ rows'[r] \in Row
                      /\ Lost(r) => /\ rows'[r].status = "failed_permanently"
                                    /\ rows'[r].attempt = rows[r].attempt
                                    /\ rows'[r].retry = rows[r].retry
                      /\ Eligible(r) =>
                            /\ rows'[r].status = "processing"
                            /\ rows'[r].attempt = rows[r].attempt + 1
                            /\ rows'[r].retry = rows[r].retry
                      /\ ~Lost(r) /\ ~Eligible(r) => rows'[r] = rows[r]
    OBVIOUS
  <2>1. rows[r] \in Row /\ NameOf[w] \in Names
    BY DEF TypeOK
  <2>2. CASE Lost(r)
    BY <1>2, <2>1, <2>2 DEF Row, Statuses, Eligible
  <2>3. CASE Eligible(r)
    <3>1. ~Lost(r)
      BY <2>3 DEF Eligible
    <3>2. rows'[r] = [status |-> "processing", owner |-> NameOf[w],
                      attempt |-> rows[r].attempt + 1,
                      retry |-> rows[r].retry, due |-> FALSE]
      BY <1>2, <2>1, <2>3 DEF Row
    <3>3. rows[r].attempt + 1 \in Nat /\ rows[r].retry \in Nat
      BY <2>1 DEF Row
    <3> QED
      BY <2>1, <2>3, <3>1, <3>2, <3>3 DEF Row, Statuses
  <2>4. CASE ~Lost(r) /\ ~Eligible(r)
    BY <1>2, <2>1, <2>4
  <2> QED
    BY <2>2, <2>3, <2>4
<1>4. \A t \in Taken : /\ t \in Tickets /\ Eligible(t.row)
                       /\ t.attempt = rows[t.row].attempt + 1
                       /\ t.retry = rows[t.row].retry
  BY DEF Taken, Tickets, TypeOK, Row
<1>5. TypeOK'
  <2>1. rows' \in [Rows -> Row]
    BY <1>1, <1>3 DEF Claimed
  <2>2. batch' \in [Workers -> SUBSET Tickets]
    BY <1>1, <1>4 DEF TypeOK
  <2>3. \A k \in Workers :
           IF at'[k] \in {"idle", "loop"} THEN hand'[k] = {}
                                          ELSE \E t \in hand'[k] : hand'[k] = {t}
    BY <1>1 DEF TypeOK
  <2> QED
    BY <1>1, <2>1, <2>2, <2>3 DEF TypeOK
<1>6. Counted'
  BY <1>3 DEF Counted, Lost, Eligible, Open, TypeOK, Row
<1>7. TicketsGood'
  <2> SUFFICES ASSUME NEW k \in Workers, NEW t \in Held(k)'
               PROVE  /\ t.attempt <= rows'[t.row].attempt
                      /\ /\ rows'[t.row].status = "processing"
                         /\ t.attempt = rows'[t.row].attempt
                         => t.retry = rows'[t.row].retry
    BY DEF TicketsGood
  <2>1. t \in Taken \/ t \in Held(k)
    BY <1>1 DEF Held, TypeOK
  <2>2. CASE t \in Taken
    BY <2>2, <1>3, <1>4 DEF Tickets, Eligible, Lost, TypeOK, Row
  <2>3. CASE t \in Held(k)
    <3>1. t \in Tickets
      BY <2>3 DEF Held, TypeOK
    <3> QED
      BY <2>3, <3>1, <1>3
      DEF TicketsGood, Tickets, Eligible, Lost, TypeOK, Row
  <2> QED
    BY <2>1, <2>2, <2>3
<1>8. Honest'
  BY <1>1, <1>3 DEF Honest, TypeOK, Lost, Eligible
<1>9. OneRow'
  BY <1>3 DEF OneRow, Lost, Eligible, Open
<1> QED
  BY <1>5, <1>6, <1>7, <1>8, <1>9

\* A worker that goes on, gives a row up or dies holds no more than before.
LEMMA WorkerInv ==
    ASSUME DeadLetterInv, NEW w \in Workers,
           Crash(w) \/ Loop(w) \/ Admit(w)
    PROVE  DeadLetterInv'
<1> USE DeadLetterAssumption DEF DeadLetterInv
<1>1. /\ UNCHANGED <<rows, request, applied>>
      /\ \A k \in Workers : Held(k)' \subseteq Held(k)
      /\ \A k \in Workers : at'[k] = "ok" => at[k] = "ok" /\ hand'[k] = hand[k]
  BY DEF Crash, Loop, Admit, Continue, Held, TypeOK
<1>2. TypeOK'
  <2>1. CASE Crash(w)
    BY <2>1 DEF Crash, TypeOK
  <2>2. CASE Loop(w) /\ batch[w] = {}
    BY <2>2 DEF Loop, TypeOK
  <2>3. CASE Loop(w) /\ batch[w] # {}
    <3>1. PICK t \in batch[w] :
             /\ batch' = [batch EXCEPT ![w] = @ \ {t}]
             /\ hand' = [hand EXCEPT ![w] = {t}]
             /\ at' = [at EXCEPT ![w] = "admit"]
      BY <2>3 DEF Loop
    <3>2. t \in Tickets
      BY DEF TypeOK
    <3> QED
      BY <1>1, <3>1, <3>2 DEF TypeOK, Failures
  <2>4. CASE Admit(w)
    BY <2>4 DEF Admit, Continue, TypeOK
  <2> QED
    BY <2>1, <2>2, <2>3, <2>4
<1>3. Counted' /\ OneRow'
  BY <1>1 DEF Counted, OneRow, Open
<1>4. TicketsGood' /\ Honest'
  BY <1>1 DEF TicketsGood, Honest
<1> QED
  BY <1>2, <1>3, <1>4

LEMMA HandleInv ==
    ASSUME DeadLetterInv, NEW w \in Workers, Handle(w)
    PROVE  DeadLetterInv'
<1> USE DeadLetterAssumption DEF DeadLetterInv
<1>1. PICK t \in hand[w], outcome \in Failures \cup {"ok"} :
         /\ Handled(EventOf[t.row], outcome)
         /\ at' = [at EXCEPT ![w] = outcome]
  BY DEF Handle
<1>2. UNCHANGED <<rows, request, batch, hand>> /\ hand[w] = {t}
  BY DEF Handle, TypeOK
<1>3. t \in Tickets /\ EventOf[t.row] \in Events
  BY DEF TypeOK, Tickets
<1>4. /\ applied' \in [Events -> BOOLEAN]
      /\ \A x \in Events : applied[x] => applied'[x]
      /\ outcome = "ok" => applied'[EventOf[t.row]]
  BY <1>1, <1>3, HandledKeeps
<1>5. TypeOK'
  BY <1>1, <1>2, <1>4 DEF TypeOK, Failures
<1>6. Counted' /\ OneRow'
  BY <1>2 DEF Counted, OneRow, Open
<1>7. TicketsGood'
  BY <1>2 DEF TicketsGood, Held
<1>8. Honest'
  <2>1. \A r \in Rows : rows'[r].status = "resolved" => applied'[EventOf[r]]
    BY <1>2, <1>4 DEF Honest
  <2>2. \A k \in Workers : at'[k] = "ok" =>
           \A u \in hand'[k] : applied'[EventOf[u.row]]
    BY <1>1, <1>2, <1>4 DEF Honest, TypeOK, Tickets
  <2> QED
    BY <2>1, <2>2 DEF Honest
<1> QED
  BY <1>5, <1>6, <1>7, <1>8

\* What a settlement does to the row of the ticket in hand, if it does anything.
LEMMA SettledRow ==
    ASSUME DeadLetterInv, NEW w \in Workers, Settle(w), rows' # rows
    PROVE  \E t \in Tickets :
             /\ hand[w] = {t} /\ hand'[w] = {} /\ Live(w, t)
             /\ rows' \in [Rows -> Row]
             /\ \A s \in Rows : s # t.row => rows'[s] = rows[s]
             /\ rows'[t.row].attempt = rows[t.row].attempt
             /\ \/ /\ rows'[t.row].status = "resolved" /\ at[w] = "ok"
                   /\ rows'[t.row].retry = rows[t.row].retry
                \/ /\ rows'[t.row].status = "failed_permanently"
                   /\ rows'[t.row].retry = t.retry + 1
                \/ /\ rows'[t.row].status = "pending"
                   /\ rows'[t.row].retry = t.retry + 1
                   /\ t.retry + 1 < Backoffs
<1> USE DeadLetterAssumption DEF DeadLetterInv
<1>1. PICK t \in hand[w] :
         IF at[w] = "ok" THEN Settled(w, t, "resolved", rows[t.row].retry)
                         ELSE RecordFailure(w, t)
  BY DEF Settle
<1>2. hand[w] = {t} /\ t \in Tickets /\ t.row \in Rows /\ t.retry \in Nat
  BY DEF Settle, TypeOK, Failures, Tickets
<1>3. hand'[w] = {}
  BY DEF Settle, Continue, TypeOK
<1>4. PICK status \in {"resolved", "failed_permanently", "pending"},
          retry \in Nat :
         /\ Settled(w, t, status, retry)
         /\ \/ status = "resolved" /\ at[w] = "ok" /\ retry = rows[t.row].retry
            \/ status = "failed_permanently" /\ retry = t.retry + 1
            \/ status = "pending" /\ retry = t.retry + 1 /\ t.retry + 1 < Backoffs
  BY <1>1, <1>2 DEF RecordFailure, TypeOK, Row
<1>5. Live(w, t)
  BY <1>4 DEF Settled
<1>6. rows' = [rows EXCEPT ![t.row] =
                 [@ EXCEPT !.status = status, !.owner = Nobody,
                           !.retry = retry, !.due = FALSE]]
  BY <1>4, <1>5 DEF Settled
<1>7. /\ rows' \in [Rows -> Row]
      /\ \A s \in Rows : s # t.row => rows'[s] = rows[s]
      /\ rows'[t.row].attempt = rows[t.row].attempt
      /\ rows'[t.row].status = status /\ rows'[t.row].retry = retry
  <2> DEFINE new == [rows[t.row] EXCEPT
                       !.status = status, !.owner = Nobody,
                       !.retry = retry, !.due = FALSE]
  <2>1. rows' = [rows EXCEPT ![t.row] = new]
    BY <1>6
  <2>2. rows[t.row] \in Row
    BY <1>2 DEF TypeOK
  <2>3. /\ new \in Row /\ new.attempt = rows[t.row].attempt
        /\ new.status = status /\ new.retry = retry
    BY <2>2 DEF Row, Statuses
  <2> HIDE DEF new
  <2> QED
    BY <1>2, <2>1, <2>3 DEF TypeOK
<1> QED
  BY <1>2, <1>3, <1>4, <1>5, <1>7

LEMMA SettleInv ==
    ASSUME DeadLetterInv, NEW w \in Workers, Settle(w)
    PROVE  DeadLetterInv'
<1> USE DeadLetterAssumption DEF DeadLetterInv
<1>1. /\ UNCHANGED <<request, batch, applied>>
      /\ \A k \in Workers : Held(k)' \subseteq Held(k)
      /\ \A k \in Workers : at'[k] = "ok" => at[k] = "ok" /\ hand'[k] = hand[k]
  BY DEF Settle, Continue, Held, TypeOK
<1>2. rows' \in [Rows -> Row] => TypeOK'
  BY DEF Settle, Continue, TypeOK
<1>3. CASE rows' = rows
  BY <1>1, <1>2, <1>3
  DEF Counted, OneRow, Open, TicketsGood, Honest, TypeOK
<1>4. CASE rows' # rows
  <2>1. PICK t \in Tickets :
             /\ hand[w] = {t} /\ hand'[w] = {} /\ Live(w, t)
             /\ rows' \in [Rows -> Row]
             /\ \A s \in Rows : s # t.row => rows'[s] = rows[s]
             /\ rows'[t.row].attempt = rows[t.row].attempt
             /\ \/ /\ rows'[t.row].status = "resolved" /\ at[w] = "ok"
                   /\ rows'[t.row].retry = rows[t.row].retry
                \/ /\ rows'[t.row].status = "failed_permanently"
                   /\ rows'[t.row].retry = t.retry + 1
                \/ /\ rows'[t.row].status = "pending"
                   /\ rows'[t.row].retry = t.retry + 1
                   /\ t.retry + 1 < Backoffs
    BY <1>4, SettledRow
  <2>2. /\ t.row \in Rows /\ t \in Held(w) /\ t.retry = rows[t.row].retry
        /\ rows[t.row].status = "processing"
    BY <2>1 DEF TicketsGood, Live, Held, Tickets
  <2>3. Counted'
    BY <2>1, <2>2 DEF Counted, Open, TypeOK, Row, Tickets
  <2>4. TicketsGood'
    <3> SUFFICES ASSUME NEW k \in Workers, NEW u \in Held(k)'
                 PROVE  /\ u.attempt <= rows'[u.row].attempt
                        /\ /\ rows'[u.row].status = "processing"
                           /\ u.attempt = rows'[u.row].attempt
                           => u.retry = rows'[u.row].retry
      BY DEF TicketsGood
    <3>1. u \in Held(k) /\ u \in Tickets
      BY <1>1 DEF Held, TypeOK
    <3> QED
      BY <2>1, <2>2, <3>1 DEF TicketsGood, Tickets
  <2>5. Honest'
    BY <1>1, <2>1, <2>2 DEF Honest
  <2>6. OneRow'
    BY <2>1, <2>2 DEF OneRow
  <2> QED
    BY <1>2, <2>1, <2>3, <2>4, <2>5, <2>6
<1> QED
  BY <1>3, <1>4

LEMMA NextInv == DeadLetterInv /\ [Next]_vars => DeadLetterInv'
<1> SUFFICES ASSUME DeadLetterInv, [Next]_vars PROVE DeadLetterInv'
  OBVIOUS
<1>1. CASE UNCHANGED vars
  BY <1>1 DEF vars, worker, DeadLetterInv, TypeOK, Counted, TicketsGood,
              Honest, OneRow, Open, Held
<1>2. CASE \E r \in Rows : ComesDue(r)
  BY <1>2, ComesDueInv
<1>3. CASE \E q \in Requests :
              Enqueue(q) \/ Unanswered(q) \/ \E e \in Events : Post(q, e)
  BY <1>3, RequestInv, PostInv
<1>4. CASE \E w \in Workers : Crash(w) \/ Step(w)
  BY <1>4, TickInv, WorkerInv, HandleInv, SettleInv DEF Step
<1> QED
  BY <1>1, <1>2, <1>3, <1>4 DEF Next

THEOREM InvHolds == Spec => []DeadLetterInv
<1>1. Init => DeadLetterInv
  BY InitInv
<1>2. DeadLetterInv /\ [Next]_vars => DeadLetterInv'
  BY NextInv
<1> QED
  BY <1>1, <1>2, PTL DEF Spec

\* Every variable of the dead-letter queue has its type, always.
THEOREM TypeCorrect == Spec => []TypeOK
<1>1. DeadLetterInv => TypeOK
  BY DEF DeadLetterInv
<1> QED
  BY <1>1, InvHolds, PTL

\* No row is attempted more often than MaxAttempts and Backoffs allow, whatever
\* crashes (claim_webhook_failure_batch and recordFailure together).
THEOREM Bounded == Spec => []AttemptsBounded
<1>1. DeadLetterInv => AttemptsBounded
  BY DEF DeadLetterInv, Counted, AttemptsBounded
<1> QED
  BY <1>1, InvHolds, PTL

-----------------------------------------------------------------------------
(* The action properties                                                   *)

\* An attempt whose lease runs is ended by its holder and by nobody else,
\* whatever names processes have (settle_webhook_failure_attempt).
THEOREM Fenced == Spec => AttemptIsItsHolders
<1> DEFINE Theirs(r) ==
      /\ rows[r].status = "processing" /\ ~rows[r].due
      /\ rows'[r].status # "processing"
      => \E w \in Workers : \E t \in hand[w] \ hand'[w] :
            t.row = r /\ t.attempt = rows[r].attempt
<1>1. ASSUME DeadLetterInv, [Next]_vars, NEW r \in Rows
      PROVE  Theirs(r)
  <2> USE <1>1 DEF DeadLetterInv
  <2>1. CASE UNCHANGED rows
    BY <2>1
  <2>2. CASE \E s \in Rows : ComesDue(s)
    <3>1. rows'[r].status = rows[r].status
      BY <2>2 DEF ComesDue, TypeOK, Row
    <3> QED
      BY <3>1
  <2>3. CASE \E q \in Requests : Enqueue(q) \/ Unanswered(q)
    <3>1. rows[r].status = "processing" => rows'[r] = rows[r]
      BY <2>3 DEF Enqueue, Unanswered, Inserted, RowsOf, TypeOK
    <3> QED
      BY <3>1
  <2>4. CASE \E w \in Workers : Tick(w)
    <3>1. rows[r].status = "processing" /\ ~rows[r].due => rows'[r] = rows[r]
      BY <2>4 DEF Tick, Claimed, Lost, Eligible
    <3> QED
      BY <3>1
  <2>5. CASE \E w \in Workers : Settle(w) /\ rows' # rows
    <3>1. PICK w \in Workers : Settle(w) /\ rows' # rows
      BY <2>5
    <3>2. PICK t \in Tickets :
             /\ hand[w] = {t} /\ hand'[w] = {} /\ Live(w, t)
             /\ \A s \in Rows : s # t.row => rows'[s] = rows[s]
      BY <3>1, SettledRow
    <3>3. CASE r = t.row
      <4>1. t \in hand[w] \ hand'[w] /\ t.attempt = rows[r].attempt
        BY <3>2, <3>3 DEF Live
      <4> QED
        BY <3>3, <4>1
    <3>4. CASE r # t.row
      BY <3>2, <3>4
    <3> QED
      BY <3>3, <3>4
  <2> QED
    BY <2>1, <2>2, <2>3, <2>4, <2>5
    DEF Next, Step, Post, Crash, Loop, Admit, Handle, vars
<1>2. DeadLetterInv /\ [Next]_vars => [\A r \in Rows : Theirs(r)]_vars
  BY <1>1
<1> QED
  BY <1>2, InvHolds, PTL DEF Spec, AttemptIsItsHolders

\* An event whose failure was answered with 202 is being retried or has been
\* applied: a collision is with a row that stands for one or the other.
THEOREM Kept == Spec => AcknowledgedIsKept
<1> DEFINE Cared(q, e) ==
      /\ Enqueue(q) /\ <<e, "retryable">> \in request[q]
      => applied[e] \/ \E r \in RowsOf(e) : Open(r)'
<1>1. ASSUME DeadLetterInv, NEW q \in Requests, NEW e \in Events,
             Enqueue(q), <<e, "retryable">> \in request[q]
      PROVE  applied[e] \/ \E r \in RowsOf(e) : Open(r)'
  <2> USE <1>1 DEF DeadLetterInv
  <2>1. \/ \E r \in RowsOf(e) : Inserted(r, "retryable")
        \/ Blocking(e) # {} /\ UNCHANGED rows
    BY DEF Enqueue
  <2>2. ASSUME NEW r \in RowsOf(e), Inserted(r, "retryable")
        PROVE  Open(r)'
    <3>1. r \in Rows
      BY DEF RowsOf
    <3>2. rows'[r].status = "pending"
      BY <2>2, <3>1 DEF Inserted, TypeOK, Row
    <3> QED
      BY <3>2 DEF Open
  <2>3. ASSUME NEW r \in Blocking(e), UNCHANGED rows
        PROVE  applied[e] \/ (r \in RowsOf(e) /\ Open(r)')
    BY <2>3 DEF Blocking, RowsOf, Open, Honest, TypeOK, Row, Statuses
  <2> QED
    BY <2>1, <2>2, <2>3
<1>2. DeadLetterInv /\ [Next]_vars =>
         [\A q \in Requests, e \in Events : Cared(q, e)]_vars
  BY <1>1
<1> QED
  BY <1>2, InvHolds, PTL DEF Spec, AcknowledgedIsKept

-----------------------------------------------------------------------------
(* The refinement                                                          *)

StatusOf(e, status) == \E r \in RowsOf(e) : rows[r].status = status

\* Fate by what rows there are.
LEMMA FateOf ==
    ASSUME DeadLetterInv, NEW e \in Events
    PROVE  /\ Fate(e) = "done" <=> StatusOf(e, "resolved")
           /\ Fate(e) = "owed" <=> \E r \in RowsOf(e) : Open(r)
           /\ Fate(e) \in {"done", "owed", "dead", "none"}
<1>1. \A r, s \in RowsOf(e) : Open(r) => rows[s].status # "resolved"
  BY DEF DeadLetterInv, OneRow, RowsOf, Open
<1>2. CASE StatusOf(e, "resolved")
  BY <1>1, <1>2 DEF Fate, StatusOf
<1>3. CASE \E r \in RowsOf(e) : Open(r)
  BY <1>1, <1>3 DEF Fate, StatusOf
<1>4. CASE ~StatusOf(e, "resolved") /\ ~\E r \in RowsOf(e) : Open(r)
  BY <1>4 DEF Fate, StatusOf
<1> QED
  BY <1>2, <1>3, <1>4

\* An event keeps its fate when its rows keep their statuses.
LEMMA SameFate ==
    ASSUME NEW e \in Events,
           \A r \in RowsOf(e) : rows'[r].status = rows[r].status
    PROVE  Fate(e)' = Fate(e)
<1>1. RowsOf(e)' = RowsOf(e)
  BY DEF RowsOf
<1> QED
  BY <1>1 DEF Fate, Open

\* One event gets a new fate.
LEMMA Becomes ==
    ASSUME NEW e \in Events, NEW f, Fate(e)' = f,
           \A x \in Events \ {e} : Fate(x)' = Fate(x)
    PROVE  [x \in Events |-> Fate(x)]' =
              [[x \in Events |-> Fate(x)] EXCEPT ![e] = f]
  OBVIOUS

LEMMA AppliesOne ==
    ASSUME TypeOK, NEW e \in Events, NEW outcome, Handled(e, outcome),
           UNCHANGED rows
    PROVE  Queue!DNext \/ UNCHANGED applied
<1>1. applied' = applied \/ applied' = [applied EXCEPT ![e] = TRUE]
  BY DEF Handled, TypeOK
<1>2. UNCHANGED [x \in Events |-> Fate(x)]
  BY SameFate
<1>3. applied' = [applied EXCEPT ![e] = TRUE] => Queue!Apply(e)
  BY <1>2 DEF Queue!Apply
<1> QED
  BY <1>1, <1>3 DEF Queue!DNext

\* An insert takes an event in, or buries it, or adds nothing to a dead one.
LEMMA InsertMaps ==
    ASSUME DeadLetterInv, DeadLetterInv', UNCHANGED applied,
           NEW r \in Rows, NEW failure \in Failures, Inserted(r, failure)
    PROVE  Queue!DNext \/ UNCHANGED [x \in Events |-> Fate(x)]
<1> DEFINE e == EventOf[r]
<1> USE DeadLetterAssumption
<1>1. e \in Events /\ r \in RowsOf(e) /\ RowsOf(e)' = RowsOf(e)
  BY DEF RowsOf
<1>2. /\ \A s \in Rows \ {r} : rows'[s] = rows[s]
      /\ rows[r].status = "none"
      /\ rows'[r].status =
            IF failure = "permanent" THEN "failed_permanently" ELSE "pending"
  BY DEF Inserted, DeadLetterInv, TypeOK, Row
<1>3. \A x \in Events \ {e} : Fate(x)' = Fate(x)
  BY <1>2, SameFate DEF RowsOf
<1>4. CASE failure = "retryable"
  <2>1. Fate(e)' = "owed"
    BY <1>1, <1>2, <1>4, FateOf DEF Open, Fate, OneRow, DeadLetterInv, RowsOf
  <2>2. Fate(e) \in {"none", "dead"}
    BY <1>1, <1>4, FateOf DEF Inserted, Blocking, StatusOf, Open
  <2>3. Queue!TakeIn(e)
    BY <1>1, <1>3, <2>1, <2>2, Becomes DEF Queue!TakeIn, Queue!Become
  <2> QED
    BY <1>1, <2>3 DEF Queue!DNext
<1>5. CASE failure = "permanent"
  <2>1. \A s \in RowsOf(e) : /\ s # r => rows'[s] = rows[s]
                            /\ rows[r].status = "none"
                            /\ rows'[r].status = "failed_permanently"
    BY <1>2, <1>5 DEF RowsOf
  <2>2. Fate(e)' = IF Fate(e) = "none" THEN "dead" ELSE Fate(e)
    BY <1>1, <2>1 DEF Fate, Open
  <2>3. CASE Fate(e) = "none"
    <3>1. Queue!Bury(e)
      BY <1>1, <1>3, <2>2, <2>3, Becomes DEF Queue!Bury, Queue!Become
    <3> QED
      BY <1>1, <3>1 DEF Queue!DNext
  <2>4. CASE Fate(e) # "none"
    BY <1>3, <2>2, <2>4
  <2> QED
    BY <2>3, <2>4
<1> QED
  BY <1>4, <1>5 DEF Failures

\* A claim gives up the events whose rows it finds lost.
LEMMA TickMaps ==
    ASSUME DeadLetterInv, DeadLetterInv', NEW w \in Workers, Tick(w)
    PROVE  Queue!DNext
<1> DEFINE S == {e \in Events : \E r \in RowsOf(e) : Lost(r)}
<1>1. \A r \in Rows :
         rows'[r].status = IF Lost(r) THEN "failed_permanently"
                           ELSE IF Eligible(r) THEN "processing"
                           ELSE rows[r].status
  BY DEF Tick, Claimed, DeadLetterInv, TypeOK, Row
<1>2. ASSUME NEW e \in S
      PROVE  e \in Events /\ Fate(e) = "owed" /\ Fate(e)' = "dead"
  <2>1. PICK r \in RowsOf(e) : Lost(r)
    OBVIOUS
  <2>2. \A s \in RowsOf(e) : s # r =>
           rows[s].status \in {"none", "failed_permanently"}
    BY <2>1 DEF DeadLetterInv, OneRow, RowsOf, Lost
  <2>3. /\ rows'[r].status = "failed_permanently"
        /\ \A s \in RowsOf(e) : s # r => rows'[s].status = rows[s].status
    BY <1>1, <2>1, <2>2 DEF RowsOf, Lost, Eligible, Open
  <2> QED
    BY <2>1, <2>2, <2>3 DEF Fate, Open, Lost, RowsOf
<1>3. ASSUME NEW e \in Events \ S
      PROVE  Fate(e)' = Fate(e)
  <2>1. \A r \in RowsOf(e) :
           /\ rows'[r].status = "resolved" <=> rows[r].status = "resolved"
           /\ Open(r)' <=> Open(r)
           /\ rows'[r].status = "failed_permanently"
              <=> rows[r].status = "failed_permanently"
    BY <1>1 DEF RowsOf, Lost, Eligible, Open
  <2> QED
    BY <2>1 DEF Fate, RowsOf
<1>4. Queue!GiveUp(S)
  BY <1>2, <1>3 DEF Queue!GiveUp, Tick
<1> QED
  BY <1>4 DEF Queue!DNext

LEMMA SettleMaps ==
    ASSUME DeadLetterInv, DeadLetterInv', NEW w \in Workers, Settle(w)
    PROVE  Queue!DNext \/ UNCHANGED <<[x \in Events |-> Fate(x)], applied>>
<1> USE DeadLetterAssumption
<1>0. UNCHANGED applied
  BY DEF Settle
<1>1. CASE UNCHANGED rows
  BY <1>0, <1>1, SameFate
<1>2. CASE rows' # rows
  <2>1. PICK t \in Tickets :
             /\ hand[w] = {t} /\ Live(w, t)
             /\ \A s \in Rows : s # t.row => rows'[s] = rows[s]
             /\ \/ rows'[t.row].status = "resolved" /\ at[w] = "ok"
                \/ rows'[t.row].status = "failed_permanently"
                \/ rows'[t.row].status = "pending"
    BY <1>2, SettledRow
  <2> DEFINE r == t.row  e == EventOf[t.row]
  <2>2. /\ r \in Rows /\ e \in Events /\ r \in RowsOf(e)
        /\ RowsOf(e)' = RowsOf(e) /\ rows[r].status = "processing"
    BY <2>1 DEF Tickets, RowsOf, Live
  <2>3. \A x \in Events \ {e} : Fate(x)' = Fate(x)
    BY <2>1, SameFate DEF RowsOf
  <2>4. Fate(e) = "owed"
    BY <2>2, FateOf DEF Open
  <2>5. \A s \in RowsOf(e) : s # r =>
           rows'[s].status \in {"none", "failed_permanently"}
    BY <2>1, <2>2 DEF DeadLetterInv, OneRow, RowsOf
  <2>6. CASE rows'[r].status = "resolved" /\ at[w] = "ok"
    <3>1. Fate(e)' = "done" /\ applied[e]
      BY <2>1, <2>2, <2>6 DEF Fate, DeadLetterInv, Honest
    <3>2. Queue!Finish(e)
      BY <1>0, <2>2, <2>3, <2>4, <3>1, Becomes DEF Queue!Finish, Queue!Become
    <3> QED
      BY <2>2, <3>2 DEF Queue!DNext
  <2>7. CASE rows'[r].status = "failed_permanently"
    <3>1. Fate(e)' = "dead"
      BY <2>2, <2>5, <2>7 DEF Fate, Open
    <3>2. Queue!GiveUp({e})
      BY <1>0, <2>2, <2>3, <2>4, <3>1 DEF Queue!GiveUp
    <3> QED
      BY <2>2, <3>2 DEF Queue!DNext
  <2>8. CASE rows'[r].status = "pending"
    <3>1. Fate(e)' = "owed"
      BY <2>2, <2>5, <2>8 DEF Fate, Open
    <3> QED
      BY <1>0, <2>3, <2>4, <3>1
  <2> QED
    BY <2>1, <2>6, <2>7, <2>8
<1> QED
  BY <1>1, <1>2

\* The queue keeps the promise of DeadLetterQueue: an event leaves it applied
\* or given up, and one that is done stays done.
THEOREM Promise == Spec => KeepsPromise
<1>1. Init => Queue!DInit
  BY DEF Init, Queue!DInit, Fate, Open, RowsOf
<1>2. DeadLetterInv /\ DeadLetterInv' /\ [Next]_vars =>
         [Queue!DNext]_(Queue!dvars)
  <2> SUFFICES ASSUME DeadLetterInv, DeadLetterInv', [Next]_vars
               PROVE  [Queue!DNext]_(Queue!dvars)
    OBVIOUS
  <2> USE DEF Queue!dvars
  <2>1. CASE UNCHANGED <<rows, applied>>
    BY <2>1, SameFate
  <2>2. CASE \E r \in Rows : ComesDue(r)
    <3>1. \A r \in Rows : rows'[r].status = rows[r].status
      BY <2>2 DEF ComesDue, DeadLetterInv, TypeOK, Row
    <3> QED
      BY <2>2, <3>1, SameFate DEF ComesDue, RowsOf
  <2>3. CASE \E q \in Requests, e \in Events : Post(q, e)
    <3>1. PICK e \in Events, outcome \in Failures \cup {"ok"} :
             Handled(e, outcome) /\ UNCHANGED rows
      BY <2>3 DEF Post
    <3> QED
      BY <2>1, <3>1, AppliesOne DEF DeadLetterInv
  <2>4. CASE \E q \in Requests : Enqueue(q) \/ Unanswered(q)
    <3>1. UNCHANGED applied
      BY <2>4 DEF Enqueue, Unanswered
    <3>2. UNCHANGED rows \/ \E r \in Rows, failure \in Failures :
                               Inserted(r, failure)
      BY <2>4 DEF Enqueue, Unanswered, RowsOf
    <3> QED
      BY <2>1, <3>1, <3>2, InsertMaps
  <2>5. CASE \E w \in Workers : Tick(w)
    BY <2>5, TickMaps
  <2>6. CASE \E w \in Workers : Handle(w)
    <3>1. PICK e \in Events, outcome \in Failures \cup {"ok"} :
             Handled(e, outcome) /\ UNCHANGED rows
      BY <2>6, DeadLetterAssumption DEF Handle, DeadLetterInv, TypeOK, Tickets
    <3> QED
      BY <2>1, <3>1, AppliesOne DEF DeadLetterInv
  <2>7. CASE \E w \in Workers : Settle(w)
    BY <2>7, SettleMaps
  <2> QED
    BY <2>1, <2>2, <2>3, <2>4, <2>5, <2>6, <2>7
    DEF Next, Step, Crash, Loop, Admit, vars
<1> QED
  BY <1>1, <1>2, InvHolds, PTL DEF Spec, KeepsPromise, Queue!DSafety

=============================================================================
