------------------------ MODULE EventConsumerProofs ------------------------
(***************************************************************************)
(* Proofs about EventConsumer: its inductive invariant, that no committed  *)
(* event is forgotten, that the handlers of an event run at the same time  *)
(* only for locks that were lost, that they take effect again only for     *)
(* faults, and that the registry implements DeliveryQueue.                 *)
(* Every step is one worker's, or nobody's: the proof of a step says what  *)
(* it does to its own worker, and OthersKept, RowsKept and OffsetKept say  *)
(* why the rest is kept, because what has been recorded of an event stays  *)
(* recorded (Grows).                                                       *)
(***************************************************************************)
EXTENDS EventConsumer, FiniteSetTheorems, TLAPS

JobsOK ==
    /\ job \in [Workers -> Jobs]
    /\ \A w \in Workers : job[w].at \notin {"idle", "next"} => job[w].event \in Events

\* The jobs of everybody but w stay as they are; and what w keeps of its own.
Others(w) == \A v \in Workers : v # w => job'[v] = job[v]
Keeps(w) ==
    /\ job'[w].event = job[w].event /\ job'[w].ok = job[w].ok
    /\ job'[w].todo = job[w].todo /\ job'[w].entry = job[w].entry

LEMMA JobTo ==
    ASSUME JobsOK, NEW w \in Workers, NEW j \in Jobs, job' = [job EXCEPT ![w] = j],
           j.at \in {"idle", "next"} \/ j.event \in Events
    PROVE  JobsOK' /\ Others(w) /\ job'[w] = j
<1>1. job' \in [Workers -> Jobs] /\ Others(w) /\ job'[w] = j
  BY DEF JobsOK, Others
<1> QED
  BY <1>1 DEF JobsOK, Others

LEMMA GoesTo ==
    ASSUME JobsOK, NEW w \in Workers, NEW place \in Places, Goes(w, place),
           place \in {"idle", "next"} \/ job[w].event \in Events
    PROVE  /\ JobsOK' /\ Others(w) /\ Keeps(w)
           /\ job'[w].at = place /\ job'[w].then = job[w].then
           /\ job'[w].claimed = job[w].claimed /\ job'[w].saw = job[w].saw
<1> DEFINE j == [job[w] EXCEPT !.at = place]
<1>1. job[w] \in Jobs
  BY DEF JobsOK
<1>2. /\ j \in Jobs /\ j.at = place /\ j.event = job[w].event /\ j.ok = job[w].ok
      /\ j.todo = job[w].todo /\ j.entry = job[w].entry /\ j.then = job[w].then
      /\ j.claimed = job[w].claimed /\ j.saw = job[w].saw
  BY <1>1 DEF Jobs
<1>3. job' = [job EXCEPT ![w] = j]
  BY DEF Goes
<1> HIDE DEF j
<1>4. JobsOK' /\ Others(w) /\ job'[w] = j
  BY <1>2, <1>3, JobTo
<1> QED
  BY <1>2, <1>4 DEF Keeps

LEMMA GoesOnTo ==
    ASSUME JobsOK, NEW w \in Workers, NEW place \in Places, GoesOn(w, place),
           job[w].event \in Events
    PROVE  /\ JobsOK' /\ Others(w) /\ Keeps(w)
           /\ job'[w].at = "unlock" /\ job'[w].then = place
           /\ job'[w].claimed = job[w].claimed
<1> DEFINE j == [job[w] EXCEPT !.at = "unlock", !.then = place, !.saw = "none"]
<1>1. job[w] \in Jobs
  BY DEF JobsOK
<1>2. /\ j \in Jobs /\ j.at = "unlock" /\ j.event = job[w].event /\ j.ok = job[w].ok
      /\ j.todo = job[w].todo /\ j.entry = job[w].entry /\ j.then = place
      /\ j.claimed = job[w].claimed
  BY <1>1 DEF Jobs, Places, Statuses
<1>3. job' = [job EXCEPT ![w] = j]
  BY <1>1 DEF GoesOn, JobsOK
<1> HIDE DEF j
<1>4. JobsOK' /\ Others(w) /\ job'[w] = j
  BY <1>2, <1>3, JobTo
<1> QED
  BY <1>2, <1>4 DEF Keeps

LEMMA HasClaimTo ==
    ASSUME JobsOK, NEW w \in Workers, HasClaim(w), job[w].event \in Events
    PROVE  /\ JobsOK' /\ Others(w) /\ Keeps(w) /\ job'[w].at = "handle"
<1> DEFINE j == [job[w] EXCEPT !.at = "handle", !.claimed = TRUE, !.saw = "none"]
<1>1. job[w] \in Jobs
  BY DEF JobsOK
<1>2. /\ j \in Jobs /\ j.at = "handle" /\ j.event = job[w].event /\ j.ok = job[w].ok
      /\ j.todo = job[w].todo /\ j.entry = job[w].entry
  BY <1>1 DEF Jobs, Places, Statuses
<1>3. job' = [job EXCEPT ![w] = j]
  BY <1>1 DEF HasClaim, JobsOK
<1> HIDE DEF j
<1>4. JobsOK' /\ Others(w) /\ job'[w] = j
  BY <1>2, <1>3, JobTo
<1> QED
  BY <1>2, <1>4 DEF Keeps

-----------------------------------------------------------------------------
(* What only grows                                                         *)

Grows ==
    /\ \A e \in Events : effects[e] > 0 => effects'[e] > 0
    /\ \A e \in Events : Recorded(e) => Recorded(e)'
    /\ \A e \in Events : row[e].status # "none" => row'[e].status # "none"
    /\ \A i \in DOMAIN letters : i \in DOMAIN letters' /\ letters'[i].event = letters[i].event

LEMMA RecordGrows ==
    ASSUME \A e \in Events : effects[e] > 0 => effects'[e] > 0,
           \A e \in Events : row[e].status = "completed" => row'[e].status = "completed",
           \A e \in Events : row[e].status # "none" => row'[e].status # "none",
           \A i \in DOMAIN letters : i \in DOMAIN letters' /\ letters'[i].event = letters[i].event,
           dropped \subseteq dropped', unsent \subseteq unsent',
           crashes > 0 => crashes' > 0
    PROVE  Grows
BY DEF Grows, Recorded

SeenStays == \A e \in Events : Seen(e) => Seen(e)'

LEMMA SeenKept ==
    ASSUME Grows, NEW w \in Workers \cup {NoOne}, Others(w),
           \A e \in Events : w \in Consumers /\ job[w].event = e /\ SeesTo(w) => Seen(e)'
    PROVE  SeenStays
<1> SUFFICES ASSUME NEW e \in Events, Seen(e) PROVE Seen(e)'
  BY DEF SeenStays
<1>1. CASE Recorded(e)
  BY <1>1 DEF Grows, Seen
<1>2. ASSUME NEW c \in Consumers, job[c].event = e, SeesTo(c) PROVE Seen(e)'
  <2>1. CASE c = w
    BY <1>2, <2>1
  <2>2. CASE c # w
    <3>1. job'[c] = job[c]
      BY <2>2 DEF Others, Workers
    <3>2. SeesTo(c)' /\ (job[c].event = e)'
      BY <1>2, <3>1 DEF SeesTo, HasClaimed
    <3> QED
      BY <3>2 DEF Seen
  <2> QED
    BY <2>1, <2>2
<1> QED
  BY <1>1, <1>2 DEF Seen

\* How a step may change the registry and the locks.
LEMMA RowsKept ==
    ASSUME EventsInv, Grows, SeenStays, NEW w \in Workers \cup {NoOne}, Others(w),
           \A e \in Events : lock'[e] \in {lock[e], NoOne} \/ Seen(e)',
           \A e \in Events :
              \/ row'[e].status = row[e].status /\ row'[e].by = row[e].by
              \/ row'[e].status \in {"none", "completed"}
              \/ Recorded(e)'
              \/ /\ row'[e].status = "processing"
                 /\ \E c \in Consumers : (row[e].by = c /\ job[c].event = e /\ HasClaimed(c))',
           \A e \in Events :
              w \in Consumers /\ job[w].event = e /\ HasClaimed(w) =>
                 \/ Recorded(e)'
                 \/ HasClaimed(w)' /\ job'[w].event = e
                 \/ row'[e].status # "processing" \/ row'[e].by # w
    PROVE  \A e \in Events : RowInv(e)'
<1> SUFFICES ASSUME NEW e \in Events PROVE RowInv(e)'
  OBVIOUS
<1>1. RowInv(e)
  BY DEF EventsInv
<1>2. (lock[e] # NoOne => Seen(e))'
  BY <1>1 DEF RowInv, SeenStays
<1>3. CASE row'[e].status = row[e].status /\ row'[e].by = row[e].by
  <2>1. CASE row[e].status = "failed"
    BY <1>1, <1>2, <1>3, <2>1 DEF RowInv, Grows
  <2>2. CASE row[e].status = "processing" /\ ~Recorded(e)
    <3>1. PICK c \in Consumers : row[e].by = c /\ job[c].event = e /\ HasClaimed(c)
      BY <1>1, <2>2 DEF RowInv
    <3>2. CASE c = w
      BY <1>2, <1>3, <2>2, <3>1, <3>2 DEF RowInv
    <3>3. CASE c # w
      <4>1. job'[c] = job[c]
        BY <3>1, <3>3 DEF Others, Workers
      <4>2. HasClaimed(c)' /\ job'[c].event = e
        BY <3>1, <4>1 DEF HasClaimed
      <4> QED
        BY <1>2, <1>3, <2>2, <3>1, <4>2 DEF RowInv
    <3> QED
      BY <3>2, <3>3
  <2>3. CASE row[e].status \notin {"failed", "processing"} \/ (row[e].status = "processing" /\ Recorded(e))
    BY <1>2, <1>3, <2>3 DEF RowInv, Grows
  <2> QED
    BY <2>1, <2>2, <2>3
<1>4. CASE row'[e].status \in {"none", "completed"} \/ Recorded(e)'
  BY <1>2, <1>4 DEF RowInv
<1>5. CASE /\ row'[e].status = "processing"
           /\ \E c \in Consumers : (row[e].by = c /\ job[c].event = e /\ HasClaimed(c))'
  BY <1>2, <1>5 DEF RowInv
<1> QED
  BY <1>3, <1>4, <1>5

-----------------------------------------------------------------------------
(* What a step of one worker leaves to the others                          *)

LEMMA OthersKept ==
    ASSUME EventsInv, Grows, SeenStays, NEW w \in Workers \cup {NoOne}, Others(w),
           NEW v \in Workers, v # w
    PROVE  /\ WorkerInv(v)'
           /\ v \in Consumers => ConsumerInv(v)'
           /\ v \in Replayers => ReplayInv(v)'
<1>1. job'[v] = job[v]
  BY DEF Others
<1>2. job[v].at \notin {"idle", "next"} => job[v].event \in Events
  BY DEF EventsInv, TypeOK
<1>3. WorkerInv(v)'
  BY <1>1, <1>2 DEF EventsInv, WorkerInv, Grows
<1>4. ASSUME v \in Consumers PROVE ConsumerInv(v)'
  <2>1. ConsumerInv(v)
    BY <1>4 DEF EventsInv
  <2>2. \A e \in Events : Seen(e) => Seen(e)'
    BY DEF SeenStays
  <2>3. job'[v].event \in Events /\ Seen(job[v].event) => (Seen(job[v].event))'
    <3> DEFINE e == job[v].event
    <3>1. ASSUME NEW x \in Events, job[v].event = x, Seen(job[v].event)
          PROVE  Seen(job[v].event)'
      BY <1>1, <2>2, <3>1 DEF Seen, Recorded
    <3> QED
      BY <1>1, <3>1
  <2>4. job'[v].event \in Events /\ Recorded(job[v].event) => (Recorded(job[v].event))'
    <3>1. ASSUME NEW x \in Events, job[v].event = x, Recorded(job[v].event)
          PROVE  Recorded(job[v].event)'
      BY <1>1, <3>1 DEF Grows, Recorded
    <3> QED
      BY <1>1, <3>1
  <2> QED
    BY <1>1, <1>2, <2>1, <2>3, <2>4 DEF ConsumerInv, Grows
<1>5. ASSUME v \in Replayers PROVE ReplayInv(v)'
  BY <1>1, <1>5 DEF EventsInv, ReplayInv, Grows
<1> QED
  BY <1>3, <1>4, <1>5

LEMMA DoneKept ==
    ASSUME EventsInv, Grows,
           \A e \in Events : row'[e].status = "completed" =>
              row[e].status = "completed" \/ effects'[e] > 0,
           \A i \in DOMAIN letters' : letters'[i].status = "replayed" =>
              \/ i \in DOMAIN letters /\ letters[i].status = "replayed"
              \/ effects'[letters'[i].event] > 0
    PROVE  DoneHadEffect'
<1>1. \A i \in DOMAIN letters : letters[i].event \in Events
  <2>1. letters \in Seq(Letter)
    BY DEF EventsInv, TypeOK
  <2>2. \A i \in DOMAIN letters : letters[i] \in Letter
    BY <2>1
  <2> QED
    BY <2>2 DEF Letter
<1> QED
  BY <1>1 DEF EventsInv, DoneHadEffect, Grows

LEMMA OffsetKept ==
    ASSUME EventsInv, SeenStays, UNCHANGED partition,
           NEW w \in Workers \cup {NoOne}, Others(w),
           w \in Consumers => job[w].at # "idle" /\ job'[w].event = job[w].event
    PROVE  OffsetInv'
<1> USE DEF partition
<1>1. \A i \in 1 .. offset : Log[i] \in Events
  BY ConsumerAssumption DEF EventsInv, TypeOK
<1>2. \A i \in 1 .. offset : Seen(Log[i])'
  <2> SUFFICES ASSUME NEW i \in 1 .. offset PROVE Seen(Log[i])'
    OBVIOUS
  <2> QED
    BY <1>1 DEF EventsInv, OffsetInv, SeenStays
<1>3. ASSUME owner # NoOne
      PROVE  /\ \A i \in 1 .. position[owner] : Seen(Log[i])'
             /\ job'[owner].at # "idle" =>
                   /\ position[owner] < Len(Log)
                   /\ job'[owner].event = Log[position[owner] + 1]
  <2>1. owner \in Consumers /\ owner \in Workers
    BY <1>3 DEF EventsInv, TypeOK, Workers
  <2>2. \A i \in 1 .. position[owner] : Log[i] \in Events
    BY <2>1, ConsumerAssumption DEF EventsInv, TypeOK
  <2>3. ASSUME NEW i \in 1 .. position[owner] PROVE Seen(Log[i])'
    BY <1>3, <2>2 DEF EventsInv, OffsetInv, SeenStays
  <2>4. job'[owner].at # "idle" =>
                   /\ position[owner] < Len(Log)
                   /\ job'[owner].event = Log[position[owner] + 1]
    BY <1>3, <2>1 DEF EventsInv, OffsetInv, Others
  <2> QED
    BY <2>3, <2>4
<1> QED
  BY <1>2, <1>3 DEF OffsetInv

LEMMA Combine ==
    ASSUME EventsInv, TypeOK', Grows, SeenStays, DoneHadEffect', OffsetInv',
           NEW w \in Workers \cup {NoOne}, Others(w),
           w \in Workers => WorkerInv(w)',
           w \in Consumers => ConsumerInv(w)',
           w \in Replayers => ReplayInv(w)',
           \A e \in Events : RowInv(e)'
    PROVE  EventsInv'
<1>1. \A v \in Workers : WorkerInv(v)'
  BY OthersKept
<1>2. \A v \in Consumers : ConsumerInv(v)'
  BY OthersKept DEF Workers
<1>3. \A v \in Replayers : ReplayInv(v)'
  BY OthersKept DEF Workers
<1> QED
  BY <1>1, <1>2, <1>3 DEF EventsInv

-----------------------------------------------------------------------------
(* Claims                                                                  *)

LEMMA AcquireLockStep ==
    ASSUME EventsInv, NEW w \in Workers, AcquireLock(w)
    PROVE  EventsInv'
<1> USE DEF partition, history
<1>1. TypeOK /\ JobsOK /\ job[w] \in Jobs /\ job[w].at = "lock"
  BY DEF EventsInv, TypeOK, JobsOK, AcquireLock
<1> PICK e \in Events : job[w].event = e
  BY <1>1 DEF JobsOK
<1>2. /\ lock' \in [Events -> Workers \cup {NoOne, Orphan}]
      /\ \A x \in Events : lock'[x] = lock[x] \/ x = e
  BY <1>1 DEF AcquireLock, TypeOK
<1>3. PICK place \in {"insert", Skips(w)} :
         /\ Goes(w, place)
         /\ place = "insert" \/ (lock[e] # NoOne /\ lock' = lock)
  BY DEF AcquireLock, Free
<1>4. /\ JobsOK' /\ Others(w) /\ Keeps(w) /\ job'[w].at = place
      /\ job'[w].claimed = job[w].claimed
  BY <1>1, <1>3, GoesTo DEF Skips, Places
<1>5. faults' \in Nat /\ lapses' \in Nat /\ crashes' = crashes
  BY <1>1 DEF AcquireLock, Fault, NoFault, counts, TypeOK
<1>6. TypeOK'
  BY <1>1, <1>2, <1>4, <1>5 DEF AcquireLock, TypeOK, JobsOK
<1>7. Grows
  BY <1>5, RecordGrows DEF AcquireLock
<1>8. SeenStays
  BY <1>1, <1>4, <1>7, SeenKept DEF SeesTo, HasClaimed
<1>9. w \in Consumers => Seen(e)'
  <2>1. CASE place = "insert"
    BY <1>4, <2>1 DEF Seen, SeesTo, Keeps
  <2>2. CASE lock[e] # NoOne
    BY <1>1, <1>8, <2>2 DEF EventsInv, RowInv, SeenStays
  <2> QED
    BY <1>3, <2>1, <2>2
<1>10. w \in Replayers => Recorded(e)'
  BY <1>1, <1>7 DEF EventsInv, ReplayInv, Grows, Recorded
<1>11. WorkerInv(w)' /\ (w \in Consumers => ConsumerInv(w)')
  <2>1. WorkerInv(w)'
    BY <1>3, <1>4 DEF WorkerInv, Skips
  <2>2. ASSUME w \in Consumers PROVE ConsumerInv(w)'
    <3>1. job'[w].event = e /\ job'[w].ok = job[w].ok /\ ConsumerInv(w)
      BY <1>4, <2>2 DEF Keeps, EventsInv
    <3>2. Seen(job[w].event)'
      BY <1>9, <2>2, <3>1 DEF Seen, Recorded
    <3> QED
      BY <1>1, <1>3, <1>4, <2>2, <3>1, <3>2 DEF ConsumerInv, Skips
  <2> QED
    BY <2>1, <2>2
<1>12. w \in Replayers => ReplayInv(w)'
  BY <1>1, <1>3, <1>4 DEF EventsInv, ReplayInv, Keeps, AcquireLock, Skips, Workers
<1>13. \A x \in Events : RowInv(x)'
  <2>1. \A x \in Events : lock'[x] \in {lock[x], NoOne} \/ Seen(x)'
    BY <1>2, <1>9, <1>10 DEF Seen, Workers
  <2>2. ~HasClaimed(w) /\ row' = row
    BY <1>1 DEF HasClaimed, AcquireLock
  <2> QED
    BY <1>4, <1>7, <1>8, <2>1, <2>2, RowsKept
<1>14. DoneHadEffect'
  BY <1>7, DoneKept DEF AcquireLock
<1>15. OffsetInv'
  BY <1>1, <1>4, <1>8, OffsetKept DEF AcquireLock, Keeps
<1> QED
  BY <1>4, <1>6, <1>7, <1>8, <1>11, <1>12, <1>13, <1>14, <1>15, Combine

LEMMA ReadsTo ==
    ASSUME JobsOK, NEW w \in Workers, NEW s \in Statuses, job[w].event \in Events,
           job' = [job EXCEPT ![w].at = "reclaim", ![w].saw = s]
    PROVE  /\ JobsOK' /\ Others(w) /\ Keeps(w)
           /\ job'[w].at = "reclaim" /\ job'[w].saw = s
           /\ job'[w].claimed = job[w].claimed
<1> DEFINE j == [job[w] EXCEPT !.at = "reclaim", !.saw = s]
<1>1. job[w] \in Jobs
  BY DEF JobsOK
<1>2. /\ j \in Jobs /\ j.at = "reclaim" /\ j.event = job[w].event /\ j.ok = job[w].ok
      /\ j.todo = job[w].todo /\ j.entry = job[w].entry /\ j.saw = s
      /\ j.claimed = job[w].claimed
  BY <1>1 DEF Jobs, Places
<1>3. job' = [job EXCEPT ![w] = j]
  BY <1>1 DEF JobsOK
<1> HIDE DEF j
<1>4. JobsOK' /\ Others(w) /\ job'[w] = j
  BY <1>2, <1>3, JobTo
<1> QED
  BY <1>2, <1>4 DEF Keeps

\* What the steps of a claim have in common.
LEMMA Claims ==
    ASSUME EventsInv, NEW w \in Workers, NEW e \in Events, job[w].event = e,
           job[w].at \in {"insert", "read", "reclaim"},
           UNCHANGED <<partition, lock, letters, history>>,
           faults' \in Nat, lapses' \in Nat, crashes' = crashes,
           row' = row \/ (row' = Claimed(w) /\ row[e].status # "completed"),
           \/ HasClaim(w)
           \/ GoesOn(w, GivesUp(w))
           \/ /\ GoesOn(w, Skips(w)) /\ row' = row
              /\ w \in Consumers => Recorded(e) \/ row[e].status = "processing"
           \/ Goes(w, "read") /\ row' = row /\ row[e].status # "none"
           \/ /\ job' = [job EXCEPT ![w].at = "reclaim", ![w].saw = row[e].status]
              /\ row' = row /\ row[e].status \in {"processing", "failed"},
           HasClaim(w) => row' = Claimed(w)
    PROVE  EventsInv'
<1> USE DEF partition, history
<1>1. TypeOK /\ JobsOK /\ job[w] \in Jobs
  BY DEF EventsInv, TypeOK, JobsOK
<1>2. /\ Claimed(w) \in [Events -> [status : Statuses, by : Workers \cup {NoOne}, stale : BOOLEAN]]
      /\ \A x \in Events : x # e => Claimed(w)[x] = row[x]
      /\ Claimed(w)[e].status = "processing" /\ Claimed(w)[e].by = w
  BY <1>1 DEF Claimed, Statuses, TypeOK
<1>3. row[e].status \in Statuses
  BY <1>1 DEF TypeOK
<1> HIDE DEF partition, history
<1> DEFINE Keep == JobsOK' /\ Others(w) /\ Keeps(w)
<1>4. \/ job'[w].at = "handle" /\ row' = Claimed(w)
      \/ job'[w].at = "unlock" /\ job'[w].then = GivesUp(w) /\ job'[w].claimed = job[w].claimed
      \/ /\ job'[w].at = "unlock" /\ job'[w].then = Skips(w) /\ row' = row
         /\ job'[w].claimed = job[w].claimed
         /\ w \in Consumers => Recorded(e) \/ row[e].status = "processing"
      \/ /\ job'[w].at = "read" /\ row' = row /\ row[e].status # "none"
         /\ job'[w].claimed = job[w].claimed
      \/ /\ job'[w].at = "reclaim" /\ job'[w].saw = row[e].status
         /\ row' = row /\ row[e].status \in {"processing", "failed"}
         /\ job'[w].claimed = job[w].claimed
  <2>1. CASE HasClaim(w)
    BY <1>1, <2>1, HasClaimTo
  <2>2. CASE GoesOn(w, GivesUp(w))
    BY <1>1, <2>2, GoesOnTo DEF GivesUp, Places
  <2>3. CASE /\ GoesOn(w, Skips(w)) /\ row' = row
             /\ w \in Consumers => Recorded(e) \/ row[e].status = "processing"
    BY <1>1, <2>3, GoesOnTo DEF Skips, Places
  <2>4. CASE Goes(w, "read") /\ row' = row /\ row[e].status # "none"
    BY <1>1, <2>4, GoesTo DEF Places
  <2>5. CASE /\ job' = [job EXCEPT ![w].at = "reclaim", ![w].saw = row[e].status]
             /\ row' = row /\ row[e].status \in {"processing", "failed"}
    BY <1>1, <1>3, <2>5, ReadsTo
  <2> QED
    BY <2>1, <2>2, <2>3, <2>4, <2>5
<1>5. Keep
  <2>1. CASE HasClaim(w)
    BY <1>1, <2>1, HasClaimTo
  <2>2. CASE GoesOn(w, GivesUp(w)) \/ GoesOn(w, Skips(w))
    BY <1>1, <2>2, GoesOnTo DEF GivesUp, Skips, Places
  <2>4. CASE Goes(w, "read")
    BY <1>1, <2>4, GoesTo DEF Places
  <2>5. CASE job' = [job EXCEPT ![w].at = "reclaim", ![w].saw = row[e].status]
    BY <1>1, <1>3, <2>5, ReadsTo
  <2> QED
    BY <2>1, <2>2, <2>4, <2>5
<1>6. TypeOK'
  BY <1>1, <1>2, <1>5 DEF TypeOK, JobsOK, partition, history
<1>7. Grows
  BY <1>1, <1>2, RecordGrows DEF history
<1>8. SeenStays
  <2>1. ASSUME w \in Consumers PROVE Seen(e)'
    <3>1. CASE job'[w].at \in {"handle", "read", "reclaim"}
      BY <1>5, <2>1, <3>1 DEF Keeps, Seen, SeesTo, HasClaimed
    <3>2. CASE job'[w].at = "unlock" /\ job'[w].then = "final"
      BY <1>5, <2>1, <3>2 DEF Keeps, Seen, SeesTo, HasClaimed
    <3>3. CASE Recorded(e)
      BY <1>7, <3>3 DEF Grows, Seen
    <3>4. CASE row[e].status = "processing" /\ ~Recorded(e)
      <4>1. PICK c \in Consumers : job[c].event = e /\ HasClaimed(c)
        BY <3>4 DEF EventsInv, RowInv
      <4>2. c # w
        BY <4>1 DEF HasClaimed
      <4>3. job'[c] = job[c]
        BY <1>5, <4>2 DEF Others, Workers
      <4>4. (job[c].event = e)' /\ HasClaimed(c)'
        BY <4>1, <4>3 DEF HasClaimed
      <4> QED
        BY <4>4 DEF Seen, SeesTo
    <3> QED
      BY <1>4, <2>1, <3>1, <3>2, <3>3, <3>4 DEF GivesUp
  <2> QED
    BY <1>5, <1>7, <2>1, SeenKept
<1>9. w \in Consumers => Seen(e)'
  <2>1. w \in Consumers => Seen(e)
    BY DEF Seen, SeesTo
  <2> QED
    BY <1>8, <2>1 DEF SeenStays
<1>10. w \in Replayers => Recorded(e)'
  BY <1>7 DEF EventsInv, ReplayInv, Grows, Recorded
<1>11. WorkerInv(w)'
  BY <1>2, <1>4, <1>5 DEF WorkerInv, Keeps
<1>12. ASSUME w \in Consumers PROVE ConsumerInv(w)'
  <2>1. job'[w].event = e /\ job'[w].ok = job[w].ok /\ job[w].ok
    BY <1>5, <1>12 DEF Keeps, EventsInv, ConsumerInv
  <2>2. Seen(job[w].event)'
    BY <1>9, <1>12, <2>1 DEF Seen, Recorded
  <2>3. row[e].status = "failed" => Recorded(e)
    BY DEF EventsInv, RowInv
  <2>4. row[e].status = "failed" => Recorded(job[w].event)'
    BY <1>7, <2>1, <2>3 DEF Grows, Recorded
  <2> QED
    BY <1>2, <1>4, <1>12, <2>1, <2>2, <2>4 DEF ConsumerInv, GivesUp, Skips
<1>13. ASSUME w \in Replayers PROVE ReplayInv(w)'
  <2>1. ReplayInv(w)
    BY <1>13 DEF EventsInv
  <2>2. w \notin Consumers
    BY <1>13, ConsumerAssumption
  <2> QED
    BY <1>4, <1>5, <2>1, <2>2 DEF ReplayInv, Keeps, GivesUp, Skips
<1>14. \A x \in Events : RowInv(x)'
  <2>1. ASSUME w \in Consumers, row' # row
        PROVE  (row[e].by = w /\ job[w].event = e /\ HasClaimed(w))'
    <3>1. row'[e].by = w /\ job'[w].event = e
      BY <1>2, <1>5, <2>1 DEF Keeps
    <3>2. HasClaimed(w)'
      BY <1>4, <2>1 DEF HasClaimed, GivesUp
    <3> QED
      BY <3>1, <3>2
  <2>2. \A x \in Events :
              \/ row'[x].status = row[x].status /\ row'[x].by = row[x].by
              \/ row'[x].status \in {"none", "completed"}
              \/ Recorded(x)'
              \/ /\ row'[x].status = "processing"
                 /\ \E c \in Consumers : (row[x].by = c /\ job[c].event = x /\ HasClaimed(c))'
    BY <1>2, <1>10, <2>1 DEF Workers
  <2>3. ~HasClaimed(w)
    BY DEF HasClaimed
  <2>4. lock' = lock
    OBVIOUS
  <2> QED
    BY <1>5, <1>7, <1>8, <2>2, <2>3, <2>4, RowsKept
<1>15. DoneHadEffect'
  BY <1>2, <1>7, DoneKept DEF history
<1>16. OffsetInv'
  BY <1>1, <1>5, <1>8, OffsetKept DEF Keeps
<1> QED
  BY <1>5, <1>6, <1>7, <1>8, <1>11, <1>12, <1>13, <1>14, <1>15, <1>16, Combine

LEMMA InsertStep ==
    ASSUME EventsInv, NEW w \in Workers, Insert(w)
    PROVE  EventsInv'
<1>1. TypeOK /\ job[w].at = "insert"
  BY DEF EventsInv, Insert
<1> PICK e \in Events : job[w].event = e
  BY <1>1 DEF TypeOK
<1>2. faults' \in Nat /\ lapses' \in Nat /\ crashes' = crashes
  BY <1>1 DEF Insert, ClaimFails, OtherFault, Fault, NoFault, counts, TypeOK
<1>3. row' = row \/ (row' = Claimed(w) /\ row[e].status # "completed")
  BY <1>1 DEF Insert, ClaimFails
<1>4. \/ HasClaim(w) /\ row' = Claimed(w)
      \/ GoesOn(w, GivesUp(w))
      \/ Goes(w, "read") /\ row' = row /\ row[e].status # "none"
  BY <1>1 DEF Insert, ClaimFails
<1>5. HasClaim(w) => row' = Claimed(w)
  <2>1. ASSUME HasClaim(w) PROVE job'[w].at = "handle"
    BY <1>1, <2>1, HasClaimTo DEF TypeOK, JobsOK
  <2>2. ASSUME GoesOn(w, GivesUp(w)) PROVE job'[w].at = "unlock"
    BY <1>1, <2>2, GoesOnTo DEF TypeOK, JobsOK, GivesUp, Places
  <2>3. ASSUME Goes(w, "read") PROVE job'[w].at = "read"
    BY <1>1, <2>3, GoesTo DEF TypeOK, JobsOK, Places
  <2> QED
    BY <1>4, <2>1, <2>2, <2>3
<1> QED
  BY <1>1, <1>2, <1>3, <1>4, <1>5, Claims DEF Insert

LEMMA ReadStep ==
    ASSUME EventsInv, NEW w \in Workers, Read(w)
    PROVE  EventsInv'
<1>1. TypeOK /\ job[w].at = "read"
  BY DEF EventsInv, Read
<1> PICK e \in Events : job[w].event = e
  BY <1>1 DEF TypeOK
<1>2. faults' \in Nat /\ lapses' \in Nat /\ crashes' = crashes
  BY <1>1 DEF Read, ClaimFails, OtherFault, Fault, NoFault, counts, TypeOK
<1>3. row' = row
  BY DEF Read, ClaimFails
<1>4. row[e].status = "completed" => Recorded(e)
  BY DEF Recorded
<1>5. row[e].status \in Statuses /\ row[e].status # "none"
  BY <1>1 DEF TypeOK, EventsInv, WorkerInv
<1>6. \/ GoesOn(w, GivesUp(w))
      \/ /\ GoesOn(w, Skips(w))
         /\ w \in Consumers => Recorded(e) \/ row[e].status = "processing"
      \/ /\ job' = [job EXCEPT ![w].at = "reclaim", ![w].saw = row[e].status]
         /\ row[e].status \in {"processing", "failed"}
  BY <1>4, <1>5 DEF Read, ClaimFails, Taken, Statuses
<1>7. ~HasClaim(w)
  <2>1. ASSUME HasClaim(w) PROVE job'[w].at = "handle"
    BY <1>1, <2>1, HasClaimTo DEF TypeOK, JobsOK
  <2>2. ASSUME GoesOn(w, GivesUp(w)) \/ GoesOn(w, Skips(w)) PROVE job'[w].at = "unlock"
    BY <1>1, <2>2, GoesOnTo DEF TypeOK, JobsOK, GivesUp, Skips, Places
  <2>3. ASSUME job' = [job EXCEPT ![w].at = "reclaim", ![w].saw = row[e].status]
        PROVE  job'[w].at = "reclaim"
    BY <1>1, <1>5, <2>3, ReadsTo DEF TypeOK, JobsOK
  <2> QED
    BY <1>6, <2>1, <2>2, <2>3
<1> QED
  BY <1>1, <1>2, <1>3, <1>6, <1>7, Claims DEF Read

LEMMA ReclaimStep ==
    ASSUME EventsInv, NEW w \in Workers, Reclaim(w)
    PROVE  EventsInv'
<1>1. TypeOK /\ job[w].at = "reclaim"
  BY DEF EventsInv, Reclaim
<1> PICK e \in Events : job[w].event = e
  BY <1>1 DEF TypeOK
<1>2. faults' \in Nat /\ lapses' \in Nat /\ crashes' = crashes
  BY <1>1 DEF Reclaim, ClaimFails, OtherFault, Fault, NoFault, counts, TypeOK
<1>3. /\ job[w].saw \in {"processing", "failed"}
      /\ w \in Consumers /\ job[w].saw = "failed" => Recorded(e)
      /\ row[e].status \in {"processing", "completed", "failed"}
      /\ row[e].status = "failed" => Recorded(e)
  BY <1>1 DEF EventsInv, WorkerInv, ConsumerInv, RowInv, TypeOK, Statuses
<1>4. row' = row \/ (row' = Claimed(w) /\ row[e].status # "completed")
  BY <1>1, <1>3 DEF Reclaim, ClaimFails
<1>5. row[e].status = "completed" => Recorded(e)
  BY DEF Recorded
<1>6. \/ HasClaim(w) /\ row' = Claimed(w)
      \/ GoesOn(w, GivesUp(w))
      \/ /\ GoesOn(w, Skips(w)) /\ row' = row
         /\ w \in Consumers => Recorded(e) \/ row[e].status = "processing"
  BY <1>3, <1>5 DEF Reclaim, ClaimFails
<1>7. HasClaim(w) => row' = Claimed(w)
  <2>1. ASSUME HasClaim(w) PROVE job'[w].at = "handle"
    BY <1>1, <2>1, HasClaimTo DEF TypeOK, JobsOK
  <2>2. ASSUME GoesOn(w, GivesUp(w)) \/ GoesOn(w, Skips(w)) PROVE job'[w].at = "unlock"
    BY <1>1, <2>2, GoesOnTo DEF TypeOK, JobsOK, GivesUp, Skips, Places
  <2> QED
    BY <1>6, <2>1, <2>2
<1> QED
  BY <1>1, <1>2, <1>4, <1>6, <1>7, Claims DEF Reclaim

LEMMA ReleaseLockStep ==
    ASSUME EventsInv, NEW w \in Workers, ReleaseLock(w)
    PROVE  EventsInv'
<1> USE DEF partition, history
<1>1. TypeOK /\ JobsOK /\ job[w] \in Jobs /\ job[w].at = "unlock"
  BY DEF EventsInv, TypeOK, JobsOK, ReleaseLock
<1> PICK e \in Events : job[w].event = e
  BY <1>1 DEF JobsOK
<1>2. /\ lock' \in [Events -> Workers \cup {NoOne, Orphan}]
      /\ \A x \in Events : lock'[x] \in {lock[x], NoOne} \/ lock[x] = w
  BY <1>1, ConsumerAssumption DEF ReleaseLock, TypeOK
<1>3. /\ JobsOK' /\ Others(w) /\ Keeps(w) /\ job'[w].at = job[w].then
      /\ job'[w].claimed = job[w].claimed
  <2> DEFINE j == [job[w] EXCEPT !.at = job[w].then, !.then = "idle"]
  <2>1. /\ j \in Jobs /\ j.at = job[w].then /\ j.event = e /\ j.ok = job[w].ok
        /\ j.todo = job[w].todo /\ j.entry = job[w].entry
        /\ j.claimed = job[w].claimed
    BY <1>1 DEF Jobs, Places
  <2>2. job' = [job EXCEPT ![w] = j]
    BY <1>1 DEF JobsOK, ReleaseLock
  <2> HIDE DEF j
  <2>3. JobsOK' /\ Others(w) /\ job'[w] = j
    BY <1>1, <2>1, <2>2, JobTo
  <2> QED
    BY <2>1, <2>3 DEF Keeps
<1>4. faults' \in Nat /\ lapses' \in Nat /\ crashes' = crashes
  BY <1>1 DEF ReleaseLock, OtherFault, Fault, NoFault, counts, TypeOK
<1>5. TypeOK'
  BY <1>1, <1>2, <1>3, <1>4 DEF ReleaseLock, TypeOK, JobsOK
<1>6. Grows
  BY <1>4, RecordGrows DEF ReleaseLock
<1>7. job'[w].at = "final" \/ ~SeesTo(w)
  BY <1>1, <1>3 DEF SeesTo, HasClaimed
<1>8. w \in Consumers /\ job'[w].at = "final" => Seen(e)'
  BY <1>3 DEF Seen, SeesTo, HasClaimed, Keeps
<1>9. SeenStays
  BY <1>3, <1>6, <1>7, <1>8, SeenKept
<1>10. ASSUME w \in Consumers PROVE ConsumerInv(w)'
  <2>1. job'[w].event = e /\ job'[w].at \in {"done", "final"}
    BY <1>1, <1>3, <1>10 DEF Keeps, EventsInv, ConsumerInv
  <2>2. job'[w].at = "done" => Seen(e)'
    BY <1>1, <1>3, <1>9, <1>10 DEF EventsInv, ConsumerInv, SeenStays
  <2>3. job'[w].at = "done" => Seen(job[w].event)'
    BY <2>1, <2>2 DEF Seen, Recorded
  <2> QED
    BY <2>1, <2>3 DEF ConsumerInv
<1>11. ASSUME w \in Replayers PROVE ReplayInv(w)'
  BY <1>1, <1>3, <1>11 DEF EventsInv, ReplayInv, Keeps, ReleaseLock
<1>12. WorkerInv(w)'
  <2>1. job'[w].at \in {"done", "final", "status", "recount", "next", "idle"}
    BY <1>1, <1>3 DEF EventsInv, ConsumerInv, ReplayInv, Workers
  <2>2. w \in Consumers => job'[w].at # "recount"
    BY <1>1, <1>3 DEF EventsInv, ConsumerInv
  <2>3. w \in Replayers /\ job'[w].at = "recount" => ~job'[w].claimed
    BY <1>1, <1>3 DEF EventsInv, ReplayInv
  <2> QED
    BY <2>1, <2>2, <2>3 DEF WorkerInv, Workers
<1>13. \A x \in Events : RowInv(x)'
  <2>1. \A x \in Events : lock'[x] \in {lock[x], NoOne} \/ Seen(x)'
    <3> SUFFICES ASSUME NEW x \in Events, lock[x] = w PROVE Seen(x)'
      BY <1>2
    <3>1. lock[x] # NoOne
      BY ConsumerAssumption
    <3> QED
      BY <1>9, <3>1 DEF EventsInv, RowInv, SeenStays
  <2>2. HasClaimed(w) => w \notin Consumers \/ (HasClaimed(w)' /\ job'[w].event = e)
    BY <1>1, <1>3 DEF HasClaimed, Keeps
  <2>3. row' = row
    BY DEF ReleaseLock
  <2> QED
    BY <1>3, <1>6, <1>9, <2>1, <2>2, <2>3, RowsKept
<1>14. DoneHadEffect'
  BY <1>6, DoneKept DEF ReleaseLock
<1>15. OffsetInv'
  BY <1>1, <1>3, <1>9, OffsetKept DEF ReleaseLock, Keeps
<1> QED
  BY <1>3, <1>5, <1>6, <1>9, <1>10, <1>11, <1>12, <1>13, <1>14, <1>15, Combine

-----------------------------------------------------------------------------
(* Handlers, letters and marks                                             *)

LEMMA HandleStep ==
    ASSUME EventsInv, NEW w \in Workers, Handle(w)
    PROVE  EventsInv'
<1> USE DEF partition, history
<1>1. TypeOK /\ JobsOK /\ job[w] \in Jobs /\ job[w].at = "handle"
  BY DEF EventsInv, TypeOK, JobsOK, Handle
<1> PICK e \in Events : job[w].event = e
  BY <1>1 DEF JobsOK
<1> DEFINE success == IF w \in Consumers THEN AfterHandlers ELSE "close"
           failure == IF w \in Consumers THEN "store" ELSE "recount"
<1>2. \/ Goes(w, success) /\ effects' = [effects EXCEPT ![e] = @ + 1]
      \/ /\ job' = [job EXCEPT ![w].ok = FALSE, ![w].at = failure]
         /\ effects' \in {effects, [effects EXCEPT ![e] = @ + 1]}
  BY DEF Handle
<1>20. success \in {"mark", "close", "fan"} /\ (success = "fan" => Bus)
  BY DEF AfterHandlers
<1>21. w \in Consumers => success \in {"mark", "fan"}
  BY DEF AfterHandlers
<1>22. w \in Replayers => success = "close"
  BY ConsumerAssumption
<1> HIDE DEF success
<1>3. /\ JobsOK' /\ Others(w) /\ job'[w].event = e
      /\ job'[w].todo = job[w].todo /\ job'[w].entry = job[w].entry
      /\ \/ /\ job'[w].at = success /\ job'[w].ok = job[w].ok
            /\ effects' = [effects EXCEPT ![e] = @ + 1]
         \/ job'[w].at = failure /\ ~job'[w].ok
  <2>1. CASE Goes(w, success) /\ effects' = [effects EXCEPT ![e] = @ + 1]
    BY <1>1, <1>20, <2>1, GoesTo DEF Places, Keeps
  <2>2. CASE job' = [job EXCEPT ![w].ok = FALSE, ![w].at = failure]
    <3> DEFINE j == [job[w] EXCEPT !.ok = FALSE, !.at = failure]
    <3>1. /\ j \in Jobs /\ j.at = failure /\ j.event = e /\ j.ok = FALSE
          /\ j.todo = job[w].todo /\ j.entry = job[w].entry
      BY <1>1 DEF Jobs, Places
    <3>2. job' = [job EXCEPT ![w] = j]
      BY <1>1, <2>2 DEF JobsOK
    <3> HIDE DEF j
    <3>3. JobsOK' /\ Others(w) /\ job'[w] = j
      BY <1>1, <3>1, <3>2, JobTo
    <3> QED
      BY <3>1, <3>3
  <2> QED
    BY <1>2, <2>1, <2>2
<1>4. faults' \in Nat /\ lapses' \in Nat /\ crashes' = crashes
  BY <1>1 DEF Handle, OtherFault, Fault, NoFault, counts, TypeOK
<1>5. /\ effects' \in [Events -> Nat]
      /\ \A x \in Events : effects[x] > 0 => effects'[x] > 0
      /\ job'[w].at = success /\ job'[w].ok => effects'[e] > 0
  <2>1. effects \in [Events -> Nat]
    BY <1>1 DEF TypeOK
  <2>2. effects' \in {effects, [effects EXCEPT ![e] = @ + 1]}
    BY <1>2
  <2>3. job'[w].at = success /\ job'[w].ok => effects' = [effects EXCEPT ![e] = @ + 1]
    BY <1>3
  <2> QED
    BY <2>1, <2>2, <2>3
<1>6. UNCHANGED <<partition, row, lock, letters, dropped, unsent>>
  BY DEF Handle
<1>7. TypeOK'
  BY <1>1, <1>3, <1>4, <1>5, <1>6 DEF TypeOK, JobsOK
<1>8. Grows
  BY <1>4, <1>5, <1>6, RecordGrows
<1>9. w \in Consumers => HasClaimed(w)'
  BY <1>1, <1>3, <1>21 DEF HasClaimed, EventsInv, ConsumerInv
<1>10. w \in Consumers => Seen(e)'
  BY <1>3, <1>9 DEF Seen, SeesTo
<1>11. SeenStays
  BY <1>3, <1>8, <1>10, SeenKept
<1>12. WorkerInv(w)'
  <2>1. job'[w].at = "close" => effects'[e] > 0
    BY <1>2, <1>3, <1>5, <1>1 DEF TypeOK
  <2>2. job'[w].at \in {"fan", "mark"} /\ job'[w].ok => effects'[e] > 0
    BY <1>3, <1>5
  <2>3. row'[e].status # "none"
    BY <1>1, <1>6 DEF EventsInv, WorkerInv
  <2>4. /\ job'[w].at = "store" => ~job'[w].ok
        /\ job'[w].at = "recount" => ~job'[w].ok
        /\ job'[w].at = "fan" => Bus
        /\ job'[w].at # "reclaim"
    BY <1>3, <1>20
  <2> QED
    BY <1>3, <2>1, <2>2, <2>3, <2>4 DEF WorkerInv
<1>13. ASSUME w \in Consumers PROVE ConsumerInv(w)'
  <2>1. row'[e].status # "none" /\ job[w].ok
    BY <1>1, <1>6, <1>13 DEF EventsInv, WorkerInv, ConsumerInv
  <2>2. \/ job'[w].at \in {"mark", "fan"} /\ job'[w].ok
        \/ job'[w].at = "store"
    BY <1>3, <1>13, <1>21, <2>1
  <2> QED
    BY <1>3, <2>1, <2>2 DEF ConsumerInv
<1>14. ASSUME w \in Replayers PROVE ReplayInv(w)'
  BY <1>1, <1>3, <1>6, <1>14, <1>22, ConsumerAssumption DEF EventsInv, ReplayInv
<1>15. \A x \in Events : RowInv(x)'
  BY <1>3, <1>6, <1>8, <1>9, <1>11, RowsKept
<1>16. DoneHadEffect'
  BY <1>6, <1>8, DoneKept
<1>17. OffsetInv'
  BY <1>1, <1>3, <1>6, <1>11, OffsetKept
<1> QED
  BY <1>3, <1>7, <1>8, <1>11, <1>12, <1>13, <1>14, <1>15, <1>16, <1>17, Combine

LEMMA StoreStep ==
    ASSUME EventsInv, NEW c \in Consumers, StoreDeadLetter(c)
    PROVE  EventsInv'
<1> USE DEF partition
<1>1. /\ TypeOK /\ JobsOK /\ c \in Workers /\ job[c] \in Jobs
      /\ job[c].at \in {"store", "final"}
  BY DEF EventsInv, TypeOK, JobsOK, StoreDeadLetter, Workers
<1> PICK e \in Events : job[c].event = e
  BY <1>1 DEF JobsOK
<1> DEFINE place == IF job[c].at = "store" THEN AfterHandlers ELSE "done"
           letter == [event |-> e, status |-> "pending", retries |-> 0]
<1>18. /\ place \in {"mark", "fan", "done"} /\ (place = "fan" => Bus)
       /\ place # "done" => job[c].at = "store"
  BY DEF AfterHandlers
<1> HIDE DEF place
<1>2. /\ JobsOK' /\ Others(c) /\ Keeps(c) /\ job'[c].at = place
  <2>1. Goes(c, place)
    BY DEF StoreDeadLetter, place
  <2> QED
    BY <1>1, <1>18, <2>1, GoesTo DEF Places
<1>3. UNCHANGED <<partition, row, lock, effects, unsent>>
  BY DEF StoreDeadLetter
<1>4. \/ letters' = Append(letters, letter) /\ dropped' = dropped
      \/ letters' = letters /\ dropped' = dropped \cup {e}
  BY DEF StoreDeadLetter
<1>5. faults' \in Nat /\ lapses' \in Nat /\ crashes' = crashes
  BY <1>1 DEF StoreDeadLetter, OtherFault, Fault, NoFault, counts, TypeOK
<1>6. letter \in Letter
  BY DEF Letter
<1>7. /\ letters' \in Seq(Letter) /\ dropped' \subseteq Events
      /\ \A i \in DOMAIN letters : i \in DOMAIN letters' /\ letters'[i] = letters[i]
      /\ \A i \in DOMAIN letters' : i \in DOMAIN letters \/ letters'[i] = letter
      /\ dropped \subseteq dropped'
  <2>1. letters \in Seq(Letter) /\ dropped \subseteq Events
    BY <1>1 DEF TypeOK
  <2> HIDE DEF letter
  <2>2. CASE letters' = Append(letters, letter) /\ dropped' = dropped
    BY <1>6, <2>1, <2>2
  <2>3. CASE letters' = letters /\ dropped' = dropped \cup {e}
    BY <2>1, <2>3
  <2> QED
    BY <1>4, <2>2, <2>3
<1>8. Recorded(e)'
  <2>1. CASE letters' = Append(letters, letter)
    <3>1. Len(letters) + 1 \in DOMAIN letters' /\ letters'[Len(letters) + 1] = letter
      BY <1>1, <1>6, <2>1 DEF TypeOK
    <3> QED
      BY <3>1 DEF Recorded
  <2>2. CASE dropped' = dropped \cup {e}
    BY <2>2 DEF Recorded
  <2> QED
    BY <1>4, <2>1, <2>2
<1>9. TypeOK'
  BY <1>1, <1>2, <1>3, <1>5, <1>7 DEF TypeOK, JobsOK
<1>10. Grows
  BY <1>3, <1>5, <1>7, RecordGrows
<1>11. SeenStays
  BY <1>1, <1>2, <1>8, <1>10, SeenKept DEF Seen
<1>12. WorkerInv(c)'
  BY <1>1, <1>2, <1>3, <1>18 DEF EventsInv, WorkerInv, ConsumerInv, Keeps
<1>13. ConsumerInv(c)'
  <2>1. job'[c].event = e /\ (job'[c].at = "mark" => row[e].status # "none")
    BY <1>1, <1>2, <1>18 DEF EventsInv, ConsumerInv, Keeps
  <2>2. Recorded(job[c].event)' /\ Seen(job[c].event)'
    BY <1>8, <2>1 DEF Recorded, Seen
  <2> QED
    BY <1>2, <1>3, <1>18, <2>1, <2>2 DEF ConsumerInv
<1>14. \A x \in Events : RowInv(x)'
  BY <1>1, <1>3, <1>2, <1>8, <1>10, <1>11, RowsKept
<1>15. DoneHadEffect'
  BY <1>3, <1>7, <1>10, DoneKept
<1>16. OffsetInv'
  BY <1>1, <1>2, <1>3, <1>11, OffsetKept DEF Keeps
<1>17. c \notin Replayers
  BY ConsumerAssumption
<1> QED
  BY <1>1, <1>2, <1>9, <1>10, <1>11, <1>12, <1>13, <1>14, <1>15, <1>16, <1>17, Combine

LEMMA FanOutStep ==
    ASSUME EventsInv, NEW c \in Consumers, FanOut(c)
    PROVE  EventsInv'
<1> USE DEF partition
<1>1. /\ TypeOK /\ JobsOK /\ c \in Workers /\ job[c] \in Jobs /\ job[c].at = "fan"
  BY DEF EventsInv, TypeOK, JobsOK, FanOut, Workers
<1> PICK e \in Events : job[c].event = e
  BY <1>1 DEF JobsOK
<1>2. /\ JobsOK' /\ Others(c) /\ job'[c].at = "mark" /\ job'[c].event = e
      /\ \/ job'[c].ok = job[c].ok /\ unsent' = unsent
         \/ ~job'[c].ok /\ unsent' = unsent \cup {e}
  <2>1. CASE Goes(c, "mark") /\ unsent' = unsent
    BY <1>1, <2>1, GoesTo DEF Places, Keeps
  <2>2. CASE /\ job' = [job EXCEPT ![c].at = "mark", ![c].ok = FALSE]
             /\ unsent' = unsent \cup {e}
    <3> DEFINE j == [job[c] EXCEPT !.at = "mark", !.ok = FALSE]
    <3>1. j \in Jobs /\ j.at = "mark" /\ j.event = e /\ j.ok = FALSE
      BY <1>1 DEF Jobs, Places
    <3>2. job' = [job EXCEPT ![c] = j]
      BY <1>1, <2>2 DEF JobsOK
    <3> HIDE DEF j
    <3>3. JobsOK' /\ Others(c) /\ job'[c] = j
      BY <1>1, <3>1, <3>2, JobTo
    <3> QED
      BY <2>2, <3>1, <3>3
  <2> QED
    BY <2>1, <2>2 DEF FanOut
<1>3. UNCHANGED <<partition, row, lock, letters, effects, dropped>>
  BY DEF FanOut
<1>4. faults' \in Nat /\ lapses' \in Nat /\ crashes' = crashes
  BY <1>1 DEF FanOut, OtherFault, Fault, NoFault, counts, TypeOK
<1>5. TypeOK'
  BY <1>1, <1>2, <1>3, <1>4 DEF TypeOK, JobsOK
<1>6. Grows
  <2>1. unsent \subseteq unsent'
    BY <1>2
  <2> QED
    BY <1>3, <1>4, <2>1, RecordGrows
<1>7. /\ Bus /\ row[e].status # "none"
      /\ job[c].ok => effects[e] > 0
      /\ ~job[c].ok => Recorded(e)
  BY <1>1 DEF EventsInv, WorkerInv, ConsumerInv
\* A failed fan-out is recorded nowhere: the event is one of those unsent.
<1>8. ~job'[c].ok => Recorded(e)'
  <2>1. CASE job[c].ok
    BY <1>2, <1>3, <1>7, <2>1 DEF Recorded
  <2>2. CASE ~job[c].ok
    BY <1>6, <1>7, <2>2 DEF Grows
  <2> QED
    BY <2>1, <2>2
<1>9. HasClaimed(c)' \/ Recorded(e)'
  BY <1>2, <1>8 DEF HasClaimed
<1>10. Seen(e)'
  BY <1>2, <1>9 DEF Seen, SeesTo
<1>11. SeenStays
  BY <1>1, <1>2, <1>6, <1>10, SeenKept
<1>12. WorkerInv(c)'
  BY <1>2, <1>3, <1>7 DEF WorkerInv
<1>13. ConsumerInv(c)'
  BY <1>2, <1>3, <1>7, <1>8 DEF ConsumerInv, Recorded
<1>14. \A x \in Events : RowInv(x)'
  BY <1>1, <1>2, <1>3, <1>6, <1>9, <1>11, RowsKept
<1>15. DoneHadEffect'
  BY <1>3, <1>6, DoneKept
<1>16. OffsetInv'
  BY <1>1, <1>2, <1>3, <1>11, OffsetKept
<1>17. c \notin Replayers
  BY ConsumerAssumption
<1> QED
  BY <1>1, <1>2, <1>5, <1>6, <1>11, <1>12, <1>13, <1>14, <1>15, <1>16, <1>17, Combine

LEMMA MarkStep ==
    ASSUME EventsInv, NEW w \in Workers, Mark(w)
    PROVE  EventsInv'
<1> USE DEF partition, history
<1>1. TypeOK /\ JobsOK /\ job[w] \in Jobs /\ job[w].at = "mark"
  BY DEF EventsInv, TypeOK, JobsOK, Mark
<1> PICK e \in Events : job[w].event = e
  BY <1>1 DEF JobsOK
<1> DEFINE mark == IF row[e].status = "processing" /\ row[e].by = w
                   THEN [row EXCEPT ![e].status = Outcome(w)]
                   ELSE row
<1>2. PICK place \in {AfterMark(w), "final"} :
         /\ GoesOn(w, place)
         /\ w \in Consumers => place \in {"done", "final"}
         /\ w \in Replayers => place \in {"idle", "next"}
         /\ row' \in {row, mark}
         /\ place = "done" => row' = mark
  BY ConsumerAssumption DEF Mark, AfterMark, Workers
<1>3. /\ JobsOK' /\ Others(w) /\ Keeps(w)
      /\ job'[w].at = "unlock" /\ job'[w].then = place
  BY <1>1, <1>2, GoesOnTo DEF AfterMark, Places
<1>4. row \in [Events -> [status : Statuses, by : Workers \cup {NoOne}, stale : BOOLEAN]]
  BY <1>1 DEF TypeOK
<1>5. /\ mark \in [Events -> [status : Statuses, by : Workers \cup {NoOne}, stale : BOOLEAN]]
      /\ \A x \in Events : mark[x].by = row[x].by
      /\ \A x \in Events : mark[x].status = row[x].status \/
             (x = e /\ row[e].status = "processing" /\ mark[e].status = Outcome(w))
      /\ row[e].status = "processing" /\ row[e].by = w => mark[e].status = Outcome(w)
  BY <1>4 DEF Outcome, Statuses
<1> HIDE DEF mark
<1>6. \/ Outcome(w) = "completed" /\ job[w].ok
      \/ Outcome(w) = "failed" /\ ~job[w].ok
  BY DEF Outcome
<1>7. faults' \in Nat /\ lapses' \in Nat /\ crashes' = crashes
  BY <1>1 DEF Mark, OtherFault, Fault, NoFault, counts, TypeOK
<1>8. UNCHANGED <<partition, lock, letters, history>>
  BY DEF Mark
<1>9. TypeOK'
  BY <1>1, <1>2, <1>3, <1>4, <1>5, <1>7, <1>8 DEF TypeOK, JobsOK
<1>10. Grows
  BY <1>2, <1>5, <1>6, <1>7, <1>8, RecordGrows
<1>11. ~job[w].ok => Recorded(e)'
  <2>1. ~job[w].ok => Recorded(e)
    BY <1>1 DEF EventsInv, ConsumerInv, ReplayInv, Recorded, Workers
  <2> QED
    BY <1>10, <2>1 DEF Grows
<1>12. ASSUME w \in Consumers PROVE Seen(e)'
  <2>1. CASE place = "final"
    BY <1>3, <1>12, <2>1 DEF Seen, SeesTo, HasClaimed, Keeps
  <2>2. CASE place = "done"
    <3>1. row' = mark /\ row[e].status # "none" /\ row[e].status \in Statuses
      BY <1>1, <1>2, <1>4, <1>12, <2>2 DEF EventsInv, ConsumerInv
    <3>2. CASE row'[e].status = "completed"
      BY <3>2 DEF Seen, Recorded
    <3>3. CASE row[e].status = "failed"
      BY <1>10, <3>3 DEF EventsInv, RowInv, Grows, Seen
    <3>4. CASE row[e].status = "processing" /\ row[e].by = w
      BY <1>5, <1>6, <1>11, <3>1, <3>2, <3>4 DEF Seen
    <3>5. CASE row[e].status = "processing" /\ row[e].by # w /\ ~Recorded(e)
      <4>1. PICK c \in Consumers : row[e].by = c /\ job[c].event = e /\ HasClaimed(c)
        BY <3>5 DEF EventsInv, RowInv
      <4>2. job'[c] = job[c]
        BY <1>3, <3>5, <4>1 DEF Others, Workers
      <4>3. (job[c].event = e)' /\ HasClaimed(c)'
        BY <4>1, <4>2 DEF HasClaimed
      <4> QED
        BY <4>3 DEF Seen, SeesTo
    <3>6. CASE Recorded(e)
      BY <1>10, <3>6 DEF Grows, Seen
    <3>7. row[e].status = "completed" => Recorded(e)
      BY DEF Recorded
    <3> QED
      BY <3>1, <3>3, <3>4, <3>5, <3>6, <3>7 DEF Statuses
  <2> QED
    BY <1>2, <1>12, <2>1, <2>2
<1>13. SeenStays
  BY <1>3, <1>10, <1>12, SeenKept
<1>14. WorkerInv(w)'
  BY <1>3 DEF WorkerInv
<1>15. ASSUME w \in Consumers PROVE ConsumerInv(w)'
  <2>1. job'[w].event = e
    BY <1>3 DEF Keeps
  <2>2. Seen(job[w].event)'
    BY <1>12, <1>15, <2>1 DEF Seen, Recorded
  <2> QED
    BY <1>2, <1>3, <1>15, <2>2 DEF ConsumerInv
<1>16. ASSUME w \in Replayers PROVE ReplayInv(w)'
  BY <1>1, <1>2, <1>3, <1>8, <1>16 DEF EventsInv, ReplayInv, Keeps
<1>17. \A x \in Events : RowInv(x)'
  <2>1. \A x \in Events :
           \/ row'[x].status = row[x].status /\ row'[x].by = row[x].by
           \/ row'[x].status = "completed" \/ Recorded(x)'
    BY <1>2, <1>5, <1>6, <1>11
  <2>2. w \in Consumers =>
           \/ HasClaimed(w)' /\ job'[w].event = e
           \/ row'[e].status # "processing" \/ row'[e].by # w
    BY <1>2, <1>3, <1>5, <1>6 DEF HasClaimed, Keeps
  <2> QED
    BY <1>3, <1>8, <1>10, <1>13, <2>1, <2>2, RowsKept
<1>18. DoneHadEffect'
  <2>1. job[w].ok => effects[e] > 0
    BY <1>1 DEF EventsInv, WorkerInv
  <2> QED
    BY <1>2, <1>5, <1>6, <1>8, <1>10, <2>1, DoneKept
<1>19. OffsetInv'
  BY <1>1, <1>3, <1>8, <1>13, OffsetKept DEF Keeps
<1> QED
  BY <1>3, <1>9, <1>10, <1>13, <1>14, <1>15, <1>16, <1>17, <1>18, <1>19, Combine

-----------------------------------------------------------------------------
(* replayDeadLetters                                                       *)

\* What the steps of a replay job have in common: no consumer sees a difference.
LEMMA Replays ==
    ASSUME EventsInv, NEW w \in Replayers, JobsOK', Others(w),
           UNCHANGED <<partition, row, lock, history>>,
           letters' \in Seq(Letter),
           \A i \in DOMAIN letters : i \in DOMAIN letters' /\ letters'[i].event = letters[i].event,
           \A i \in DOMAIN letters' : letters'[i].status = "replayed" =>
              \/ i \in DOMAIN letters /\ letters[i].status = "replayed"
              \/ effects'[letters'[i].event] > 0,
           faults' \in Nat, lapses' \in Nat, crashes' = crashes,
           WorkerInv(w)', ReplayInv(w)'
    PROVE  EventsInv'
<1> USE DEF partition, history
<1>1. TypeOK /\ w \in Workers /\ w \notin Consumers
  BY ConsumerAssumption DEF EventsInv, Workers
<1>2. TypeOK'
  BY <1>1 DEF TypeOK, JobsOK
<1>3. Grows
  BY RecordGrows
<1>4. SeenStays
  BY <1>1, <1>3, SeenKept
<1>5. \A e \in Events : RowInv(e)'
  BY <1>1, <1>3, <1>4, RowsKept
<1>6. DoneHadEffect'
  BY <1>3, DoneKept
<1>7. OffsetInv'
  BY <1>1, <1>4, OffsetKept
<1> QED
  BY <1>1, <1>2, <1>3, <1>4, <1>5, <1>6, <1>7, Combine

LEMMA IdleTo ==
    ASSUME JobsOK, NEW w \in Workers, job' = [job EXCEPT ![w] = Idle]
    PROVE  /\ JobsOK' /\ Others(w) /\ job'[w].at = "idle" /\ job'[w].ok
           /\ WorkerInv(w)' /\ ReplayInv(w)'
<1>1. /\ Idle \in Jobs /\ Idle.at = "idle" /\ Idle.ok /\ Idle.todo = {}
  BY DEF Idle, Jobs, Places, Statuses, Entry
<1>2. JobsOK' /\ Others(w) /\ job'[w] = Idle
  BY <1>1, JobTo
<1>3. job'[w].at = "idle" /\ job'[w].ok /\ job'[w].todo = {}
  BY <1>1, <1>2
<1> QED
  BY <1>2, <1>3 DEF WorkerInv, ReplayInv

LEMMA ListPendingStep ==
    ASSUME EventsInv, NEW w \in Replayers, ListPending(w)
    PROVE  EventsInv'
<1>1. TypeOK /\ JobsOK /\ w \in Workers /\ job[w] \in Jobs /\ job[w].at = "idle"
  BY DEF EventsInv, TypeOK, JobsOK, ListPending, Workers
<1> DEFINE todo == {[id |-> i, retries |-> letters[i].retries] : i \in Pending}
           j == [job[w] EXCEPT !.at = "next", !.todo = todo]
<1>2. \A i \in Pending : i \in DOMAIN letters /\ i \in Nat /\ letters[i].retries \in Nat
  <2>1. letters \in Seq(Letter)
    BY <1>1 DEF TypeOK
  <2>2. \A i \in DOMAIN letters : i \in Nat /\ letters[i] \in Letter
    BY <2>1
  <2> QED
    BY <2>2 DEF Pending, Letter
<1>3. todo \subseteq Entry /\ \A t \in todo : t.id \in DOMAIN letters
  BY <1>2 DEF Entry
<1>4. job' = [job EXCEPT ![w] = j]
  BY <1>1 DEF ListPending, JobsOK
<1> HIDE DEF todo
<1>5. j \in Jobs /\ j.at = "next" /\ j.todo = todo
  BY <1>1, <1>3 DEF Jobs, Places
<1> HIDE DEF j
<1>6. JobsOK' /\ Others(w) /\ job'[w].at = "next" /\ job'[w].todo = todo
  BY <1>1, <1>4, <1>5, JobTo
<1>7. UNCHANGED <<partition, row, lock, letters, history, counts>>
  BY DEF ListPending
<1>8. WorkerInv(w)' /\ ReplayInv(w)'
  BY <1>3, <1>6, <1>7 DEF WorkerInv, ReplayInv
<1> QED
  BY <1>1, <1>6, <1>7, <1>8, Replays DEF TypeOK, counts

LEMMA NextLetterStep ==
    ASSUME EventsInv, NEW w \in Replayers, NextLetter(w)
    PROVE  EventsInv'
<1>1. TypeOK /\ JobsOK /\ w \in Workers /\ job[w] \in Jobs /\ job[w].at = "next"
  BY DEF EventsInv, TypeOK, JobsOK, NextLetter, Workers
<1>2. UNCHANGED <<partition, row, lock, letters, history, counts>>
  BY DEF NextLetter
<1>3. JobsOK' /\ Others(w) /\ WorkerInv(w)' /\ ReplayInv(w)'
  <2>1. CASE job' = [job EXCEPT ![w] = Idle]
    BY <1>1, <2>1, IdleTo
  <2>2. ASSUME NEW t \in job[w].todo,
               job' = [job EXCEPT ![w] = [Idle EXCEPT
                         !.at = "lock", !.event = letters[t.id].event,
                         !.todo = job[w].todo \ {t}, !.entry = t]]
        PROVE  JobsOK' /\ Others(w) /\ WorkerInv(w)' /\ ReplayInv(w)'
    <3> DEFINE j == [Idle EXCEPT !.at = "lock", !.event = letters[t.id].event,
                        !.todo = job[w].todo \ {t}, !.entry = t]
    <3>1. t \in Entry /\ t.id \in DOMAIN letters /\ job[w].todo \subseteq Entry
      BY <1>1 DEF EventsInv, ReplayInv, Jobs
    <3>2. letters[t.id].event \in Events
      <4>1. letters \in Seq(Letter)
        BY <1>1 DEF TypeOK
      <4>2. letters[t.id] \in Letter
        BY <3>1, <4>1
      <4> QED
        BY <4>2 DEF Letter
    <3>3. /\ j \in Jobs /\ j.at = "lock" /\ j.event = letters[t.id].event /\ ~j.claimed
          /\ j.todo = job[w].todo \ {t} /\ j.entry = t /\ j.ok
      BY <3>1, <3>2 DEF Idle, Jobs, Places, Statuses
    <3> HIDE DEF j
    <3>4. JobsOK' /\ Others(w) /\ job'[w] = j
      BY <1>1, <2>2, <3>2, <3>3, JobTo DEF j
    <3> QED
      BY <1>2, <3>1, <3>3, <3>4 DEF WorkerInv, ReplayInv, EventsInv
  <2> QED
    BY <2>1, <2>2 DEF NextLetter
<1> QED
  BY <1>1, <1>2, <1>3, Replays DEF TypeOK, counts

LEMMA GetStatusStep ==
    ASSUME EventsInv, NEW w \in Replayers, GetStatus(w)
    PROVE  EventsInv'
<1>1. TypeOK /\ JobsOK /\ w \in Workers /\ job[w] \in Jobs /\ job[w].at = "status"
  BY DEF EventsInv, TypeOK, JobsOK, GetStatus, Workers
<1> PICK e \in Events : job[w].event = e
  BY <1>1 DEF JobsOK
<1>2. UNCHANGED <<partition, row, lock, letters, history>>
  BY DEF GetStatus
<1>3. JobsOK' /\ Others(w) /\ WorkerInv(w)' /\ ReplayInv(w)'
  <2>1. CASE job' = [job EXCEPT ![w] = Idle]
    BY <1>1, <2>1, IdleTo
  <2>2. CASE Goes(w, IF row[e].status = "completed" THEN "close" ELSE "next")
    <3> DEFINE place == IF row[e].status = "completed" THEN "close" ELSE "next"
    <3>1. /\ JobsOK' /\ Others(w) /\ Keeps(w) /\ job'[w].at = place
      BY <1>1, <2>2, GoesTo DEF Places
    <3>2. place = "close" => effects'[e] > 0
      BY <1>2 DEF EventsInv, DoneHadEffect, history
    <3> QED
      BY <1>1, <1>2, <3>1, <3>2 DEF WorkerInv, ReplayInv, EventsInv, Keeps
  <2> QED
    BY <2>1, <2>2 DEF GetStatus
<1>4. faults' \in Nat /\ lapses' \in Nat /\ crashes' = crashes
  BY <1>1 DEF GetStatus, OtherFault, Fault, NoFault, counts, TypeOK
<1>5. \A i \in DOMAIN letters' : letters'[i].status = "replayed" =>
              \/ i \in DOMAIN letters /\ letters[i].status = "replayed"
              \/ effects'[letters'[i].event] > 0
  BY <1>2
<1>6. letters' \in Seq(Letter)
  BY <1>1, <1>2 DEF TypeOK
<1> QED
  BY <1>1, <1>2, <1>3, <1>4, <1>5, <1>6, Replays DEF TypeOK, history

\* A letter that gets another status, or one retry more, is for the same event.
LEMMA LetterTo ==
    ASSUME letters \in Seq(Letter), NEW n \in DOMAIN letters,
           NEW new \in Letter, new.event = letters[n].event,
           letters' \in {letters, [letters EXCEPT ![n] = new]}
    PROVE  /\ letters' \in Seq(Letter) /\ DOMAIN letters' = DOMAIN letters
           /\ \A i \in DOMAIN letters : letters'[i].event = letters[i].event
           /\ \A i \in DOMAIN letters : letters'[i] \in {letters[i], new}
OBVIOUS

LEMMA CloseStep ==
    ASSUME EventsInv, NEW w \in Replayers, Close(w)
    PROVE  EventsInv'
<1>1. TypeOK /\ JobsOK /\ w \in Workers /\ job[w] \in Jobs /\ job[w].at = "close"
  BY DEF EventsInv, TypeOK, JobsOK, Close, Workers
<1> PICK e \in Events : job[w].event = e
  BY <1>1 DEF JobsOK
<1> DEFINE n == job[w].entry.id
           new == [letters[n] EXCEPT !.status = "replayed"]
<1>2. n \in DOMAIN letters /\ letters[n].event = e /\ effects[e] > 0
  BY <1>1 DEF EventsInv, ReplayInv, WorkerInv
<1>3. letters \in Seq(Letter) /\ letters[n] \in Letter
  <2>1. letters \in Seq(Letter)
    BY <1>1 DEF TypeOK
  <2> QED
    BY <1>2, <2>1
<1>4. new \in Letter /\ new.event = letters[n].event
  BY <1>3 DEF Letter
<1>5. letters' \in {letters, [letters EXCEPT ![n] = new]}
  BY <1>3 DEF Close
<1> HIDE DEF new
<1>6. /\ letters' \in Seq(Letter) /\ DOMAIN letters' = DOMAIN letters
      /\ \A i \in DOMAIN letters : letters'[i].event = letters[i].event
      /\ \A i \in DOMAIN letters : letters'[i] = letters[i] \/ i = n
  <2> HIDE DEF n
  <2>1. \A i \in DOMAIN letters : letters'[i] = letters[i] \/ i = n
    BY <1>2, <1>3, <1>5
  <2> QED
    BY <1>2, <1>3, <1>4, <1>5, <2>1, LetterTo
<1>7. UNCHANGED <<partition, row, lock, history>>
  BY DEF Close
<1>8. faults' \in Nat /\ lapses' \in Nat /\ crashes' = crashes
  BY <1>1 DEF Close, OtherFault, Fault, NoFault, counts, TypeOK
<1>9. JobsOK' /\ Others(w) /\ WorkerInv(w)' /\ ReplayInv(w)'
  <2>1. CASE job' = [job EXCEPT ![w] = Idle]
    BY <1>1, <2>1, IdleTo
  <2>2. CASE Goes(w, IF job[w].claimed THEN "mark" ELSE "next")
    <3> DEFINE place == IF job[w].claimed THEN "mark" ELSE "next"
    <3>1. /\ JobsOK' /\ Others(w) /\ Keeps(w) /\ job'[w].at = place
      BY <1>1, <2>2, GoesTo DEF Places
    <3> QED
      BY <1>1, <1>2, <1>6, <1>7, <3>1 DEF WorkerInv, ReplayInv, EventsInv, Keeps, history
  <2>3. CASE job' = [job EXCEPT ![w].at = "recount", ![w].ok = FALSE]
    <3> DEFINE j == [job[w] EXCEPT !.at = "recount", !.ok = FALSE]
    <3>1. /\ j \in Jobs /\ j.at = "recount" /\ j.event = e /\ j.ok = FALSE
          /\ j.todo = job[w].todo /\ j.entry = job[w].entry
      BY <1>1 DEF Jobs, Places
    <3>2. job' = [job EXCEPT ![w] = j]
      BY <1>1, <2>3 DEF JobsOK
    <3> HIDE DEF j
    <3>3. JobsOK' /\ Others(w) /\ job'[w] = j
      BY <1>1, <3>1, <3>2, JobTo
    <3> QED
      BY <1>1, <1>2, <1>6, <3>1, <3>3 DEF WorkerInv, ReplayInv, EventsInv
  <2> QED
    BY <2>1, <2>2, <2>3 DEF Close
<1>10. \A i \in DOMAIN letters' : letters'[i].status = "replayed" =>
              \/ i \in DOMAIN letters /\ letters[i].status = "replayed"
              \/ effects'[letters'[i].event] > 0
  <2> HIDE DEF n
  <2> QED
    BY <1>2, <1>6, <1>7 DEF history
<1> QED
  BY <1>6, <1>7, <1>8, <1>9, <1>10, Replays

LEMMA RecountStep ==
    ASSUME EventsInv, NEW w \in Replayers, Recount(w)
    PROVE  EventsInv'
<1>1. TypeOK /\ JobsOK /\ w \in Workers /\ job[w] \in Jobs /\ job[w].at = "recount"
  BY DEF EventsInv, TypeOK, JobsOK, Recount, Workers
<1> PICK e \in Events : job[w].event = e
  BY <1>1 DEF JobsOK
<1> DEFINE n == job[w].entry.id
           new == IF job[w].entry.retries >= MaxReplays
                  THEN [letters[n] EXCEPT !.status = "failed"]
                  ELSE [letters[n] EXCEPT !.status = "pending", !.retries = letters[n].retries + 1]
<1>2. n \in DOMAIN letters /\ letters[n].event = e
  BY <1>1 DEF EventsInv, ReplayInv
<1>3. letters \in Seq(Letter) /\ letters[n] \in Letter
  <2>1. letters \in Seq(Letter)
    BY <1>1 DEF TypeOK
  <2> QED
    BY <1>2, <2>1
<1>4. new \in Letter /\ new.event = letters[n].event /\ new.status # "replayed"
  <2> DEFINE l == letters[n]
             failed == [l EXCEPT !.status = "failed"]
             again == [l EXCEPT !.status = "pending", !.retries = l.retries + 1]
  <2>1. l \in Letter
    BY <1>3
  <2> HIDE DEF l
  <2>2. failed \in Letter /\ failed.event = l.event /\ failed.status # "replayed"
    BY <2>1 DEF Letter
  <2>3. again \in Letter /\ again.event = l.event /\ again.status # "replayed"
    <3> DEFINE r == l.retries + 1
    <3>1. r \in Nat
      BY <2>1 DEF Letter
    <3> HIDE DEF r
    <3>2. \A a : a = [l EXCEPT !.status = "pending", !.retries = r] =>
             a \in Letter /\ a.event = l.event /\ a.status # "replayed"
      BY <2>1, <3>1 DEF Letter
    <3>3. again = [l EXCEPT !.status = "pending", !.retries = r]
      BY DEF r
    <3> QED
      BY <3>2, <3>3
  <2>4. new = failed \/ new = again
    BY DEF l
  <2> HIDE DEF failed, again, new
  <2> QED
    BY <2>2, <2>3, <2>4 DEF l
<1>5. letters' \in {letters, [letters EXCEPT ![n] = new]}
  <2> DEFINE failed == [letters EXCEPT ![n].status = "failed"]
             again == [letters EXCEPT ![n].status = "pending", ![n].retries = @ + 1]
  <2>1. letters' \in {letters, IF job[w].entry.retries >= MaxReplays THEN failed ELSE again}
    BY DEF Recount
  <2>2. failed = [letters EXCEPT ![n] = [letters[n] EXCEPT !.status = "failed"]]
    BY <1>3
  <2>3. again = [letters EXCEPT ![n] = [letters[n] EXCEPT
                    !.status = "pending", !.retries = letters[n].retries + 1]]
    BY <1>2, <1>3 DEF Letter
  <2> HIDE DEF failed, again
  <2>4. CASE job[w].entry.retries >= MaxReplays
    <3>1. new = [letters[n] EXCEPT !.status = "failed"]
      BY <2>4
    <3> HIDE DEF new
    <3> QED
      BY <2>1, <2>2, <2>4, <3>1
  <2>5. CASE ~(job[w].entry.retries >= MaxReplays)
    <3>1. new = [letters[n] EXCEPT !.status = "pending", !.retries = letters[n].retries + 1]
      BY <1>3, <2>5
    <3> HIDE DEF new
    <3> QED
      BY <2>1, <2>3, <2>5, <3>1
  <2> QED
    BY <2>4, <2>5
<1> HIDE DEF new
<1>6. /\ letters' \in Seq(Letter) /\ DOMAIN letters' = DOMAIN letters
      /\ \A i \in DOMAIN letters : letters'[i].event = letters[i].event
      /\ \A i \in DOMAIN letters : letters'[i] = letters[i] \/ letters'[i].status # "replayed"
  <2> HIDE DEF n
  <2>1. \A i \in DOMAIN letters : letters'[i] \in {letters[i], new}
    BY <1>2, <1>3, <1>4, <1>5, LetterTo
  <2> QED
    BY <1>2, <1>3, <1>4, <1>5, <2>1, LetterTo
<1>7. UNCHANGED <<partition, row, lock, history>>
  BY DEF Recount
<1>8. faults' \in Nat /\ lapses' \in Nat /\ crashes' = crashes
  BY <1>1 DEF Recount, OtherFault, Fault, NoFault, counts, TypeOK
<1>9. JobsOK' /\ Others(w) /\ WorkerInv(w)' /\ ReplayInv(w)'
  <2>1. CASE job' = [job EXCEPT ![w] = Idle]
    BY <1>1, <2>1, IdleTo
  <2>2. CASE Goes(w, IF job[w].claimed THEN "mark" ELSE "next")
    <3> DEFINE place == IF job[w].claimed THEN "mark" ELSE "next"
    <3>1. /\ JobsOK' /\ Others(w) /\ Keeps(w) /\ job'[w].at = place
      BY <1>1, <2>2, GoesTo DEF Places
    <3>2. place = "mark" => ~job[w].ok
      BY <1>1 DEF EventsInv, WorkerInv
    <3> QED
      BY <1>1, <1>2, <1>6, <1>7, <3>1, <3>2 DEF WorkerInv, ReplayInv, EventsInv, Keeps, history
  <2>3. CASE job[w].claimed /\ job' = [job EXCEPT ![w].at = "mark", ![w].quits = TRUE]
    <3> DEFINE j == [job[w] EXCEPT !.at = "mark", !.quits = TRUE]
    <3>1. /\ j \in Jobs /\ j.at = "mark" /\ j.event = e /\ j.ok = job[w].ok
          /\ j.todo = job[w].todo /\ j.entry = job[w].entry
      BY <1>1 DEF Jobs, Places
    <3>2. job' = [job EXCEPT ![w] = j]
      BY <1>1, <2>3 DEF JobsOK
    <3> HIDE DEF j
    <3>3. JobsOK' /\ Others(w) /\ job'[w] = j
      BY <1>1, <3>1, <3>2, JobTo
    <3>4. ~job[w].ok
      BY <1>1, <2>3 DEF EventsInv, WorkerInv
    <3> QED
      BY <1>1, <1>2, <1>6, <3>1, <3>3, <3>4 DEF WorkerInv, ReplayInv, EventsInv
  <2> QED
    BY <2>1, <2>2, <2>3 DEF Recount
<1>10. \A i \in DOMAIN letters' : letters'[i].status = "replayed" =>
              \/ i \in DOMAIN letters /\ letters[i].status = "replayed"
              \/ effects'[letters'[i].event] > 0
  BY <1>6
<1> QED
  BY <1>6, <1>7, <1>8, <1>9, <1>10, Replays

-----------------------------------------------------------------------------
(* The partition                                                           *)

LEMMA DeliverStep ==
    ASSUME EventsInv, NEW c \in Consumers, Deliver(c)
    PROVE  EventsInv'
<1> USE DEF partition, history, counts
<1>1. /\ TypeOK /\ JobsOK /\ c \in Workers /\ c \notin Replayers /\ job[c] \in Jobs
      /\ job[c].at = "idle" /\ owner = c /\ position[c] < Len(Log)
  BY ConsumerAssumption DEF EventsInv, TypeOK, JobsOK, Deliver, Workers
<1>2. position[c] + 1 \in 1 .. Len(Log) /\ Log[position[c] + 1] \in Events
  <2>1. position[c] \in 0 .. Len(Log) /\ Len(Log) \in Nat
    BY <1>1, ConsumerAssumption DEF TypeOK
  <2>2. position[c] + 1 \in 1 .. Len(Log)
    BY <1>1, <2>1
  <2> QED
    BY <2>2, ConsumerAssumption
<1> DEFINE e == Log[position[c] + 1]
           j == [job[c] EXCEPT !.at = "lock", !.event = e]
<1> HIDE DEF e
<1>3. j \in Jobs /\ j.at = "lock" /\ j.event = e /\ j.ok = job[c].ok
  BY <1>1, <1>2 DEF Jobs, Places, e
<1>4. job' = [job EXCEPT ![c] = j]
  BY <1>1 DEF JobsOK, Deliver, e
<1> HIDE DEF j
<1>5. JobsOK' /\ Others(c) /\ job'[c] = j
  BY <1>1, <1>2, <1>3, <1>4, JobTo DEF e
<1>6. UNCHANGED <<partition, row, lock, letters, history, counts>>
  BY DEF Deliver
<1>7. TypeOK'
  BY <1>1, <1>5, <1>6 DEF TypeOK, JobsOK
<1>8. Grows
  BY <1>6, RecordGrows
<1>9. ~SeesTo(c) /\ ~HasClaimed(c)
  BY <1>1 DEF SeesTo, HasClaimed
<1>10. SeenStays
  BY <1>1, <1>5, <1>8, <1>9, SeenKept
<1>11. WorkerInv(c)' /\ ConsumerInv(c)'
  BY <1>1, <1>3, <1>5 DEF EventsInv, WorkerInv, ConsumerInv
<1>12. \A x \in Events : RowInv(x)'
  BY <1>1, <1>5, <1>6, <1>8, <1>9, <1>10, RowsKept
<1>13. DoneHadEffect'
  BY <1>6, <1>8, DoneKept
<1>14. OffsetInv'
  <2>1. \A i \in 1 .. offset : Log[i] \in Events /\ Seen(Log[i])
    BY <1>1, ConsumerAssumption DEF EventsInv, OffsetInv, TypeOK
  <2>2. \A i \in 1 .. position[c] : Log[i] \in Events /\ Seen(Log[i])
    BY <1>1, ConsumerAssumption DEF EventsInv, OffsetInv, TypeOK
  <2>3. (\A i \in 1 .. offset : Seen(Log[i])') /\ (\A i \in 1 .. position[c] : Seen(Log[i])')
    BY <1>10, <2>1, <2>2 DEF SeenStays
  <2> QED
    BY <1>1, <1>3, <1>5, <1>6, <2>3 DEF OffsetInv, e
<1> QED
  BY <1>1, <1>5, <1>7, <1>8, <1>10, <1>11, <1>12, <1>13, <1>14, Combine

LEMMA ResolveStep ==
    ASSUME EventsInv, NEW c \in Consumers, Resolve(c)
    PROVE  EventsInv'
<1> USE DEF history, counts
<1>1. /\ TypeOK /\ JobsOK /\ c \in Workers /\ c \notin Replayers /\ job[c] \in Jobs
      /\ job[c].at = "done"
  BY ConsumerAssumption DEF EventsInv, TypeOK, JobsOK, Resolve, Workers
<1> PICK e \in Events : job[c].event = e
  BY <1>1 DEF JobsOK
<1>2. UNCHANGED <<owner, offset, moves, row, lock, letters, history, counts>>
  BY DEF Resolve
<1>3. JobsOK' /\ Others(c) /\ job'[c].at = "idle" /\ job'[c].ok /\ WorkerInv(c)'
  BY <1>1, IdleTo DEF Resolve
<1>4. Grows
  BY <1>2, RecordGrows
<1>5. ~SeesTo(c) /\ ~HasClaimed(c)
  BY <1>1 DEF SeesTo, HasClaimed
<1>6. SeenStays
  BY <1>1, <1>3, <1>4, <1>5, SeenKept
<1>7. ConsumerInv(c)'
  BY <1>3 DEF ConsumerInv
<1>8. \A x \in Events : RowInv(x)'
  BY <1>1, <1>2, <1>3, <1>4, <1>5, <1>6, RowsKept
<1>9. DoneHadEffect'
  BY <1>2, <1>4, DoneKept
<1>10. Seen(e)'
  BY <1>1, <1>6 DEF EventsInv, ConsumerInv, SeenStays
<1>11. Len(Log) \in Nat /\ \A i \in 1 .. Len(Log) : Log[i] \in Events
  BY ConsumerAssumption
<1>12. \A i \in 1 .. offset : Seen(Log[i])'
  <2>1. \A i \in 1 .. offset : Log[i] \in Events /\ Seen(Log[i])
    BY <1>1, <1>11 DEF EventsInv, OffsetInv, TypeOK
  <2> QED
    BY <1>6, <2>1 DEF SeenStays
<1>13. CASE owner = c
  <2>1. /\ position' = [position EXCEPT ![c] = @ + 1]
        /\ position[c] \in 0 .. Len(Log) /\ position[c] < Len(Log)
        /\ e = Log[position[c] + 1]
        /\ owner # NoOne /\ owner' = c
    BY <1>1, <1>2, <1>13, ConsumerAssumption DEF Resolve, TypeOK, EventsInv, OffsetInv
  <2>2. position' \in [Consumers -> 0 .. Len(Log)] /\ position'[c] = position[c] + 1
    BY <1>1, <1>11, <2>1 DEF TypeOK
  <2>3. TypeOK'
    BY <1>1, <1>2, <1>3, <2>2 DEF TypeOK, JobsOK
  <2>4. \A i \in 1 .. position[c] : Log[i] \in Events /\ Seen(Log[i])
    BY <1>11, <1>13, <2>1 DEF EventsInv, OffsetInv
  <2>5. \A i \in 1 .. position[c] : Seen(Log[i])'
    BY <1>6, <2>4 DEF SeenStays
  <2>6. ASSUME NEW i \in 1 .. position[c] + 1 PROVE Seen(Log[i])'
    <3>1. CASE i \in 1 .. position[c]
      BY <2>5, <3>1
    <3>2. CASE i = position[c] + 1
      BY <1>10, <2>1, <3>2
    <3> QED
      BY <2>1, <3>1, <3>2
  <2>7. OffsetInv'
    BY <1>2, <1>3, <1>12, <2>1, <2>2, <2>6 DEF OffsetInv
  <2> QED
    BY <1>1, <1>3, <1>4, <1>6, <1>7, <1>8, <1>9, <2>3, <2>7, Combine
<1>14. CASE owner # c
  <2>1. position' = position
    BY <1>14 DEF Resolve
  <2>2. TypeOK'
    BY <1>1, <1>2, <1>3, <2>1 DEF TypeOK, JobsOK
  <2>3. ASSUME owner # NoOne
        PROVE  /\ \A i \in 1 .. position[owner] : Seen(Log[i])'
               /\ job'[owner].at # "idle" =>
                     /\ position[owner] < Len(Log)
                     /\ job'[owner].event = Log[position[owner] + 1]
    <3>1. owner \in Consumers /\ position[owner] \in 0 .. Len(Log) /\ job'[owner] = job[owner]
      BY <1>1, <1>3, <1>14, <2>3 DEF TypeOK, Others, Workers
    <3>2. \A i \in 1 .. position[owner] : Log[i] \in Events /\ Seen(Log[i])
      BY <1>11, <2>3, <3>1 DEF EventsInv, OffsetInv
    <3>3. \A i \in 1 .. position[owner] : Seen(Log[i])'
      BY <1>6, <3>2 DEF SeenStays
    <3> QED
      BY <2>3, <3>1, <3>3 DEF EventsInv, OffsetInv
  <2>4. OffsetInv'
    BY <1>2, <1>12, <2>1, <2>3 DEF OffsetInv
  <2> QED
    BY <1>1, <1>3, <1>4, <1>6, <1>7, <1>8, <1>9, <2>2, <2>4, Combine
<1> QED
  BY <1>13, <1>14

\* What a step keeps that changes neither a job nor a letter.
LEMMA JobsAsTheyWere ==
    ASSUME EventsInv, UNCHANGED <<job, letters, history>>, crashes' = crashes,
           TypeOK', OffsetInv',
           \A e \in Events : row'[e].status = row[e].status /\ row'[e].by = row[e].by,
           \A e \in Events : lock'[e] \in {lock[e], NoOne}
    PROVE  EventsInv'
<1> USE DEF history
<1>1. NoOne \notin Workers /\ NoOne \notin Consumers /\ NoOne \notin Replayers
  BY ConsumerAssumption DEF Workers
<1>2. Others(NoOne)
  BY DEF Others
<1>3. Grows
  BY RecordGrows
<1>4. SeenStays
  BY <1>1, <1>2, <1>3, SeenKept
<1>5. \A e \in Events : RowInv(e)'
  BY <1>1, <1>2, <1>3, <1>4, RowsKept
<1>6. DoneHadEffect'
  BY <1>3, DoneKept
<1> QED
  BY <1>1, <1>2, <1>3, <1>4, <1>5, <1>6, Combine

\* Whatever leaves records and jobs alone leaves everything seen that was seen.
LEMMA SeenSame ==
    ASSUME UNCHANGED <<row, letters, job, history>>, crashes' = crashes,
           NEW e \in Events
    PROVE  Seen(e)' <=> Seen(e)
<1>1. Recorded(e)' <=> Recorded(e)
  BY DEF Recorded, history
<1>2. \A c \in Consumers : SeesTo(c)' <=> SeesTo(c)
  BY DEF SeesTo, HasClaimed
<1> QED
  BY <1>1, <1>2 DEF Seen

LEMMA CommitStep ==
    ASSUME EventsInv, NEW c \in Consumers, Commit(c)
    PROVE  EventsInv'
<1> USE DEF history, counts
<1>1. TypeOK /\ owner = c /\ owner # NoOne /\ offset' = position[c]
  BY ConsumerAssumption DEF EventsInv, Commit, Workers
<1>2. UNCHANGED <<owner, position, moves, row, lock, letters, job, history, counts>>
  BY DEF Commit
<1>3. TypeOK'
  BY <1>1, <1>2 DEF TypeOK
<1>4. \A i \in 1 .. position[c] : Log[i] \in Events /\ Seen(Log[i])
  BY <1>1, ConsumerAssumption DEF EventsInv, OffsetInv, TypeOK
<1>5. \A i \in 1 .. position[c] : Seen(Log[i])'
  BY <1>2, <1>4, SeenSame
<1>6. OffsetInv'
  BY <1>1, <1>2, <1>5 DEF EventsInv, OffsetInv
<1> QED
  BY <1>2, <1>3, <1>6, JobsAsTheyWere

LEMMA AssignStep ==
    ASSUME EventsInv, NEW c \in Consumers, Assign(c)
    PROVE  EventsInv'
<1> USE DEF history, counts
<1>1. TypeOK /\ job[c].at = "idle" /\ owner' = c
  BY DEF EventsInv, Assign
<1>2. UNCHANGED <<offset, row, lock, letters, job, history, counts>>
  BY DEF Assign
<1>3. position' \in [Consumers -> 0 .. Len(Log)] /\ position'[c] = offset
  BY <1>1 DEF Assign, TypeOK
<1>4. TypeOK'
  BY <1>1, <1>2, <1>3 DEF TypeOK, Assign
<1>5. \A i \in 1 .. offset : Log[i] \in Events /\ Seen(Log[i])
  BY <1>1, ConsumerAssumption DEF EventsInv, OffsetInv, TypeOK
<1>6. \A i \in 1 .. offset : Seen(Log[i])'
  BY <1>2, <1>5, SeenSame
<1>7. OffsetInv'
  BY <1>1, <1>2, <1>3, <1>6 DEF OffsetInv
<1> QED
  BY <1>2, <1>4, <1>7, JobsAsTheyWere

-----------------------------------------------------------------------------
(* Time and failures                                                       *)

LEMMA OffsetSame ==
    ASSUME EventsInv, UNCHANGED <<partition, job, letters, history>>, crashes' = crashes,
           \A e \in Events : row'[e].status = row[e].status
    PROVE  OffsetInv'
<1> USE DEF partition, history
<1>1. NoOne \notin Workers /\ NoOne \notin Consumers
  BY ConsumerAssumption DEF Workers
<1>2. Others(NoOne)
  BY DEF Others
<1>3. Grows
  BY RecordGrows
<1>4. SeenStays
  BY <1>1, <1>2, <1>3, SeenKept
<1> QED
  BY <1>1, <1>2, <1>4, OffsetKept

LEMMA GrowsStaleStep ==
    ASSUME EventsInv, NEW e \in Events, GrowsStale(e)
    PROVE  EventsInv'
<1> USE DEF history, counts
<1>1. TypeOK
  BY DEF EventsInv
<1>2. UNCHANGED <<partition, lock, letters, job, history, counts>>
  BY DEF GrowsStale
<1>3. /\ row' \in [Events -> [status : Statuses, by : Workers \cup {NoOne}, stale : BOOLEAN]]
      /\ \A x \in Events : row'[x].status = row[x].status /\ row'[x].by = row[x].by
  BY <1>1 DEF GrowsStale, TypeOK
<1>4. TypeOK'
  BY <1>1, <1>2, <1>3 DEF TypeOK, partition
<1>5. OffsetInv'
  BY <1>2, <1>3, OffsetSame
<1> QED
  BY <1>2, <1>3, <1>4, <1>5, JobsAsTheyWere

LEMMA LockGoesStep ==
    ASSUME EventsInv, NEW e \in Events, OrphanExpires(e) \/ LockLapses(e)
    PROVE  EventsInv'
<1> USE DEF history
<1>1. TypeOK
  BY DEF EventsInv
<1>2. UNCHANGED <<partition, row, letters, job, history>>
  BY DEF OrphanExpires, LockLapses
<1>3. lock' = [lock EXCEPT ![e] = NoOne]
  BY DEF OrphanExpires, LockLapses
<1>4. /\ lock' \in [Events -> Workers \cup {NoOne, Orphan}]
      /\ \A x \in Events : lock'[x] \in {lock[x], NoOne}
  BY <1>1, <1>3 DEF TypeOK
<1>5. faults' \in Nat /\ lapses' \in Nat /\ crashes' = crashes
  BY <1>1 DEF OrphanExpires, LockLapses, Fault, counts, TypeOK
<1>6. TypeOK'
  BY <1>1, <1>2, <1>4, <1>5 DEF TypeOK, partition
<1>7. OffsetInv'
  BY <1>2, <1>5, OffsetSame
<1> QED
  BY <1>2, <1>4, <1>5, <1>6, <1>7, JobsAsTheyWere

LEMMA CrashStep ==
    ASSUME EventsInv, NEW w \in Workers, Crash(w)
    PROVE  EventsInv'
<1> USE DEF history
<1>1. TypeOK /\ JobsOK
  BY DEF EventsInv, TypeOK, JobsOK
<1>2. /\ JobsOK' /\ Others(w) /\ job'[w].at = "idle" /\ job'[w].ok
      /\ WorkerInv(w)' /\ ReplayInv(w)'
  BY <1>1, IdleTo DEF Crash
<1>3. UNCHANGED <<offset, position, moves, row, letters, history>>
  BY DEF Crash
<1>4. faults' \in Nat /\ lapses' \in Nat /\ crashes' \in Nat /\ crashes' > 0
  BY <1>1 DEF Crash, Fault, TypeOK
<1>5. lock' \in [Events -> Workers \cup {NoOne, Orphan}] /\ owner' \in {owner, NoOne}
  BY <1>1 DEF Crash, TypeOK
<1>6. TypeOK'
  BY <1>1, <1>2, <1>3, <1>4, <1>5 DEF TypeOK, JobsOK
<1>7. \A x : Recorded(x)' /\ Seen(x)'
  BY <1>4 DEF Recorded, Seen
<1>8. Grows
  BY <1>3, <1>4, RecordGrows
<1>9. SeenStays
  BY <1>7 DEF SeenStays
<1>10. ConsumerInv(w)'
  BY <1>2 DEF ConsumerInv
<1>11. \A x \in Events : RowInv(x)'
  BY <1>7 DEF RowInv
<1>12. DoneHadEffect'
  BY <1>3, <1>8, DoneKept
<1>13. OffsetInv'
  <2>1. \A i \in 1 .. offset' : Seen(Log[i])'
    BY <1>7
  <2>2. ASSUME owner' # NoOne
        PROVE  /\ \A i \in 1 .. position'[owner'] : Seen(Log[i])'
               /\ job'[owner'].at # "idle" =>
                     /\ position'[owner'] < Len(Log)
                     /\ job'[owner'].event = Log[position'[owner'] + 1]
    <3>1. owner' = owner /\ owner \in Consumers /\ owner \in Workers
      BY <1>1, <1>5, <2>2 DEF TypeOK, Workers
    <3>2. \A i \in 1 .. position'[owner'] : Seen(Log[i])'
      BY <1>7
    <3>3. owner = w \/ job'[owner] = job[owner]
      BY <1>2, <3>1 DEF Others
    <3> QED
      BY <1>2, <1>3, <2>2, <3>1, <3>2, <3>3 DEF EventsInv, OffsetInv
  <2> QED
    BY <2>1, <2>2 DEF OffsetInv
<1> QED
  BY <1>2, <1>6, <1>8, <1>9, <1>10, <1>11, <1>12, <1>13, Combine

-----------------------------------------------------------------------------
(* The theorems                                                            *)

LEMMA InitInv == Init => EventsInv
<1> SUFFICES ASSUME Init PROVE EventsInv
  OBVIOUS
<1>1. Len(Log) \in Nat
  BY ConsumerAssumption
<1>2. /\ Idle \in Jobs /\ Idle.at = "idle" /\ Idle.ok /\ Idle.todo = {}
  BY DEF Idle, Jobs, Places, Statuses, Entry
<1>3. job \in [Workers -> Jobs] /\ \A w \in Workers : job[w] = Idle
  BY <1>2 DEF Init
<1> HIDE DEF Idle
<1>4. TypeOK
  <2>1. row \in [Events -> [status : Statuses, by : Workers \cup {NoOne}, stale : BOOLEAN]]
    BY DEF Init, Statuses
  <2>2. letters \in Seq(Letter)
    BY DEF Init
  <2> QED
    BY <1>1, <1>2, <1>3, <2>1, <2>2 DEF Init, TypeOK
<1>5. DoneHadEffect
  BY DEF Init, DoneHadEffect
<1>6. \A w \in Workers : WorkerInv(w)
  BY <1>2, <1>3 DEF WorkerInv
<1>7. \A e \in Events : RowInv(e)
  BY DEF Init, RowInv
<1>8. \A c \in Consumers : ConsumerInv(c)
  BY <1>2, <1>3 DEF ConsumerInv, Workers
<1>9. \A w \in Replayers : ReplayInv(w)
  BY <1>2, <1>3 DEF ReplayInv, Workers
<1>10. OffsetInv
  BY DEF Init, OffsetInv
<1> QED
  BY <1>4, <1>5, <1>6, <1>7, <1>8, <1>9, <1>10 DEF EventsInv

LEMMA StepInv == EventsInv /\ [Next]_vars => EventsInv'
<1> SUFFICES ASSUME EventsInv, [Next]_vars PROVE EventsInv'
  OBVIOUS
<1>1. ASSUME NEW w \in Workers, Step(w) PROVE EventsInv'
  BY <1>1, AcquireLockStep, InsertStep, ReadStep, ReclaimStep, ReleaseLockStep,
     HandleStep, MarkStep DEF Step, ClaimStep
<1>2. ASSUME NEW c \in Consumers, ConsumerStep(c) \/ Assign(c) PROVE EventsInv'
  <2>1. c \in Workers
    BY DEF Workers
  <2> QED
    BY <1>1, <1>2, <2>1, DeliverStep, ResolveStep, CommitStep, StoreStep,
       FanOutStep, AssignStep
    DEF ConsumerStep
<1>3. ASSUME NEW w \in Replayers, ReplayStep(w) PROVE EventsInv'
  <2>1. w \in Workers
    BY DEF Workers
  <2> QED
    BY <1>1, <1>3, <2>1, ListPendingStep, NextLetterStep, GetStatusStep, CloseStep, RecountStep
    DEF ReplayStep
<1>4. ASSUME NEW e \in Events, GrowsStale(e) \/ OrphanExpires(e) \/ LockLapses(e)
      PROVE  EventsInv'
  BY <1>4, GrowsStaleStep, LockGoesStep
<1>5. ASSUME UNCHANGED vars PROVE EventsInv'
  BY <1>5 DEF vars, partition, history, counts, EventsInv, TypeOK, DoneHadEffect, WorkerInv,
     RowInv, ConsumerInv, ReplayInv, OffsetInv, Seen, Recorded, SeesTo, HasClaimed
<1> QED
  BY <1>1, <1>2, <1>3, <1>4, <1>5, CrashStep DEF Next

\* The registry, the letters, the locks and the offsets of the consumers agree in
\* every state: what is recorded as done has had its effect, and every message
\* behind the committed offset is recorded or in the hands of a consumer that will
\* see it recorded (consumeMessages, order.consumer.js, processedEvent.repository.js).
THEOREM Invariance == Spec => []EventsInv
<1> QED
  BY InitInv, StepInv, PTL DEF Spec

\* Committing the offset of a message whose claim was refused, or failed, loses
\* nothing unless a process died or a letter could not be stored; and no more than
\* its fan-out, which no letter keeps, when the EventBus failed
\* (kafka.config.js consumeMessages, claimProcessing, order.consumer.js:218-247).
THEOREM Forgotten == Spec => []NothingForgotten
<1>1. EventsInv => NothingForgotten
  <2> SUFFICES ASSUME EventsInv, NEW i \in 1 .. offset
               PROVE  \/ Recorded(Log[i])
                      \/ \E w \in Workers : job[w].at # "idle" /\ job[w].event = Log[i]
    BY DEF NothingForgotten
  <2>1. Seen(Log[i])
    BY DEF EventsInv, OffsetInv
  <2>2. ASSUME NEW c \in Consumers, job[c].event = Log[i], SeesTo(c)
        PROVE  c \in Workers /\ job[c].at # "idle"
    BY <2>2 DEF SeesTo, HasClaimed, Workers
  <2> QED
    BY <2>1, <2>2 DEF Seen
<1> QED
  BY <1>1, Invariance, PTL

-----------------------------------------------------------------------------
(* Handlers at the same time                                               *)

\* The workers that claim an event, or handle it, without its lock: each has lost
\* it, or went on without one.
Claiming == {"insert", "read", "reclaim", "handle"}
Lockless(e) ==
    {w \in Workers : job[w].at \in Claiming /\ job[w].event = e /\ lock[e] # w}
LocklessInv ==
    \A e \in Events : IsFiniteSet(Lockless(e)) /\ Cardinality(Lockless(e)) <= lapses

\* The others keep their jobs and their locks.
Leaves(w) ==
    /\ Others(w)
    /\ \A e \in Events, v \in Workers : lock[e] = v /\ v # w => lock'[e] = v
\* And w does not begin, or go on, without a lock that it had.
Calm(w) ==
    /\ Leaves(w) /\ lapses' = lapses
    /\ w \in Workers =>
          \/ job'[w].at \notin Claiming
          \/ /\ job[w].at \in Claiming /\ job'[w].event = job[w].event
             /\ lock' = lock
          \/ lock'[job'[w].event] = w

LEMMA OneMoreAtMost ==
    ASSUME NEW w, Leaves(w), NEW e \in Events
    PROVE  Lockless(e)' \subseteq Lockless(e) \cup {w}
BY DEF Leaves, Others, Lockless

LEMMA NoMoreIfCalm ==
    ASSUME NEW w \in Workers \cup {NoOne}, Calm(w), NEW e \in Events
    PROVE  Lockless(e)' \subseteq Lockless(e)
<1>1. NoOne \notin Workers
  BY ConsumerAssumption
<1>2. Lockless(e)' \subseteq Lockless(e) \cup {w}
  BY OneMoreAtMost DEF Calm
<1>3. w \in Lockless(e)' => w \in Lockless(e)
  BY <1>1 DEF Calm, Lockless
<1> QED
  BY <1>2, <1>3

LEMMA PlacesTo ==
    ASSUME TypeOK, NEW w \in Workers, NEW place, Goes(w, place) \/ GoesOn(w, place)
    PROVE  /\ Others(w) /\ job'[w].event = job[w].event
           /\ job'[w].at \in {place, "unlock"}
<1>1. job \in [Workers -> Jobs] /\ job[w] \in Jobs
  BY DEF TypeOK
<1>2. CASE Goes(w, place)
  BY <1>1, <1>2 DEF Goes, Others, Jobs
<1>3. CASE GoesOn(w, place)
  BY <1>1, <1>3 DEF GoesOn, Others, Jobs
<1> QED
  BY <1>2, <1>3

\* The steps of a claim under way, which change no lock.
LEMMA ClaimIsCalm ==
    ASSUME EventsInv, NEW w \in Workers, Insert(w) \/ Read(w) \/ Reclaim(w)
    PROVE  Calm(w)
<1>1. /\ TypeOK /\ job \in [Workers -> Jobs] /\ job[w] \in Jobs
      /\ job[w].at \in Claiming /\ lock' = lock
  BY DEF EventsInv, TypeOK, Insert, Read, Reclaim, Claiming
<1>2. lapses' = lapses
  BY DEF Insert, Read, Reclaim, ClaimFails, OtherFault, NoFault, counts
<1>3. Others(w) /\ job'[w].event = job[w].event
  <2>1. CASE \E place \in {"read", Skips(w), GivesUp(w)} : Goes(w, place) \/ GoesOn(w, place)
    BY <1>1, <2>1, PlacesTo
  <2>2. CASE HasClaim(w)
    BY <1>1, <2>2 DEF HasClaim, Others, Jobs
  <2>3. CASE \E s : job' = [job EXCEPT ![w].at = "reclaim", ![w].saw = s]
    BY <1>1, <2>3 DEF Others, Jobs
  <2> QED
    BY <2>1, <2>2, <2>3 DEF Insert, Read, Reclaim, ClaimFails
<1> QED
  BY <1>1, <1>2, <1>3 DEF Calm, Leaves

\* The other steps of a worker leave it outside the claim.
LEMMA StepIsCalm ==
    ASSUME EventsInv, NEW w \in Workers, Step(w), ~AcquireLock(w)
    PROVE  Calm(w)
<1>1. TypeOK /\ job \in [Workers -> Jobs] /\ job[w] \in Jobs
  BY DEF EventsInv, TypeOK
<1>2. CASE Insert(w) \/ Read(w) \/ Reclaim(w)
  BY <1>2, ClaimIsCalm
<1>3. CASE ReleaseLock(w)
  <2>1. job[w].then \notin Claiming
    BY <1>3 DEF EventsInv, ConsumerInv, ReplayInv, ReleaseLock, Claiming, Workers
  <2>2. Others(w) /\ job'[w].at = job[w].then
    BY <1>1, <1>3 DEF ReleaseLock, Others, Jobs
  <2>3. \A e \in Events, v \in Workers : lock[e] = v /\ v # w => lock'[e] = v
    BY <1>1, <1>3 DEF ReleaseLock, TypeOK
  <2>4. lapses' = lapses
    BY <1>3 DEF ReleaseLock, OtherFault, NoFault, counts
  <2> QED
    BY <2>1, <2>2, <2>3, <2>4 DEF Calm, Leaves
<1>4. CASE Handle(w)
  <2>1. lock' = lock /\ lapses' = lapses
    BY <1>4 DEF Handle, OtherFault, NoFault, counts
  <2>2. PICK place \in {"mark", "fan", "close", "store", "recount"} :
           \/ Goes(w, place)
           \/ job' = [job EXCEPT ![w].ok = FALSE, ![w].at = place]
    BY <1>4 DEF Handle, AfterHandlers
  <2>3. Others(w) /\ job'[w].at \in {place, "unlock"}
    <3>1. CASE Goes(w, place)
      BY <1>1, <3>1, PlacesTo
    <3>2. CASE job' = [job EXCEPT ![w].ok = FALSE, ![w].at = place]
      BY <1>1, <3>2 DEF Others, Jobs
    <3> QED
      BY <2>2, <3>1, <3>2
  <2> QED
    BY <2>1, <2>2, <2>3 DEF Calm, Leaves, Claiming
<1>5. CASE Mark(w)
  <2>1. lock' = lock /\ lapses' = lapses
    BY <1>5 DEF Mark, OtherFault, NoFault, counts
  <2>2. PICK place : GoesOn(w, place)
    BY <1>5 DEF Mark
  <2>3. Others(w) /\ job'[w].at = "unlock"
    BY <1>1, <2>2 DEF GoesOn, Others, Jobs
  <2> QED
    BY <2>1, <2>3 DEF Calm, Leaves, Claiming
<1> QED
  BY <1>2, <1>3, <1>4, <1>5 DEF Step, ClaimStep

LEMMA ConsumerIsCalm ==
    ASSUME EventsInv, NEW c \in Consumers,
           Deliver(c) \/ Resolve(c) \/ StoreDeadLetter(c) \/ FanOut(c)
    PROVE  Calm(c)
<1>1. TypeOK /\ job \in [Workers -> Jobs] /\ job[c] \in Jobs /\ c \in Workers
  BY DEF EventsInv, TypeOK, Workers
<1>2. lock' = lock /\ lapses' = lapses
  BY DEF Deliver, Resolve, StoreDeadLetter, FanOut, OtherFault, NoFault, counts
<1>3. Others(c) /\ job'[c].at \notin Claiming
  <2>1. CASE Deliver(c)
    BY <1>1, <2>1 DEF Deliver, Others, Jobs, Claiming
  <2>2. CASE Resolve(c)
    <3>1. JobsOK
      BY <1>1 DEF TypeOK, JobsOK
    <3> QED
      BY <1>1, <2>2, <3>1, IdleTo DEF Resolve, Claiming
  <2>3. CASE StoreDeadLetter(c)
    <3>1. PICK place \in {"mark", "fan", "done"} : Goes(c, place)
      BY <2>3 DEF StoreDeadLetter, AfterHandlers
    <3> QED
      BY <1>1, <3>1, PlacesTo DEF Claiming
  <2>4. CASE FanOut(c)
    <3>1. CASE Goes(c, "mark")
      BY <1>1, <3>1, PlacesTo DEF Claiming
    <3>2. CASE job' = [job EXCEPT ![c].at = "mark", ![c].ok = FALSE]
      BY <1>1, <3>2 DEF Others, Jobs, Claiming
    <3> QED
      BY <2>4, <3>1, <3>2 DEF FanOut
  <2> QED
    BY <2>1, <2>2, <2>3, <2>4
<1> QED
  BY <1>2, <1>3 DEF Calm, Leaves

LEMMA ReplayIsCalm ==
    ASSUME EventsInv, NEW w \in Replayers,
           ListPending(w) \/ NextLetter(w) \/ GetStatus(w) \/ Close(w) \/ Recount(w)
    PROVE  Calm(w)
<1>1. TypeOK /\ JobsOK /\ job \in [Workers -> Jobs] /\ job[w] \in Jobs /\ w \in Workers
  BY DEF EventsInv, TypeOK, JobsOK, Workers
<1>2. lock' = lock /\ lapses' = lapses
  BY DEF ListPending, NextLetter, GetStatus, Close, Recount, OtherFault, NoFault, counts
<1>3. \/ \E place \in {"close", "next", "mark"} : Goes(w, place)
      \/ job' = [job EXCEPT ![w] = Idle]
      \/ \E todo : job' = [job EXCEPT ![w].at = "next", ![w].todo = todo]
      \/ \E j : job' = [job EXCEPT ![w] = j] /\ j.at = "lock"
      \/ job' = [job EXCEPT ![w].at = "recount", ![w].ok = FALSE]
      \/ job' = [job EXCEPT ![w].at = "mark", ![w].quits = TRUE]
  <2>1. CASE ListPending(w)
    BY <2>1 DEF ListPending
  <2>2. CASE NextLetter(w)
    <3>1. CASE job' = [job EXCEPT ![w] = Idle]
      BY <3>1
    <3>2. ASSUME NEW t \in job[w].todo,
                 job' = [job EXCEPT ![w] = [Idle EXCEPT
                           !.at = "lock", !.event = letters[t.id].event,
                           !.todo = job[w].todo \ {t}, !.entry = t]]
          PROVE  \E j : job' = [job EXCEPT ![w] = j] /\ j.at = "lock"
      <4> DEFINE j == [Idle EXCEPT !.at = "lock", !.event = letters[t.id].event,
                          !.todo = job[w].todo \ {t}, !.entry = t]
      <4>1. j.at = "lock"
        BY DEF Idle
      <4>2. job' = [job EXCEPT ![w] = j]
        BY <3>2
      <4> HIDE DEF j
      <4> QED
        BY <4>1, <4>2
    <3> QED
      BY <2>2, <3>1, <3>2 DEF NextLetter
  <2>3. CASE GetStatus(w)
    BY <2>3 DEF GetStatus
  <2>4. CASE Close(w)
    BY <2>4 DEF Close
  <2>5. CASE Recount(w)
    BY <2>5 DEF Recount
  <2> QED
    BY <2>1, <2>2, <2>3, <2>4, <2>5
<1>4. Others(w) /\ job'[w].at \notin Claiming
  <2>1. CASE \E place \in {"close", "next", "mark"} : Goes(w, place)
    BY <1>1, <2>1, PlacesTo DEF Claiming
  <2>2. CASE job' = [job EXCEPT ![w] = Idle]
    BY <1>1, <2>2, IdleTo DEF Claiming
  <2>3. CASE \E todo : job' = [job EXCEPT ![w].at = "next", ![w].todo = todo]
    BY <1>1, <2>3 DEF Others, Jobs, Claiming
  <2>4. CASE \E j : job' = [job EXCEPT ![w] = j] /\ j.at = "lock"
    BY <1>1, <2>4 DEF Others, Claiming
  <2>5. CASE job' = [job EXCEPT ![w].at = "recount", ![w].ok = FALSE]
    BY <1>1, <2>5 DEF Others, Jobs, Claiming
  <2>6. CASE job' = [job EXCEPT ![w].at = "mark", ![w].quits = TRUE]
    BY <1>1, <2>6 DEF Others, Jobs, Claiming
  <2> QED
    BY <1>3, <2>1, <2>2, <2>3, <2>4, <2>5, <2>6
<1> QED
  BY <1>2, <1>4 DEF Calm, Leaves

LEMMA AcquireIsCalmOrCounts ==
    ASSUME EventsInv, NEW w \in Workers, AcquireLock(w)
    PROVE  Calm(w) \/ (Leaves(w) /\ lapses' = lapses + 1)
<1>1. /\ TypeOK /\ job \in [Workers -> Jobs] /\ job[w] \in Jobs
      /\ job[w].at = "lock" /\ job[w].event \in Events
      /\ lock \in [Events -> Workers \cup {NoOne, Orphan}]
  BY DEF EventsInv, TypeOK, AcquireLock
<1> DEFINE e == job[w].event
<1>2. PICK place \in {"insert", Skips(w)} : Goes(w, place)
  BY DEF AcquireLock
<1>3. Others(w) /\ job'[w].event = e /\ job'[w].at \in {place, "unlock"}
  BY <1>1, <1>2, PlacesTo
<1>4. NoOne \notin Workers
  BY ConsumerAssumption
<1>5. CASE Free(e) /\ lock' = [lock EXCEPT ![e] = w] /\ NoFault
  BY <1>1, <1>3, <1>4, <1>5 DEF Calm, Leaves, Free, NoFault, counts
<1>6. CASE Goes(w, Skips(w)) /\ NoFault /\ lock' = lock
  BY <1>1, <1>6, PlacesTo DEF Calm, Leaves, NoFault, counts, Skips, Claiming
<1>7. CASE /\ lock' \in {lock, [lock EXCEPT ![e] = IF @ = NoOne THEN Orphan ELSE @]}
           /\ lapses' = lapses + 1
  BY <1>1, <1>3, <1>4, <1>7 DEF Leaves
<1> QED
  BY <1>5, <1>6, <1>7 DEF AcquireLock

LEMMA TimeIsCalmOrCounts ==
    ASSUME EventsInv, NEW e \in Events,
           GrowsStale(e) \/ OrphanExpires(e) \/ LockLapses(e)
    PROVE  \/ \E v \in Workers \cup {NoOne} : Calm(v)
           \/ \E v \in Workers \cup {NoOne} : Leaves(v) /\ lapses' = lapses + 1
<1>1. /\ lock \in [Events -> Workers \cup {NoOne, Orphan}]
      /\ NoOne \notin Workers /\ Orphan \notin Workers
  BY ConsumerAssumption DEF EventsInv, TypeOK
<1>2. CASE GrowsStale(e)
  BY <1>1, <1>2 DEF GrowsStale, counts, Calm, Leaves, Others
<1>3. CASE OrphanExpires(e)
  BY <1>1, <1>3 DEF OrphanExpires, counts, Calm, Leaves, Others
<1>4. CASE LockLapses(e)
  BY <1>1, <1>4 DEF LockLapses, Leaves, Others
<1> QED
  BY <1>2, <1>3, <1>4

LEMMA CrashIsCalm ==
    ASSUME EventsInv, NEW w \in Workers, Crash(w)
    PROVE  Calm(w)
<1>1. JobsOK /\ lock \in [Events -> Workers \cup {NoOne, Orphan}]
  BY DEF EventsInv, TypeOK, JobsOK
<1>2. Others(w) /\ job'[w].at = "idle"
  BY <1>1, IdleTo DEF Crash
<1> QED
  BY <1>1, <1>2 DEF Crash, Calm, Leaves, Claiming

LEMMA LocklessStep ==
    EventsInv /\ LocklessInv /\ [Next]_vars => LocklessInv'
<1> SUFFICES ASSUME EventsInv, LocklessInv, [Next]_vars, NEW e \in Events
             PROVE  IsFiniteSet(Lockless(e)') /\ Cardinality(Lockless(e)') <= lapses'
  BY DEF LocklessInv
<1>1. lapses \in Nat
  BY DEF EventsInv, TypeOK
<1>2. IsFiniteSet(Lockless(e)) /\ Cardinality(Lockless(e)) \in Nat
      /\ Cardinality(Lockless(e)) <= lapses
  BY FS_CardinalityType DEF LocklessInv
<1>3. \/ \E v \in Workers \cup {NoOne} : Calm(v)
      \/ \E v \in Workers \cup {NoOne} : Leaves(v) /\ lapses' = lapses + 1
  <2>1. CASE UNCHANGED vars
    BY <2>1, ConsumerAssumption
    DEF vars, partition, history, counts, Calm, Leaves, Others
  <2>2. ASSUME NEW w \in Workers, Step(w)
        PROVE  Calm(w) \/ (Leaves(w) /\ lapses' = lapses + 1)
    BY <2>2, StepIsCalm, AcquireIsCalmOrCounts
  <2>3. ASSUME NEW c \in Consumers, Commit(c) \/ Assign(c) PROVE Calm(NoOne)
    BY <2>3, ConsumerAssumption DEF Commit, Assign, counts, Calm, Leaves, Others
  <2>4. ASSUME NEW c \in Consumers, ConsumerStep(c) \/ Assign(c)
        PROVE  \/ \E v \in Workers \cup {NoOne} : Calm(v)
               \/ \E v \in Workers \cup {NoOne} : Leaves(v) /\ lapses' = lapses + 1
    BY <2>2, <2>3, <2>4, ConsumerIsCalm DEF ConsumerStep, Workers
  <2>5. ASSUME NEW w \in Replayers, ReplayStep(w)
        PROVE  Calm(w) \/ (Leaves(w) /\ lapses' = lapses + 1)
    BY <2>2, <2>5, ReplayIsCalm DEF ReplayStep, Workers
  <2>6. ASSUME NEW x \in Events, GrowsStale(x) \/ OrphanExpires(x) \/ LockLapses(x)
        PROVE  \/ \E v \in Workers \cup {NoOne} : Calm(v)
               \/ \E v \in Workers \cup {NoOne} : Leaves(v) /\ lapses' = lapses + 1
    BY <2>6, TimeIsCalmOrCounts
  <2>7. ASSUME NEW w \in Workers, Crash(w)
        PROVE  Calm(w)
    BY <2>7, CrashIsCalm
  <2> QED
    BY <2>1, <2>4, <2>5, <2>6, <2>7 DEF Next, Workers
<1>4. CASE \E v \in Workers \cup {NoOne} : Calm(v)
  <2>1. Lockless(e)' \subseteq Lockless(e) /\ lapses' = lapses
    BY <1>4, NoMoreIfCalm DEF Calm
  <2>2. IsFiniteSet(Lockless(e)') /\ Cardinality(Lockless(e)') <= Cardinality(Lockless(e))
    BY <1>2, <2>1, FS_Subset
  <2>3. Cardinality(Lockless(e)') \in Nat
    BY <2>2, FS_CardinalityType
  <2> QED
    BY <1>1, <1>2, <2>1, <2>2, <2>3
<1>5. ASSUME NEW v \in Workers \cup {NoOne}, Leaves(v), lapses' = lapses + 1
      PROVE  IsFiniteSet(Lockless(e)') /\ Cardinality(Lockless(e)') <= lapses'
  <2>1. Lockless(e)' \subseteq Lockless(e) \cup {v}
    BY <1>5, OneMoreAtMost
  <2>2. /\ IsFiniteSet(Lockless(e) \cup {v})
        /\ Cardinality(Lockless(e) \cup {v}) <= Cardinality(Lockless(e)) + 1
        /\ Cardinality(Lockless(e) \cup {v}) \in Nat
    BY <1>2, FS_AddElement, FS_CardinalityType
  <2>3. /\ IsFiniteSet(Lockless(e)')
        /\ Cardinality(Lockless(e)') <= Cardinality(Lockless(e) \cup {v})
    BY <2>1, <2>2, FS_Subset
  <2>4. Cardinality(Lockless(e)') \in Nat
    BY <2>3, FS_CardinalityType
  <2> QED
    BY <1>1, <1>2, <1>5, <2>2, <2>3, <2>4
<1> QED
  BY <1>3, <1>4, <1>5

\* claimProcessing lets two handlers of an event run at once only for a lock that
\* was lost, or that was not to be had.
THEOREM Handlings == Spec => []HandlersNeedLapses
<1>1. Init => LocklessInv
  <2> SUFFICES ASSUME Init, NEW e \in Events
               PROVE  IsFiniteSet(Lockless(e)) /\ Cardinality(Lockless(e)) <= lapses
    BY DEF LocklessInv
  <2>1. \A w \in Workers : job[w].at = "idle"
    BY DEF Init, Idle
  <2>2. Lockless(e) = {}
    BY <2>1 DEF Lockless, Claiming
  <2> QED
    BY <2>2, FS_EmptySet DEF Init
<1>2. EventsInv /\ LocklessInv => HandlersNeedLapses
  <2> SUFFICES ASSUME EventsInv, LocklessInv, NEW e \in Events
               PROVE  Cardinality(Handlers(e)) <= 1 + lapses
    BY DEF HandlersNeedLapses
  <2>1. lapses \in Nat
    BY DEF EventsInv, TypeOK
  <2>2. /\ IsFiniteSet(Lockless(e)) /\ Cardinality(Lockless(e)) \in Nat
        /\ Cardinality(Lockless(e)) <= lapses
    BY FS_CardinalityType DEF LocklessInv
  <2>3. ASSUME NEW w
        PROVE  /\ IsFiniteSet(Lockless(e) \cup {w})
               /\ Cardinality(Lockless(e) \cup {w}) <= Cardinality(Lockless(e)) + 1
               /\ Cardinality(Lockless(e) \cup {w}) \in Nat
    BY <2>2, FS_AddElement, FS_CardinalityType
  <2>4. Handlers(e) \subseteq Lockless(e) \cup {lock[e]}
    BY DEF Handlers, Lockless, Claiming
  <2>5. /\ IsFiniteSet(Handlers(e))
        /\ Cardinality(Handlers(e)) <= Cardinality(Lockless(e) \cup {lock[e]})
    BY <2>3, <2>4, FS_Subset
  <2>6. Cardinality(Handlers(e)) \in Nat
    BY <2>5, FS_CardinalityType
  <2> QED
    BY <2>1, <2>2, <2>3, <2>5, <2>6
<1> QED
  BY <1>1, <1>2, Invariance, LocklessStep, PTL DEF Spec

-----------------------------------------------------------------------------
(* What an event has been charged with                                     *)

\* The claim of e is in the hands of the worker the row names, which has the lock
\* and will record the effect of its handlers, if they have one.
Held(e) ==
    LET x == row[e].by IN
    /\ row[e].status = "processing" /\ x \in Workers
    /\ job[x].event = e /\ job[x].claimed /\ lock[e] = x
    /\ job[x].at = "handle" \/ (job[x].at \in {"close", "fan", "mark"} /\ job[x].ok)

\* One effect more may come of an event that nobody holds, and that is not done;
\* and two of a worker that claims it without its lock.
Open(e) == IF row[e].status = "completed" \/ Held(e) THEN 0 ELSE 1
Takers(e) ==
    {w \in Workers : /\ job[w].at \in {"insert", "read", "reclaim"}
                     /\ job[w].event = e /\ lock[e] # w}

Charged(e) ==
    effects[e] + Cardinality(Handlers(e)) + Open(e) + 2 * Cardinality(Takers(e))
ChargeInv ==
    \A e \in Events :
        /\ IsFiniteSet(Handlers(e)) /\ IsFiniteSet(Takers(e))
        /\ Charged(e) <= 1 + faults + lapses

\* What w has a part in; a step of w pays if that grows by its faults at most.
In(w, S) == IF w \in S THEN 1 ELSE 0
Part(w, e) == effects[e] + In(w, Handlers(e)) + Open(e) + 2 * In(w, Takers(e))
Pays(w, e) == Part(w, e)' + faults + lapses <= Part(w, e) + faults' + lapses'

LEMMA OneChanges ==
    ASSUME NEW S, IsFiniteSet(S), NEW w, NEW T, T \subseteq S \cup {w}
    PROVE  /\ IsFiniteSet(T) /\ Cardinality(T) \in Nat /\ Cardinality(S) \in Nat
           /\ Cardinality(T) + In(w, S) <= Cardinality(S) + In(w, T)
<1>1. IsFiniteSet(T)
  BY FS_AddElement, FS_Subset
<1>2. T \ {w} \subseteq S \ {w}
  OBVIOUS
<1>3. IsFiniteSet(S \ {w}) /\ Cardinality(S \ {w}) = Cardinality(S) - In(w, S)
  BY FS_RemoveElement, FS_CardinalityType DEF In
<1>4. IsFiniteSet(T \ {w}) /\ Cardinality(T \ {w}) = Cardinality(T) - In(w, T)
  BY <1>1, FS_RemoveElement, FS_CardinalityType DEF In
<1>5. Cardinality(T \ {w}) <= Cardinality(S \ {w})
  BY <1>2, <1>3, FS_Subset
<1> QED
  BY <1>1, <1>3, <1>4, <1>5, FS_CardinalityType DEF In

LEMMA PaidFor ==
    ASSUME TypeOK, TypeOK', ChargeInv, NEW w, Leaves(w), NEW e \in Events, Pays(w, e)
    PROVE  /\ IsFiniteSet(Handlers(e)') /\ IsFiniteSet(Takers(e)')
           /\ Charged(e)' <= 1 + faults' + lapses'
<1> DEFINE H == Handlers(e)
           N == Takers(e)
<1>1. H' \subseteq H \cup {w} /\ N' \subseteq N \cup {w}
  BY DEF Leaves, Others, Handlers, Takers
<1>2. IsFiniteSet(H) /\ IsFiniteSet(N) /\ Charged(e) <= 1 + faults + lapses
  BY DEF ChargeInv
<1>3. /\ IsFiniteSet(H') /\ Cardinality(H') \in Nat /\ Cardinality(H) \in Nat
      /\ Cardinality(H') + In(w, H) <= Cardinality(H) + In(w, H')
  BY <1>1, <1>2, OneChanges
<1>4. /\ IsFiniteSet(N') /\ Cardinality(N') \in Nat /\ Cardinality(N) \in Nat
      /\ Cardinality(N') + In(w, N) <= Cardinality(N) + In(w, N')
  BY <1>1, <1>2, OneChanges
<1>5. /\ effects[e] \in Nat /\ effects'[e] \in Nat
      /\ faults \in Nat /\ lapses \in Nat /\ faults' \in Nat /\ lapses' \in Nat
  BY DEF TypeOK
<1>6. Open(e) \in Nat /\ Open(e)' \in Nat
  BY DEF Open
<1>7. /\ In(w, H) \in Nat /\ In(w, N) \in Nat
      /\ In(w, H') \in Nat /\ In(w, N') \in Nat
  BY DEF In
<1>8. Charged(e) = effects[e] + Cardinality(H) + Open(e) + 2 * Cardinality(N)
  BY DEF Charged
<1>9. Charged(e)' = effects'[e] + Cardinality(H') + Open(e)' + 2 * Cardinality(N')
  BY DEF Charged
<1>10. /\ Part(w, e) = effects[e] + In(w, H) + Open(e) + 2 * In(w, N)
       /\ Part(w, e)' = effects'[e] + In(w, H') + Open(e)' + 2 * In(w, N')
  BY DEF Part, In
<1>11. Part(w, e)' + faults + lapses <= Part(w, e) + faults' + lapses'
  BY DEF Pays
<1> HIDE DEF H, N
<1> QED
  BY <1>2, <1>3, <1>4, <1>5, <1>6, <1>7, <1>8, <1>9, <1>10, <1>11 DEF H, N

LEMMA HeldByOther ==
    ASSUME NEW w, Leaves(w), NEW e \in Events, Held(e), row[e].by # w,
           row'[e].status = row[e].status, row'[e].by = row[e].by
    PROVE  Held(e)'
<1> DEFINE x == row[e].by
<1>1. /\ row[e].status = "processing" /\ x \in Workers
      /\ job[x].event = e /\ job[x].claimed /\ lock[e] = x
      /\ job[x].at = "handle" \/ (job[x].at \in {"close", "fan", "mark"} /\ job[x].ok)
  BY DEF Held
<1>2. job'[x] = job[x] /\ lock'[e] = x
  BY <1>1 DEF Leaves, Others
<1> QED
  BY <1>1, <1>2 DEF Held

\* A step that neither begins, nor ends, nor follows handlers, and takes up no
\* claim without its lock.
LEMMA Away ==
    ASSUME TypeOK, NEW w \in Workers \cup {NoOne}, Calm(w),
           w \in Workers => /\ job[w].at \notin {"handle", "close", "fan", "mark"}
                            /\ job'[w].at # "handle",
           NEW e \in Events, row'[e].status = row[e].status, row'[e].by = row[e].by,
           effects'[e] = effects[e], faults' \in {faults, faults + 1}
    PROVE  Pays(w, e)
<1>1. NoOne \notin Workers
  BY ConsumerAssumption
<1>2. w \notin Handlers(e) /\ w \notin Handlers(e)'
  BY <1>1 DEF Handlers
<1>3. w \in Takers(e)' => w \in Takers(e)
  BY <1>1 DEF Calm, Claiming, Takers
<1>4. Held(e) => Held(e)'
  <2>1. ASSUME Held(e) PROVE row[e].by # w
    BY <2>1 DEF Held
  <2> QED
    BY <2>1, HeldByOther DEF Calm
<1>5. Open(e) \in {0, 1} /\ Open(e)' \in {0, 1} /\ Open(e)' <= Open(e)
  BY <1>4 DEF Open
<1>6. In(w, Handlers(e)) = 0 /\ In(w, Handlers(e))' = 0
  BY <1>2 DEF In
<1>7. /\ In(w, Takers(e)) \in {0, 1} /\ In(w, Takers(e))' \in {0, 1}
      /\ In(w, Takers(e))' <= In(w, Takers(e))
  BY <1>3 DEF In
<1>8. effects[e] \in Nat /\ faults \in Nat /\ lapses \in Nat /\ lapses' = lapses
  BY DEF TypeOK, Calm
<1> QED
  BY <1>5, <1>6, <1>7, <1>8 DEF Pays, Part

\* A step of w about another event.
LEMMA Elsewhere ==
    ASSUME TypeOK, NEW w \in Workers, Leaves(w), NEW e \in Events,
           job[w].event # e, job'[w].event = job[w].event,
           row'[e] = row[e], effects'[e] = effects[e],
           faults' \in {faults, faults + 1}, lapses' \in {lapses, lapses + 1}
    PROVE  Pays(w, e)
<1>1. /\ w \notin Handlers(e) /\ w \notin Handlers(e)'
      /\ w \notin Takers(e) /\ w \notin Takers(e)'
  BY DEF Handlers, Takers
<1>2. Held(e) => Held(e)'
  <2>1. ASSUME Held(e) PROVE row[e].by # w
    BY <2>1 DEF Held
  <2> QED
    BY <2>1, HeldByOther
<1>3. Open(e) \in {0, 1} /\ Open(e)' \in {0, 1} /\ Open(e)' <= Open(e)
  BY <1>2 DEF Open
<1>4. /\ In(w, Handlers(e)) = 0 /\ In(w, Handlers(e))' = 0
      /\ In(w, Takers(e)) = 0 /\ In(w, Takers(e))' = 0
  BY <1>1 DEF In
<1>5. effects[e] \in Nat /\ faults \in Nat /\ lapses \in Nat
  BY DEF TypeOK
<1> QED
  BY <1>3, <1>4, <1>5 DEF Pays, Part

\* Part(w, e) and what its steps are counted in.
LEMMA PartType ==
    ASSUME TypeOK, TypeOK', NEW w, NEW e \in Events
    PROVE  /\ Open(e) \in {0, 1} /\ Open(e)' \in {0, 1}
           /\ In(w, Handlers(e)) \in {0, 1} /\ In(w, Handlers(e))' \in {0, 1}
           /\ In(w, Takers(e)) \in {0, 1} /\ In(w, Takers(e))' \in {0, 1}
           /\ effects[e] \in Nat /\ effects'[e] \in Nat
           /\ faults \in Nat /\ faults' \in Nat /\ lapses \in Nat /\ lapses' \in Nat
BY DEF TypeOK, Open, In

LEMMA AcquirePays ==
    ASSUME EventsInv, TypeOK', NEW w \in Workers, AcquireLock(w), NEW e \in Events
    PROVE  Pays(w, e)
<1> USE DEF history
<1>1. /\ TypeOK /\ job \in [Workers -> Jobs] /\ job[w] \in Jobs /\ job[w].at = "lock"
      /\ UNCHANGED <<row, effects>>
  BY DEF EventsInv, TypeOK, AcquireLock
<1>2. PICK place \in {"insert", Skips(w)} : Goes(w, place)
  BY DEF AcquireLock
<1>3. job'[w].at # "handle"
  BY <1>1, <1>2, PlacesTo DEF Skips
<1>4. CASE Calm(w)
  <2>1. faults' \in {faults, faults + 1}
    BY DEF AcquireLock, Fault, NoFault, counts
  <2> QED
    BY <1>1, <1>3, <1>4, <2>1, Away
<1>5. CASE lapses' = lapses + 1 /\ faults' = faults + 1 /\ Leaves(w)
  <2>1. w \notin Handlers(e) /\ w \notin Handlers(e)'
    BY <1>1, <1>3 DEF Handlers
  <2>2. Held(e) => Held(e)'
    <3>1. ASSUME Held(e) PROVE row[e].by # w
      BY <1>1, <3>1 DEF Held
    <3> QED
      BY <1>1, <1>5, <3>1, HeldByOther
  <2>3. Open(e)' <= Open(e)
    BY <1>1, <2>2 DEF Open
  <2>4. In(w, Handlers(e)) = 0 /\ In(w, Handlers(e))' = 0
    BY <2>1 DEF In
  <2> QED
    BY <1>1, <1>5, <2>3, <2>4, PartType DEF Pays, Part
<1>6. Calm(w) \/ (lapses' = lapses + 1 /\ faults' = faults + 1 /\ Leaves(w))
  <2>1. lapses' = lapses + 1 => faults' = faults + 1
    BY <1>1 DEF AcquireLock, Fault, NoFault, counts, TypeOK
  <2> QED
    BY <2>1, AcquireIsCalmOrCounts
<1> QED
  BY <1>4, <1>5, <1>6

\* The steps of a claim that make it, or may have made it, or do not.
LEMMA ClaimPays ==
    ASSUME EventsInv, TypeOK', NEW w \in Workers, Insert(w) \/ Read(w) \/ Reclaim(w),
           NEW e \in Events
    PROVE  Pays(w, e)
<1> USE DEF history
<1>1. /\ TypeOK /\ job \in [Workers -> Jobs] /\ job[w] \in Jobs
      /\ job[w].at \in {"insert", "read", "reclaim"} /\ job[w].event \in Events
      /\ lock' = lock /\ UNCHANGED effects
      /\ row \in [Events -> [status : Statuses, by : Workers \cup {NoOne}, stale : BOOLEAN]]
  BY DEF EventsInv, TypeOK, Insert, Read, Reclaim
<1>2. Calm(w) /\ lapses' = lapses
  BY ClaimIsCalm DEF Calm
<1>3. faults' \in {faults, faults + 1}
  BY DEF Insert, Read, Reclaim, ClaimFails, OtherFault, Fault, NoFault, counts
<1>4. job'[w].event = job[w].event /\ Others(w)
  <2>1. CASE \E place \in {"read", Skips(w), GivesUp(w)} : Goes(w, place) \/ GoesOn(w, place)
    BY <1>1, <2>1, PlacesTo
  <2>2. CASE HasClaim(w)
    BY <1>1, <2>2 DEF HasClaim, Others, Jobs
  <2>3. CASE \E s : job' = [job EXCEPT ![w].at = "reclaim", ![w].saw = s]
    BY <1>1, <2>3 DEF Others, Jobs
  <2> QED
    BY <2>1, <2>2, <2>3 DEF Insert, Read, Reclaim, ClaimFails
<1>5. \/ row' = row /\ job'[w].at # "handle"
      \/ /\ row' = Claimed(w) /\ row[job[w].event].status # "completed"
         /\ \/ job'[w].at = "handle" /\ job'[w].claimed
            \/ job'[w].at = "unlock"
  <2>1. HasClaim(w) => job'[w].at = "handle" /\ job'[w].claimed
    BY <1>1 DEF HasClaim, Jobs
  <2>2. GoesOn(w, Skips(w)) \/ GoesOn(w, GivesUp(w)) => job'[w].at = "unlock"
    BY <1>1 DEF GoesOn, Jobs
  <2>3. Goes(w, "read") => job'[w].at = "read"
    BY <1>1 DEF Goes, Jobs
  <2>4. ASSUME NEW s, job' = [job EXCEPT ![w].at = "reclaim", ![w].saw = s]
        PROVE  job'[w].at = "reclaim"
    BY <1>1, <2>4 DEF Jobs
  <2>5. CASE Insert(w)
    BY <2>1, <2>2, <2>3, <2>5 DEF Insert, ClaimFails
  <2>6. CASE Read(w)
    BY <2>2, <2>4, <2>6 DEF Read, ClaimFails
  <2>7. CASE Reclaim(w)
    <3>1. job[w].saw \in {"processing", "failed"}
      BY <2>7 DEF EventsInv, WorkerInv, Reclaim
    <3> QED
      BY <2>1, <2>2, <2>7, <3>1 DEF Reclaim, ClaimFails
  <2> QED
    BY <2>5, <2>6, <2>7
<1>6. CASE row' = row /\ job'[w].at # "handle"
  BY <1>1, <1>2, <1>3, <1>6, Away
<1>7. CASE job[w].event # e
  <2>1. row' = row \/ row' = Claimed(w)
    BY <1>5
  <2>2. row'[e] = row[e]
    BY <1>1, <1>7, <2>1 DEF Claimed
  <2> QED
    BY <1>1, <1>2, <1>3, <1>4, <1>7, <2>2, Elsewhere DEF Calm
<1>8. CASE /\ job[w].event = e
           /\ row' = Claimed(w) /\ row[e].status # "completed"
           /\ \/ job'[w].at = "handle" /\ job'[w].claimed
              \/ job'[w].at = "unlock"
  <2>1. row'[e].status = "processing" /\ row'[e].by = w
    BY <1>1, <1>8 DEF Claimed
  <2>2. w \notin Handlers(e) /\ w \notin Takers(e)'
    BY <1>1, <1>8 DEF Handlers, Takers
  <2>3. In(w, Handlers(e)) = 0 /\ In(w, Takers(e))' = 0
    BY <2>2 DEF In
  <2>4. CASE lock[e] = w
    <3>1. ~Held(e)
      BY <1>1, <2>4 DEF Held
    <3>2. Open(e) = 1
      BY <1>8, <3>1 DEF Open
    <3>3. job'[w].at = "handle" => Held(e)'
      BY <1>1, <1>4, <1>8, <2>1, <2>4 DEF Held
    <3>4. In(w, Handlers(e))' + Open(e)' <= 1
      <4>1. CASE job'[w].at = "handle"
        BY <1>1, <3>3, <4>1, PartType DEF Open
      <4>2. CASE job'[w].at = "unlock"
        <5>1. w \notin Handlers(e)'
          BY <4>2 DEF Handlers
        <5> QED
          BY <1>1, <5>1, PartType DEF In
      <4> QED
        BY <1>8, <4>1, <4>2
    <3> QED
      BY <1>1, <1>2, <1>3, <2>3, <3>2, <3>4, PartType DEF Pays, Part
  <2>5. CASE lock[e] # w
    <3>1. In(w, Takers(e)) = 1
      BY <1>1, <1>8, <2>5 DEF In, Takers
    <3> QED
      BY <1>1, <1>2, <1>3, <2>3, <3>1, PartType DEF Pays, Part
  <2> QED
    BY <2>4, <2>5
<1> QED
  BY <1>5, <1>6, <1>7, <1>8

LEMMA HandlePays ==
    ASSUME EventsInv, TypeOK', NEW w \in Workers, Handle(w), NEW e \in Events
    PROVE  Pays(w, e)
<1>1. /\ TypeOK /\ job \in [Workers -> Jobs] /\ job[w] \in Jobs
      /\ job[w].at = "handle" /\ job[w].event \in Events /\ job[w].ok
      /\ UNCHANGED <<row, lock>>
  BY DEF EventsInv, TypeOK, Handle, ConsumerInv, ReplayInv, Workers
<1>2. Calm(w)
  BY <1>1, StepIsCalm DEF Step, AcquireLock
<1>3. faults' \in {faults, faults + 1} /\ lapses' = lapses
  BY <1>2 DEF Handle, OtherFault, Fault, NoFault, counts, Calm
<1> DEFINE took == [effects EXCEPT ![job[w].event] = @ + 1]
<1>4. \/ effects' = took /\ \E place \in {"mark", "fan", "close"} : Goes(w, place)
      \/ /\ effects' = effects \/ (effects' = took /\ faults' = faults + 1)
         /\ \E place \in {"store", "recount"} :
               job' = [job EXCEPT ![w].ok = FALSE, ![w].at = place]
  BY DEF Handle, AfterHandlers, OtherFault, Fault
<1>5. took[job[w].event] = effects[job[w].event] + 1
      /\ \A x \in Events : x # job[w].event => took[x] = effects[x]
  BY <1>1 DEF TypeOK
<1> HIDE DEF took
<1>6. /\ job'[w].event = job[w].event /\ Others(w) /\ job'[w].claimed = job[w].claimed
      /\ \/ effects' = took /\ job'[w].ok /\ job'[w].at \in {"mark", "fan", "close"}
         \/ /\ effects' = effects \/ (effects' = took /\ faults' = faults + 1)
            /\ job'[w].at \in {"store", "recount"}
  <2>1. ASSUME NEW place \in {"mark", "fan", "close"}, Goes(w, place)
        PROVE  /\ job'[w].event = job[w].event /\ Others(w)
               /\ job'[w].claimed = job[w].claimed /\ job'[w].ok /\ job'[w].at = place
    BY <1>1, <2>1 DEF Goes, Others, Jobs
  <2>2. ASSUME NEW place \in {"store", "recount"},
               job' = [job EXCEPT ![w].ok = FALSE, ![w].at = place]
        PROVE  /\ job'[w].event = job[w].event /\ Others(w)
               /\ job'[w].claimed = job[w].claimed /\ job'[w].at = place
    BY <1>1, <2>2 DEF Others, Jobs
  <2> QED
    BY <1>4, <2>1, <2>2
<1>7. CASE job[w].event # e
  <2>1. effects'[e] = effects[e]
    BY <1>5, <1>6, <1>7
  <2> QED
    BY <1>1, <1>2, <1>3, <1>6, <1>7, <2>1, Elsewhere DEF Calm
<1>8. CASE job[w].event = e
  <2>1. w \in Handlers(e) /\ w \notin Handlers(e)' /\ w \notin Takers(e) /\ w \notin Takers(e)'
    BY <1>1, <1>6, <1>8 DEF Handlers, Takers
  <2>2. /\ In(w, Handlers(e)) = 1 /\ In(w, Handlers(e))' = 0
        /\ In(w, Takers(e)) = 0 /\ In(w, Takers(e))' = 0
    BY <2>1 DEF In
  <2>3. CASE effects' = took /\ job'[w].ok /\ job'[w].at \in {"mark", "fan", "close"}
    <3>1. Held(e) => Held(e)'
      <4>1. CASE row[e].by = w
        BY <1>1, <1>6, <2>3, <4>1 DEF Held
      <4>2. CASE row[e].by # w
        BY <1>1, <1>2, <4>2, HeldByOther DEF Calm
      <4> QED
        BY <4>1, <4>2
    <3>2. Open(e)' <= Open(e)
      BY <1>1, <3>1 DEF Open
    <3>3. effects'[e] = effects[e] + 1
      BY <1>5, <1>8, <2>3
    <3> QED
      BY <1>1, <1>3, <2>2, <3>2, <3>3, PartType DEF Pays, Part
  <2>4. CASE effects' = effects
    BY <1>1, <1>3, <2>2, <2>4, PartType DEF Pays, Part
  <2>5. CASE effects' = took /\ faults' = faults + 1
    <3>1. effects'[e] = effects[e] + 1
      BY <1>5, <1>8, <2>5
    <3> QED
      BY <1>1, <1>3, <2>2, <2>5, <3>1, PartType DEF Pays, Part
  <2> QED
    BY <1>6, <2>3, <2>4, <2>5
<1> QED
  BY <1>7, <1>8

LEMMA MarkPays ==
    ASSUME EventsInv, TypeOK', NEW w \in Workers, Mark(w), NEW e \in Events
    PROVE  Pays(w, e)
<1> USE DEF history
<1>1. /\ TypeOK /\ job \in [Workers -> Jobs] /\ job[w] \in Jobs
      /\ job[w].at = "mark" /\ job[w].event \in Events
      /\ UNCHANGED <<lock, effects>>
      /\ row \in [Events -> [status : Statuses, by : Workers \cup {NoOne}, stale : BOOLEAN]]
  BY DEF EventsInv, TypeOK, Mark
<1>2. Calm(w)
  BY <1>1, StepIsCalm DEF Step, AcquireLock
<1>3. faults' \in {faults, faults + 1} /\ lapses' = lapses
  BY <1>2 DEF Mark, OtherFault, Fault, NoFault, counts, Calm
<1>4. job'[w].event = job[w].event /\ Others(w) /\ job'[w].at = "unlock"
  <2>1. PICK place : GoesOn(w, place)
    BY DEF Mark
  <2> QED
    BY <1>1, <2>1 DEF GoesOn, Others, Jobs
<1> DEFINE mine == row[job[w].event].status = "processing" /\ row[job[w].event].by = w
           mark == IF mine THEN [row EXCEPT ![job[w].event].status = Outcome(w)] ELSE row
<1>5. row' = mark \/ (row' = row /\ faults' = faults + 1)
  BY DEF Mark, OtherFault, Fault
<1>6. \A x \in Events : x # job[w].event => row'[x] = row[x]
  BY <1>1, <1>5
<1>7. CASE job[w].event # e
  BY <1>1, <1>2, <1>3, <1>4, <1>6, <1>7, Elsewhere DEF Calm
<1>8. CASE job[w].event = e
  <2>1. w \notin Handlers(e) /\ w \notin Handlers(e)' /\ w \notin Takers(e) /\ w \notin Takers(e)'
    BY <1>1, <1>4 DEF Handlers, Takers
  <2>2. /\ In(w, Handlers(e)) = 0 /\ In(w, Handlers(e))' = 0
        /\ In(w, Takers(e)) = 0 /\ In(w, Takers(e))' = 0
    BY <2>1 DEF In
  <2>3. CASE faults' = faults + 1
    BY <1>1, <1>3, <2>2, <2>3, PartType DEF Pays, Part
  <2>4. CASE row' = mark
    <3>1. CASE mine /\ job[w].ok
      <4>1. row'[e].status = "completed"
        BY <1>1, <1>8, <2>4, <3>1 DEF Outcome
      <4>2. Open(e)' = 0
        BY <4>1 DEF Open
      <4> QED
        BY <1>1, <1>3, <2>2, <4>2, PartType DEF Pays, Part
    <3>2. CASE mine /\ ~job[w].ok
      <4>1. ~Held(e) /\ row[e].status # "completed"
        BY <1>1, <1>8, <3>2 DEF Held
      <4>2. Open(e) = 1
        BY <4>1 DEF Open
      <4> QED
        BY <1>1, <1>3, <2>2, <4>2, PartType DEF Pays, Part
    <3>3. CASE ~mine
      <4>1. row' = row
        BY <2>4, <3>3
      <4>2. Held(e) => row[e].by # w
        BY <1>8, <3>3 DEF Held
      <4>3. Held(e) => Held(e)'
        BY <1>2, <4>1, <4>2, HeldByOther DEF Calm
      <4>4. Open(e)' <= Open(e)
        BY <4>1, <4>3 DEF Open
      <4> QED
        BY <1>1, <1>3, <2>2, <4>4, PartType DEF Pays, Part
    <3> QED
      BY <3>1, <3>2, <3>3
  <2> QED
    BY <1>5, <2>3, <2>4
<1> QED
  BY <1>7, <1>8

LEMMA ClosePays ==
    ASSUME EventsInv, TypeOK', NEW w \in Replayers, Close(w), NEW e \in Events
    PROVE  Pays(w, e)
<1> USE DEF history
<1>1. /\ TypeOK /\ JobsOK /\ w \in Workers /\ job \in [Workers -> Jobs] /\ job[w] \in Jobs
      /\ job[w].at = "close" /\ UNCHANGED <<row, lock, effects>>
  BY DEF EventsInv, TypeOK, JobsOK, Close, Workers
<1>2. Calm(w)
  BY ReplayIsCalm
<1>3. faults' \in {faults, faults + 1} /\ lapses' = lapses
  BY <1>2 DEF Close, OtherFault, Fault, NoFault, counts, Calm
<1>4. job'[w].at \notin {"insert", "read", "reclaim", "handle"}
      /\ \/ faults' = faults + 1
         \/ /\ job'[w].event = job[w].event /\ job'[w].claimed = job[w].claimed
            /\ job'[w].ok = job[w].ok /\ (job[w].claimed => job'[w].at = "mark")
  <2>1. CASE Goes(w, IF job[w].claimed THEN "mark" ELSE "next")
    BY <1>1, <2>1 DEF Goes, Jobs
  <2>2. CASE faults' = faults + 1 /\ job' = [job EXCEPT ![w].at = "recount", ![w].ok = FALSE]
    BY <1>1, <2>2 DEF Jobs
  <2>3. CASE faults' = faults + 1 /\ job' = [job EXCEPT ![w] = Idle]
    BY <1>1, <2>3, IdleTo
  <2> QED
    BY <2>1, <2>2, <2>3 DEF Close, OtherFault, Fault
<1>5. w \notin Handlers(e) /\ w \notin Handlers(e)' /\ w \notin Takers(e) /\ w \notin Takers(e)'
  BY <1>1, <1>4 DEF Handlers, Takers
<1>6. /\ In(w, Handlers(e)) = 0 /\ In(w, Handlers(e))' = 0
      /\ In(w, Takers(e)) = 0 /\ In(w, Takers(e))' = 0
  BY <1>5 DEF In
<1>7. CASE faults' = faults + 1
  BY <1>1, <1>3, <1>6, <1>7, PartType DEF Pays, Part
<1>8. CASE /\ job'[w].event = job[w].event /\ job'[w].claimed = job[w].claimed
           /\ job'[w].ok = job[w].ok /\ (job[w].claimed => job'[w].at = "mark")
  <2>1. Held(e) => Held(e)'
    <3>1. CASE row[e].by = w
      BY <1>1, <1>8, <3>1 DEF Held
    <3>2. CASE row[e].by # w
      BY <1>1, <1>2, <3>2, HeldByOther DEF Calm
    <3> QED
      BY <3>1, <3>2
  <2>2. Open(e)' <= Open(e)
    BY <1>1, <2>1 DEF Open
  <2> QED
    BY <1>1, <1>3, <1>6, <2>2, PartType DEF Pays, Part
<1> QED
  BY <1>4, <1>7, <1>8

\* A fan-out that fails opens the event again, at the price of a fault.
LEMMA FanOutPays ==
    ASSUME EventsInv, TypeOK', NEW c \in Consumers, FanOut(c), NEW e \in Events
    PROVE  Pays(c, e)
<1>1. /\ TypeOK /\ c \in Workers /\ job \in [Workers -> Jobs] /\ job[c] \in Jobs
      /\ job[c].at = "fan" /\ UNCHANGED <<row, lock, effects>>
  BY DEF EventsInv, TypeOK, FanOut, Workers
<1>2. Calm(c)
  BY ConsumerIsCalm
<1>3. faults' \in {faults, faults + 1} /\ lapses' = lapses
  BY <1>2 DEF FanOut, OtherFault, Fault, NoFault, counts, Calm
<1>4. /\ job'[c].at = "mark" /\ job'[c].event = job[c].event
      /\ job'[c].claimed = job[c].claimed
      /\ faults' = faults + 1 \/ job'[c].ok = job[c].ok
  <2>1. CASE Goes(c, "mark")
    BY <1>1, <2>1 DEF Goes, Jobs
  <2>2. CASE job' = [job EXCEPT ![c].at = "mark", ![c].ok = FALSE] /\ faults' = faults + 1
    BY <1>1, <2>2 DEF Jobs
  <2> QED
    BY <2>1, <2>2 DEF FanOut, OtherFault, Fault
<1>5. c \notin Handlers(e) /\ c \notin Handlers(e)' /\ c \notin Takers(e) /\ c \notin Takers(e)'
  BY <1>1, <1>4 DEF Handlers, Takers
<1>6. /\ In(c, Handlers(e)) = 0 /\ In(c, Handlers(e))' = 0
      /\ In(c, Takers(e)) = 0 /\ In(c, Takers(e))' = 0
  BY <1>5 DEF In
<1>7. CASE faults' = faults + 1
  BY <1>1, <1>3, <1>6, <1>7, PartType DEF Pays, Part
<1>8. CASE job'[c].ok = job[c].ok
  <2>1. Held(e) => Held(e)'
    <3>1. CASE row[e].by = c
      BY <1>1, <1>4, <1>8, <3>1 DEF Held
    <3>2. CASE row[e].by # c
      BY <1>1, <1>2, <3>2, HeldByOther DEF Calm
    <3> QED
      BY <3>1, <3>2
  <2>2. Open(e)' <= Open(e)
    BY <1>1, <2>1 DEF Open
  <2> QED
    BY <1>1, <1>3, <1>6, <2>2, PartType DEF Pays, Part
<1> QED
  BY <1>4, <1>7, <1>8

LEMMA OtherStepPays ==
    ASSUME EventsInv, TypeOK', NEW w \in Workers, NEW e \in Events,
           \/ ReleaseLock(w)
           \/ w \in Consumers /\ (Deliver(w) \/ Resolve(w) \/ StoreDeadLetter(w))
           \/ w \in Replayers /\ (ListPending(w) \/ NextLetter(w) \/ GetStatus(w) \/ Recount(w))
    PROVE  Pays(w, e)
<1> USE DEF history
<1>1. TypeOK /\ row' = row /\ effects' = effects
  BY DEF EventsInv, ReleaseLock, Deliver, Resolve, StoreDeadLetter, ListPending, NextLetter,
         GetStatus, Recount
<1>2. faults' \in {faults, faults + 1}
  BY DEF ReleaseLock, Deliver, Resolve, StoreDeadLetter, ListPending, NextLetter,
         GetStatus, Recount, NoFault, OtherFault, Fault, counts
<1>3. job[w].at \in {"unlock", "idle", "done", "store", "final", "next", "status", "recount"}
  BY DEF ReleaseLock, Deliver, Resolve, StoreDeadLetter, ListPending, NextLetter,
         GetStatus, Recount
<1>4. Calm(w)
  BY <1>3, StepIsCalm, ConsumerIsCalm, ReplayIsCalm DEF Step, ClaimStep, AcquireLock
<1>5. job'[w].at # "handle"
  <2>1. ASSUME NEW place, place # "handle", Goes(w, place) PROVE job'[w].at # "handle"
    BY <1>1, <2>1, PlacesTo
  <2>2. CASE job' = [job EXCEPT ![w] = Idle]
    BY <1>1, <2>2, IdleTo DEF TypeOK, JobsOK
  <2>3. job \in [Workers -> Jobs] /\ job[w] \in Jobs
    BY <1>1 DEF TypeOK
  <2>4. CASE ReleaseLock(w)
    <3>1. job[w].then # "handle"
      BY <2>4 DEF EventsInv, ConsumerInv, ReplayInv, ReleaseLock, Workers
    <3> QED
      BY <2>3, <2>4, <3>1 DEF ReleaseLock, Jobs
  <2>5. CASE w \in Consumers /\ (Deliver(w) \/ Resolve(w) \/ StoreDeadLetter(w))
    <3>1. Deliver(w) => job'[w].at = "lock"
      BY <2>3 DEF Deliver, Jobs
    <3> QED
      BY <2>1, <2>2, <2>5, <3>1 DEF Resolve, StoreDeadLetter, AfterHandlers
  <2>6. CASE w \in Replayers /\ (ListPending(w) \/ NextLetter(w) \/ GetStatus(w) \/ Recount(w))
    <3>1. ListPending(w) => job'[w].at = "next"
      BY <2>3 DEF ListPending, Jobs
    <3>2. Recount(w) => job'[w].at # "handle"
      <4>1. ASSUME job' = [job EXCEPT ![w].at = "mark", ![w].quits = TRUE]
            PROVE  job'[w].at = "mark"
        BY <2>3, <4>1 DEF Jobs
      <4> QED
        BY <2>1, <2>2, <4>1 DEF Recount
    <3>3. GetStatus(w) => job'[w].at # "handle"
      BY <2>1, <2>2 DEF GetStatus
    <3>4. NextLetter(w) => job'[w].at # "handle"
      <4>1. ASSUME NEW t \in job[w].todo,
                   job' = [job EXCEPT ![w] = [Idle EXCEPT
                              !.at = "lock", !.event = letters[t.id].event,
                              !.todo = job[w].todo \ {t}, !.entry = t]]
            PROVE  job'[w].at = "lock"
        BY <2>3, <4>1 DEF Idle
      <4> QED
        BY <2>2, <4>1 DEF NextLetter
    <3> QED
      BY <2>6, <3>1, <3>2, <3>3, <3>4
  <2> QED
    BY <2>4, <2>5, <2>6
<1> QED
  BY <1>1, <1>2, <1>3, <1>4, <1>5, Away

LEMMA CrashPays ==
    ASSUME EventsInv, TypeOK', NEW w \in Workers, Crash(w), NEW e \in Events
    PROVE  Leaves(w) /\ Pays(w, e)
<1> USE DEF history
<1>1. TypeOK /\ JobsOK /\ UNCHANGED <<row, effects>>
  BY DEF EventsInv, TypeOK, JobsOK, Crash
<1>2. faults' = faults + 1 /\ lapses' = lapses /\ Leaves(w)
  BY CrashIsCalm DEF Crash, Fault, Calm
<1>3. job'[w].at = "idle"
  BY <1>1, IdleTo DEF Crash
<1>4. w \notin Handlers(e)' /\ w \notin Takers(e)'
  BY <1>3 DEF Handlers, Takers
<1>5. In(w, Handlers(e))' = 0 /\ In(w, Takers(e))' = 0
  BY <1>4 DEF In
<1> QED
  BY <1>1, <1>2, <1>5, PartType DEF Pays, Part

LEMMA LapsePays ==
    ASSUME EventsInv, TypeOK', NEW x \in Events, LockLapses(x), NEW e \in Events
    PROVE  \E w \in Workers : Leaves(w) /\ Pays(w, e)
<1> USE DEF history
<1> PICK w \in Workers : lock[x] = w
  BY DEF LockLapses
<1>1. TypeOK /\ UNCHANGED <<row, effects, job>> /\ faults' = faults + 1 /\ lapses' = lapses + 1
  BY DEF EventsInv, LockLapses, Fault
<1>2. \A y \in Events : lock'[y] = IF y = x THEN NoOne ELSE lock[y]
  BY <1>1 DEF LockLapses, TypeOK
<1>3. Leaves(w)
  BY <1>1, <1>2 DEF Leaves, Others
<1>4. Handlers(e)' = Handlers(e)
  BY <1>1 DEF Handlers
<1>5. In(w, Handlers(e))' = In(w, Handlers(e))
  BY <1>4
<1>6. CASE w \in Takers(e)'
  <2>1. Held(e) => Held(e)'
    <3>1. ASSUME Held(e) PROVE row[e].by # w
      BY <1>1, <1>6, <3>1 DEF Held, Takers
    <3> QED
      BY <1>1, <1>3, <3>1, HeldByOther
  <2>2. Open(e)' <= Open(e)
    BY <1>1, <2>1 DEF Open
  <2> QED
    BY <1>1, <1>3, <1>5, <2>2, PartType DEF Pays, Part
<1>7. CASE w \notin Takers(e)'
  <2>1. In(w, Takers(e))' = 0
    BY <1>7 DEF In
  <2> QED
    BY <1>1, <1>3, <1>5, <2>1, PartType DEF Pays, Part
<1> QED
  BY <1>6, <1>7

LEMMA NobodyPays ==
    ASSUME EventsInv, NEW e \in Events, Others(NoOne),
           lapses' = lapses, faults' = faults, effects' = effects,
           \A x \in Events : row'[x].status = row[x].status /\ row'[x].by = row[x].by,
           \A x \in Events, v \in Workers : lock[x] = v => lock'[x] = v
    PROVE  Leaves(NoOne) /\ Pays(NoOne, e)
<1>1. NoOne \notin Workers /\ TypeOK
  BY ConsumerAssumption DEF EventsInv
<1>2. Calm(NoOne)
  BY <1>1 DEF Calm, Leaves
<1> QED
  BY <1>1, <1>2, Away DEF Calm

LEMMA ChargeStep == EventsInv /\ TypeOK' /\ ChargeInv /\ [Next]_vars => ChargeInv'
<1> SUFFICES ASSUME EventsInv, TypeOK', ChargeInv, [Next]_vars, NEW e \in Events
             PROVE  /\ IsFiniteSet(Handlers(e)') /\ IsFiniteSet(Takers(e)')
                    /\ Charged(e)' <= 1 + faults' + lapses'
  BY DEF ChargeInv
<1>1. TypeOK /\ NoOne \notin Workers
  BY ConsumerAssumption DEF EventsInv
<1>2. ASSUME NEW w \in Workers, Step(w) PROVE Leaves(w) /\ Pays(w, e)
  <2>1. CASE AcquireLock(w)
    BY <2>1, AcquirePays, AcquireIsCalmOrCounts DEF Calm
  <2>2. CASE ~AcquireLock(w)
    <3>1. Leaves(w)
      BY <1>2, <2>2, StepIsCalm DEF Calm
    <3> QED
      BY <1>2, <2>2, <3>1, ClaimPays, HandlePays, MarkPays, OtherStepPays DEF Step, ClaimStep
  <2> QED
    BY <2>1, <2>2
<1>3. ASSUME NEW c \in Consumers,
             Deliver(c) \/ Resolve(c) \/ StoreDeadLetter(c) \/ FanOut(c)
      PROVE  Leaves(c) /\ Pays(c, e)
  BY <1>3, ConsumerIsCalm, OtherStepPays, FanOutPays DEF Calm, Workers
<1>4. ASSUME NEW c \in Consumers, Commit(c) \/ Assign(c)
      PROVE  Leaves(NoOne) /\ Pays(NoOne, e)
  BY <1>4, NobodyPays DEF Commit, Assign, counts, history, Others
<1>5. ASSUME NEW w \in Replayers,
             ListPending(w) \/ NextLetter(w) \/ GetStatus(w) \/ Close(w) \/ Recount(w)
      PROVE  Leaves(w) /\ Pays(w, e)
  BY <1>5, ReplayIsCalm, ClosePays, OtherStepPays DEF Calm, Workers
<1>6. ASSUME NEW x \in Events, GrowsStale(x) PROVE Leaves(NoOne) /\ Pays(NoOne, e)
  <2>1. \A y \in Events : row'[y].status = row[y].status /\ row'[y].by = row[y].by
    BY <1>1, <1>6 DEF GrowsStale, TypeOK
  <2> QED
    BY <1>6, <2>1, NobodyPays DEF GrowsStale, counts, history, Others
<1>7. ASSUME NEW x \in Events, OrphanExpires(x) PROVE Leaves(NoOne) /\ Pays(NoOne, e)
  <2>1. \A y \in Events, v \in Workers : lock[y] = v => lock'[y] = v
    BY <1>1, <1>7, ConsumerAssumption DEF OrphanExpires, TypeOK
  <2> QED
    BY <1>7, <2>1, NobodyPays DEF OrphanExpires, counts, history, Others
<1>8. CASE UNCHANGED vars
  <2>1. Leaves(NoOne) /\ Pays(NoOne, e)
    BY <1>8, NobodyPays DEF vars, partition, counts, history, Others
  <2> QED
    BY <1>1, <2>1, PaidFor
<1>9. CASE Next
  <2>1. \E w : Leaves(w) /\ Pays(w, e)
    <3>1. CASE \E c \in Consumers : ConsumerStep(c) \/ Assign(c)
      BY <1>2, <1>3, <1>4, <3>1 DEF ConsumerStep, Workers
    <3>2. CASE \E w \in Replayers : ReplayStep(w)
      BY <1>2, <1>5, <3>2 DEF ReplayStep, Workers
    <3>3. CASE \E x \in Events : GrowsStale(x) \/ OrphanExpires(x) \/ LockLapses(x)
      BY <1>6, <1>7, <3>3, LapsePays
    <3>4. CASE \E w \in Workers : Crash(w)
      BY <3>4, CrashPays
    <3> QED
      BY <1>9, <3>1, <3>2, <3>3, <3>4 DEF Next
  <2> QED
    BY <1>1, <2>1, PaidFor
<1> QED
  BY <1>8, <1>9

\* However often an event is delivered, replayed and reclaimed, its handlers take
\* effect once, and once more for each fault and each lock that was lost: a claim
\* that is made pays for its effect, and only a fault opens it for another
\* (claimProcessing, markCompleted, markFailed, replayDeadLetters).
THEOREM Effects == Spec => []EffectsNeedFaults
<1>1. Init => ChargeInv
  <2> SUFFICES ASSUME Init, NEW e \in Events
               PROVE  /\ IsFiniteSet(Handlers(e)) /\ IsFiniteSet(Takers(e))
                      /\ Charged(e) <= 1 + faults + lapses
    BY DEF ChargeInv
  <2>1. \A w \in Workers : job[w].at = "idle"
    BY DEF Init, Idle
  <2>2. Handlers(e) = {} /\ Takers(e) = {}
    BY <2>1 DEF Handlers, Takers
  <2>3. Open(e) \in {0, 1}
    BY DEF Open
  <2> QED
    BY <2>2, <2>3, FS_EmptySet DEF Init, Charged
<1>2. EventsInv /\ ChargeInv => EffectsNeedFaults
  <2> SUFFICES ASSUME EventsInv, ChargeInv, NEW e \in Events
               PROVE  effects[e] <= 1 + faults + lapses
    BY DEF EffectsNeedFaults
  <2>1. effects[e] \in Nat /\ faults \in Nat /\ lapses \in Nat
    BY DEF EventsInv, TypeOK
  <2>2. Cardinality(Handlers(e)) \in Nat /\ Cardinality(Takers(e)) \in Nat
    BY FS_CardinalityType DEF ChargeInv
  <2>3. Open(e) \in {0, 1}
    BY DEF Open
  <2>4. Charged(e) <= 1 + faults + lapses
    BY DEF ChargeInv
  <2> QED
    BY <2>1, <2>2, <2>3, <2>4 DEF Charged
<1>3. EventsInv => TypeOK
  BY DEF EventsInv
<1> QED
  BY <1>1, <1>2, <1>3, Invariance, ChargeStep, PTL DEF Spec

-----------------------------------------------------------------------------
(* The registry as a queue of deliveries                                   *)

\* The registry has e, and only e, at another stage, or at none.
Turns(e, s) ==
    /\ StageOf(row'[e].status) = s
    /\ \A x \in Events \ {e} : row'[x] = row[x]

LEMMA StageMoves ==
    ASSUME NEW e \in Events, NEW s, Turns(e, s)
    PROVE  [x \in Events |-> StageOf(row'[x].status)] =
              [[x \in Events |-> StageOf(row[x].status)] EXCEPT ![e] = s]
BY DEF Turns

\* What changes neither a stage nor an effect.
LEMMA RegistrySame ==
    ASSUME effects' = effects,
           \A e \in Events : StageOf(row'[e].status) = StageOf(row[e].status)
    PROVE  UNCHANGED Registry!qvars
BY DEF Registry!qvars

\* A claim, by an insert or by taking one over, enters the event or changes
\* nothing; it never takes up what is done.
LEMMA RegistryClaims ==
    ASSUME EventsInv, NEW w \in Workers, Insert(w) \/ Read(w) \/ Reclaim(w)
    PROVE  Registry!QNext \/ UNCHANGED Registry!qvars
<1>1. /\ job[w].event \in Events /\ effects' = effects
      /\ row \in [Events -> [status : Statuses, by : Workers \cup {NoOne}, stale : BOOLEAN]]
  BY DEF EventsInv, TypeOK, Insert, Read, Reclaim, history
<1> PICK e \in Events : job[w].event = e
  BY <1>1
<1>2. row' = row \/ (row' = Claimed(w) /\ row[e].status # "completed")
  <2>1. CASE Insert(w) \/ Read(w)
    BY <2>1 DEF Insert, Read, ClaimFails
  <2>2. CASE Reclaim(w)
    <3>1. job[w].saw \in {"processing", "failed"}
      BY <2>2 DEF EventsInv, WorkerInv, Reclaim
    <3> QED
      BY <2>2, <3>1 DEF Reclaim, ClaimFails
  <2> QED
    BY <2>1, <2>2
<1>3. CASE row' = row
  BY <1>1, <1>3, RegistrySame
<1>4. CASE row' = Claimed(w) /\ row[e].status # "completed"
  <2>1. row'[e].status = "processing" /\ \A x \in Events \ {e} : row'[x] = row[x]
    BY <1>1, <1>4 DEF Claimed
  <2>2. Turns(e, "queued")
    BY <2>1 DEF Turns, StageOf
  <2>3. CASE row[e].status = "none"
    <3>1. StageOf(row[e].status) = "none"
      BY <2>3 DEF StageOf
    <3>2. Registry!Enqueue(e)
      BY <1>1, <2>2, <3>1, StageMoves DEF Registry!Enqueue
    <3> QED
      BY <3>2 DEF Registry!QNext
  <2>4. CASE row[e].status # "none"
    <3>1. StageOf(row'[e].status) = StageOf(row[e].status)
      BY <1>4, <2>1, <2>4 DEF StageOf
    <3> QED
      BY <1>1, <2>1, <3>1, RegistrySame
  <2> QED
    BY <2>3, <2>4
<1> QED
  BY <1>2, <1>3, <1>4

\* Handlers run for an event that has been entered.
LEMMA RegistryDelivers ==
    ASSUME EventsInv, NEW w \in Workers, Handle(w)
    PROVE  Registry!QNext \/ UNCHANGED Registry!qvars
<1>1. /\ job[w].event \in Events /\ row' = row /\ effects \in [Events -> Nat]
      /\ row[job[w].event].status # "none"
  BY DEF EventsInv, TypeOK, WorkerInv, Handle
<1> PICK e \in Events : job[w].event = e
  BY <1>1
<1>2. CASE effects' = effects
  BY <1>1, <1>2, RegistrySame
<1>3. CASE effects' = [effects EXCEPT ![e] = @ + 1]
  <2>1. StageOf(row[e].status) # "none"
    BY <1>1 DEF StageOf
  <2>2. Registry!Deliver(e)
    BY <1>1, <1>3, <2>1 DEF Registry!Deliver
  <2> QED
    BY <2>2 DEF Registry!QNext
<1> QED
  BY <1>2, <1>3 DEF Handle

\* The holder of a claim completes it after an effect, or leaves it to others.
LEMMA RegistryCompletes ==
    ASSUME EventsInv, NEW w \in Workers, Mark(w)
    PROVE  Registry!QNext \/ UNCHANGED Registry!qvars
<1>1. /\ job[w].event \in Events /\ effects' = effects
      /\ row \in [Events -> [status : Statuses, by : Workers \cup {NoOne}, stale : BOOLEAN]]
      /\ job[w].ok => effects[job[w].event] > 0
  BY DEF EventsInv, TypeOK, WorkerInv, Mark, history
<1> PICK e \in Events : job[w].event = e
  BY <1>1
<1>2. \/ row' = row
      \/ row[e].status = "processing" /\ row' = [row EXCEPT ![e].status = Outcome(w)]
  BY DEF Mark
<1>3. CASE row' = row
  BY <1>1, <1>3, RegistrySame
<1>4. CASE row[e].status = "processing" /\ row' = [row EXCEPT ![e].status = Outcome(w)]
  <2>1. row'[e].status = Outcome(w) /\ \A x \in Events \ {e} : row'[x] = row[x]
    BY <1>1, <1>4
  <2>2. StageOf(row[e].status) = "queued"
    BY <1>4 DEF StageOf
  <2>3. CASE job[w].ok
    <3>1. Turns(e, "done")
      BY <2>1, <2>3 DEF Turns, StageOf, Outcome
    <3>2. Registry!Complete(e)
      BY <1>1, <2>2, <2>3, <3>1, StageMoves DEF Registry!Complete
    <3> QED
      BY <3>2 DEF Registry!QNext
  <2>4. CASE ~job[w].ok
    <3>1. StageOf(row'[e].status) = "queued"
      BY <2>1, <2>4 DEF StageOf, Outcome
    <3> QED
      BY <1>1, <2>1, <2>2, <3>1, RegistrySame
  <2> QED
    BY <2>3, <2>4
<1> QED
  BY <1>2, <1>3, <1>4

LEMMA RegistryStep ==
    ASSUME EventsInv, [Next]_vars
    PROVE  [Registry!QNext]_(Registry!qvars)
<1> SUFFICES Registry!QNext \/ UNCHANGED Registry!qvars
  OBVIOUS
<1>1. CASE UNCHANGED <<row, effects>>
  BY <1>1, RegistrySame
<1>2. CASE \E w \in Workers : Insert(w) \/ Read(w) \/ Reclaim(w) \/ Handle(w) \/ Mark(w)
  BY <1>2, RegistryClaims, RegistryDelivers, RegistryCompletes
<1>3. ASSUME NEW e \in Events, GrowsStale(e) PROVE UNCHANGED Registry!qvars
  <2>1. \A x \in Events : row'[x].status = row[x].status
    BY <1>3 DEF GrowsStale, EventsInv, TypeOK
  <2> QED
    BY <1>3, <2>1, RegistrySame DEF GrowsStale, history
<1>4. \/ UNCHANGED <<row, effects>>
      \/ \E w \in Workers : Insert(w) \/ Read(w) \/ Reclaim(w) \/ Handle(w) \/ Mark(w)
      \/ \E e \in Events : GrowsStale(e)
  <2>1. ASSUME NEW w \in Workers, Step(w)
        PROVE  \/ UNCHANGED <<row, effects>>
               \/ Insert(w) \/ Read(w) \/ Reclaim(w) \/ Handle(w) \/ Mark(w)
    BY <2>1 DEF Step, ClaimStep, AcquireLock, ReleaseLock, history
  <2>2. ASSUME NEW c \in Consumers,
               \/ Deliver(c) \/ Resolve(c) \/ Commit(c) \/ StoreDeadLetter(c)
               \/ FanOut(c) \/ Assign(c)
        PROVE  UNCHANGED <<row, effects>>
    BY <2>2 DEF Deliver, Resolve, Commit, StoreDeadLetter, FanOut, Assign, history
  <2>3. ASSUME NEW w \in Replayers,
               ListPending(w) \/ NextLetter(w) \/ GetStatus(w) \/ Close(w) \/ Recount(w)
        PROVE  UNCHANGED <<row, effects>>
    BY <2>3 DEF ListPending, NextLetter, GetStatus, Close, Recount, history
  <2>4. ASSUME NEW e \in Events, OrphanExpires(e) \/ LockLapses(e)
        PROVE  UNCHANGED <<row, effects>>
    BY <2>4 DEF OrphanExpires, LockLapses, history
  <2>5. ASSUME NEW w \in Workers, Crash(w) PROVE UNCHANGED <<row, effects>>
    BY <2>5 DEF Crash, history
  <2>6. UNCHANGED vars => UNCHANGED <<row, effects>>
    BY DEF vars, history
  <2> QED
    BY <2>1, <2>2, <2>3, <2>4, <2>5, <2>6 DEF Next, ConsumerStep, ReplayStep, Workers
<1> QED
  BY <1>1, <1>2, <1>3, <1>4

\* The registry keeps a queue's promise: an event is entered once, its handlers
\* run only when it has been, and it is done, once and for ever, after they took
\* effect, however consumers and replays take claims from each other.
THEOREM RegistryKept == Spec => KeepsRegistry
<1>1. Init => Registry!QInit
  <2> SUFFICES ASSUME Init PROVE Registry!QInit
    OBVIOUS
  <2>1. [e \in Events |-> StageOf(row[e].status)] = [e \in Events |-> "none"]
    BY DEF Init, StageOf
  <2>2. effects = [e \in Events |-> 0]
    BY DEF Init
  <2> QED
    BY <2>1, <2>2, Zenon DEF Registry!QInit
<1>2. EventsInv /\ [Next]_vars => [Registry!QNext]_(Registry!qvars)
  BY RegistryStep
<1> QED
  BY <1>1, <1>2, Invariance, PTL DEF Spec, KeepsRegistry, Registry!QSafety
=============================================================================
