-------------------------- MODULE DeadLetterQueue --------------------------
(***************************************************************************)
(* What the webhook dead-letter queue promises: an event taken in is owed  *)
(* until its handler has succeeded or it is given up, where an operator    *)
(* can see it.  An event that was given up may be sent in again; one that  *)
(* is done stays done.  DeadLetters implements this.                       *)
(***************************************************************************)
CONSTANT Events

VARIABLES
    fate,       \* of an event: "none", "owed", "done" or "dead"
    applied     \* its handler has succeeded at least once

dvars == <<fate, applied>>

DInit ==
    /\ fate = [e \in Events |-> "none"]
    /\ applied = [e \in Events |-> FALSE]

Become(e, f) == fate' = [fate EXCEPT ![e] = f] /\ UNCHANGED applied

TakeIn(e) == fate[e] \in {"none", "dead"} /\ Become(e, "owed")

Bury(e) == fate[e] = "none" /\ Become(e, "dead")

Finish(e) == fate[e] = "owed" /\ applied[e] /\ Become(e, "done")

Apply(e) == applied' = [applied EXCEPT ![e] = TRUE] /\ UNCHANGED fate

\* One sweep may give up several events.
GiveUp(S) ==
    /\ \A e \in S : fate[e] = "owed"
    /\ fate' = [e \in Events |-> IF e \in S THEN "dead" ELSE fate[e]]
    /\ UNCHANGED applied

DNext ==
    \/ \E e \in Events : TakeIn(e) \/ Bury(e) \/ Finish(e) \/ Apply(e)
    \/ \E S \in SUBSET Events : GiveUp(S)

DSafety == DInit /\ [][DNext]_dvars

\* No event is owed for ever.
DLiveness == \A e \in Events : fate[e] = "owed" ~> fate[e] # "owed"
=============================================================================
