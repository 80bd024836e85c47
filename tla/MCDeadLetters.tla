--------------------------- MODULE MCDeadLetters ---------------------------
(* TLC instances of DeadLetters. *)
EXTENDS DeadLetters, TLC

CONSTANTS e1, r1, r2, w1, w2, q1, pod

\* Room for a second row of the event, after the first is dead.
TwoRows == [r \in Rows |-> e1]
SameName == [w \in Workers |-> pod]
=============================================================================
