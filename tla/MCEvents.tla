----------------------------- MODULE MCEvents -----------------------------
(* TLC instances of EventConsumer. *)
EXTENDS EventConsumer, TLC

CONSTANTS c1, c2, r1, a

LogOne == <<a>>
ConsumerSymmetry == Permutations(Consumers)
=============================================================================
