---------------------------- MODULE MCSettlement ----------------------------
(* TLC instances of OrderSettlement. *)
EXTENDS OrderSettlement, TLC

CONSTANTS j1, j2

JobSymmetry == Permutations(Jobs)
=============================================================================
