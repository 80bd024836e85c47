---------------------------- MODULE MCWithdrawals ----------------------------
(* TLC instances of Withdrawals. *)
EXTENDS Withdrawals, TLC

CONSTANTS driver, i1, i2, k1, k2

OneDriver == [i \in Ids |-> driver]
Three == [x \in Drivers |-> 3]

\* The CHECK of docs/supabase_setup.sql:691-692 without and with the values
\* that the settlement writes.
Shipped == {"confirmed", "pending", "failed"}
Widened == Shipped \cup {"completed", "settlement_failed"}

IdSymmetry == Permutations(Ids)
=============================================================================
