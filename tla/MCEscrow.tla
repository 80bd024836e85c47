------------------------------ MODULE MCEscrow ------------------------------
(* TLC instances of TruxifyEscrow. *)
EXTENDS TruxifyEscrow, TLC

CONSTANTS owner, trader, b1, b2, k1, k2

\* The commitments: one customer and one driver, each slot, and each nonce the
\* bounds allow.  (The owner may lock a payment between any two accounts.)
SignedSmall ==
    [customer : {owner}, id : BookingIds, driver : {trader},
     amount : {1}, nonce : 0 .. 1]

SlotSymmetry == Permutations(BookingIds) \cup Permutations(Keys)
=============================================================================
