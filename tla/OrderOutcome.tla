---------------------------- MODULE OrderOutcome ----------------------------
(***************************************************************************)
(* What the settlement of one order promises, with nothing said of jobs,   *)
(* transactions, sweeps and events: the order goes one way, delivery or    *)
(* refund, and never leaves it; the money follows; the order's row says    *)
(* what became of the money, once it is so; and a delivery is credited     *)
(* once.  The promise ends when jobs on the order are not kept apart.      *)
(* OrderSettlement implements this.                                        *)
(***************************************************************************)
EXTENDS Naturals

VARIABLES
    way,        \* "open", "delivery" or "refund"
    money,      \* where it is: "escrow", "driver" or "customer"
    record,     \* what the row says of the escrow: "open", "released", "refunded"
    credited,   \* credits to the driver's wallet
    doubled,    \* a milestone's write was doubled
    broken      \* the jobs were not kept apart

books == <<record, credited>>
ovars == <<way, money, books, doubled, broken>>

OInit ==
    /\ way = "open" /\ money = "escrow" /\ record = "open" /\ credited = 0
    /\ doubled = FALSE /\ broken = FALSE

\* The OTP matches, or a cancellation is taken in hand.
Choose ==
    /\ way = "open" /\ way' \in {"delivery", "refund"}
    /\ UNCHANGED <<money, books, doubled, broken>>

Pay ==
    /\ money = "escrow"
    /\ \/ way = "delivery" /\ money' = "driver"
       \/ way = "refund" /\ money' = "customer"
    /\ UNCHANGED <<way, books, doubled, broken>>

Record ==
    /\ record = "open"
    /\ \/ money = "driver" /\ record' = "released"
       \/ money = "customer" /\ record' = "refunded"
    /\ UNCHANGED <<way, money, credited, doubled, broken>>

\* The trip is completed, which also records the release.
Credit ==
    /\ money = "driver" /\ record' = "released"
    /\ credited = 0 \/ doubled
    /\ credited' = credited + 1
    /\ UNCHANGED <<way, money, doubled, broken>>

\* A refund, never a release, may be put back into reconciliation.
Reopen ==
    /\ record = "refunded" /\ record' = "open"
    /\ UNCHANGED <<way, money, credited, doubled, broken>>

Double ==
    /\ doubled' = TRUE
    /\ UNCHANGED <<way, money, books, broken>>

\* From then on anything may happen.
Break == broken' = TRUE

ONext == Choose \/ Pay \/ Record \/ Credit \/ Reopen \/ Double \/ Break

OSafety == OInit /\ [][ONext]_ovars
=============================================================================
