----------------------------- MODULE WalletBook -----------------------------
(***************************************************************************)
(* What a driver's wallet promises of a withdrawal, with nothing said of   *)
(* workers, claims and retries: the amount is set aside when it is asked   *)
(* for, and then, once and for ever, it is gone because the provider has   *)
(* paid, or it is the driver's again.  Nothing is promised of a payout for *)
(* an amount that was given back: a request on the wire may still reach    *)
(* the provider.  Withdrawals implements this.                             *)
(***************************************************************************)
EXTENDS Integers

CONSTANTS Drivers, Ids, DriverOf, Amounts, Deposits

VARIABLES
    confirmed, reserved,    \* the driver's own, and what is set aside
    stage,      \* of a withdrawal: "none", "open", "paid" or "returned"
    amount,
    wired       \* the provider has made a payout for it

bvars == <<confirmed, reserved, stage, amount, wired>>

BInit ==
    /\ confirmed = Deposits
    /\ reserved = [d \in Drivers |-> 0]
    /\ stage = [i \in Ids |-> "none"]
    /\ amount = [i \in Ids |-> 0]
    /\ wired = [i \in Ids |-> FALSE]

\* The driver's two balances change by so much.
Moves(d, own, aside) ==
    /\ confirmed' = [confirmed EXCEPT ![d] = @ + own]
    /\ reserved' = [reserved EXCEPT ![d] = @ + aside]

Ask(i, a) ==
    /\ stage[i] = "none" /\ a <= confirmed[DriverOf[i]]
    /\ stage' = [stage EXCEPT ![i] = "open"]
    /\ amount' = [amount EXCEPT ![i] = a]
    /\ Moves(DriverOf[i], -a, a)
    /\ UNCHANGED wired

\* Only what was asked for is paid.
Wire(i) ==
    /\ stage[i] # "none"
    /\ wired' = [wired EXCEPT ![i] = TRUE]
    /\ UNCHANGED <<confirmed, reserved, stage, amount>>

PayOut(i) ==
    /\ stage[i] = "open" /\ wired[i]
    /\ stage' = [stage EXCEPT ![i] = "paid"]
    /\ Moves(DriverOf[i], 0, -amount[i])
    /\ UNCHANGED <<amount, wired>>

GiveBack(i) ==
    /\ stage[i] = "open"
    /\ stage' = [stage EXCEPT ![i] = "returned"]
    /\ Moves(DriverOf[i], amount[i], -amount[i])
    /\ UNCHANGED <<amount, wired>>

BNext ==
    \E i \in Ids : \/ \E a \in Amounts : Ask(i, a)
                   \/ Wire(i) \/ PayOut(i) \/ GiveBack(i)

BSafety == BInit /\ [][BNext]_bvars
=============================================================================
