------------------------------ MODULE MCOutbox -------------------------------
(* Instances of OutboxPipeline: two API processes, the first with room for *)
(* two cycles that would overlap if _cycleRunning did not prevent it.      *)
EXTENDS OutboxPipeline, TLC

CONSTANTS p, q, c1, c2, c3, e1, e2, f

TwoProcs == (c1 :> p) @@ (c2 :> p) @@ (c3 :> q)
OneProc == (c1 :> p) @@ (c2 :> p)
JustOne == c1 :> p

PlusOne(n) == n + 1
Wrapping(n) == IF n = 3 THEN 1 ELSE n + 1
=============================================================================
