\* The fenced RPCs alone: two API processes, overlapping claims, lost calls.
SPECIFICATION Spec
CONSTANTS
    p = p  q = q  c1 = c1  c2 = c2  c3 = c3  e1 = e1  e2 = e2  f = f
    Procs = {p, q}
    Cycles = {c1, c2, c3}
    ProcOf <- TwoProcs
    Events = {e1}
    Forwarders = {}
    KafkaAdapter = TRUE
    Limit = 1
    Bumped <- PlusOne
    MaxFaults = 2
    MaxStops = 1
INVARIANTS OneCyclePerProcess ClaimsAreExclusive RepeatsNeedFaults
PROPERTIES LiveClaimIsItsHolders StoppedBeginsNothing
