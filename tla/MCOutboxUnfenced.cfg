\* The fence beside a relay that does not use it.
SPECIFICATION Spec
CONSTANTS
    p = p  q = q  c1 = c1  c2 = c2  c3 = c3  e1 = e1  e2 = e2  f = f
    Procs = {p}
    Cycles = {c1}
    ProcOf <- JustOne
    Events = {e1}
    Forwarders = {f}
    KafkaAdapter = TRUE
    Limit = 1
    Bumped <- PlusOne
    MaxFaults = 2
    MaxStops = 0
PROPERTIES LiveClaimIsItsHolders
