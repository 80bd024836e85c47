\* As deployed: no adapter in the API, the Kafka service beside it.
SPECIFICATION FairSpec
CONSTANTS
    p = p  q = q  c1 = c1  c2 = c2  c3 = c3  e1 = e1  e2 = e2  f = f
    Procs = {p}
    Cycles = {c1}
    ProcOf <- JustOne
    Events = {e1, e2}
    Forwarders = {f}
    KafkaAdapter = FALSE
    Limit = 2
    Bumped <- Wrapping
    MaxFaults = 2
    MaxStops = 0
INVARIANTS OutboxInv
PROPERTIES AtLeastOnce EveryEventPublished
