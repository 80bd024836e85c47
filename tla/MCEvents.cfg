\* One message, which is delivered again when the partition moves, and replayed.
SPECIFICATION Spec
CONSTANTS
    c1 = c1  c2 = c2  r1 = r1  a = a
    NoOne = NoOne  Orphan = Orphan
    Consumers = {c1, c2}
    Replayers = {r1}
    Events = {a}
    Log <- LogOne
    Bus = TRUE
    MaxReplays = 1
    MaxMoves = 1
    MaxFaults = 1
SYMMETRY ConsumerSymmetry
CHECK_DEADLOCK FALSE
PROPERTIES KeepsRegistry
INVARIANTS EventsInv HandlersNeedLapses EffectsNeedFaults NothingForgotten
