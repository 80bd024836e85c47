\* Two processes that share a name, as a container that is started again does.
SPECIFICATION FairSpec
CONSTANTS
    e1 = e1  r1 = r1  r2 = r2  w1 = w1  w2 = w2
    pod = pod  q1 = q1  Nobody = Nobody
    Events = {e1}
    Rows = {r1, r2}
    EventOf <- TwoRows
    Requests = {q1}
    Workers = {w1, w2}
    Names = {pod}
    NameOf <- SameName
    Backoffs = 2
    MaxAttempts = 2
INVARIANTS TypeOK AttemptsBounded
PROPERTIES AttemptIsItsHolders AcknowledgedIsKept KeepsPromise EveryEventLeaves
