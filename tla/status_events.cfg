SPECIFICATION FairSpec
CONSTANTS
    i1 = i1
    r1 = r1
    r2 = r2
    c1 = c1
    c2 = c2
    Images = {i1}
    Workers = {w1, w2}
    Replicas = {r1, r2}
    Clients = {c1, c2}
    ReplicaOf <- TwoReplicas
    OwnImages <- OneOwner
    MaxWrites = 3
    MaxFaults = 2
    Calls = {"reprocess", "remove"}
    Faults = {"crash", "publish", "redis", "stream"}
INVARIANTS
    TypeOK
    NeverAhead
    StaleOnlyIfMissedOrRaced
PROPERTIES
    EventsSettle
CHECK_DEADLOCK FALSE
