\* Loops that run late, with clients.
CONSTANTS
    n1 = n1
    n2 = n2
    Node = {n1, n2}
    FirstLeader = n1
    heartbeat_interval = 2
    ElectionMin = 3
    ElectionMax = 5
    Lag = 1
    Delay = 1
    Busy = 1
    HasClients = TRUE
SPECIFICATION Spec
INVARIANTS
    TypeOK
PROPERTIES
    FollowersOutliveRpcs
