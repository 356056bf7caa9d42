\* Heartbeat interval, lag and delay add up to one less than the shortest election
\* timeout; fair loops, no clients; the leader may die.
CONSTANTS
    n1 = n1
    n2 = n2
    n3 = n3
    Node = {n1, n2, n3}
    FirstLeader = n1
    heartbeat_interval = 2
    ElectionMin = 5
    ElectionMax = 7
    Lag = 1
    Delay = 1
    Busy = 1
    HasClients = FALSE
SPECIFICATION FairSpec

    
PROPERTIES
    LeaderDeathIsNoticed
