\* The test cluster: three nodes, every membership map lists the node itself; any
\* of them may be shut down before it has left its first term.
CONSTANTS
    n1 = n1
    n2 = n2
    n3 = n3
    Node = {n1, n2, n3}
    None = None
    SeedsIncludeSelf = TRUE
    FirstEntryIndex = 0
    StoredTerms <- TermZero
    StoredVotes <- NoVote
    StoredLogs <- EmptyLog
    ShutdownNodes = {n1, n2, n3}
    MaxShutdownTerm = 0
    MaxTerm = 2
    MaxLog = 0
    MaxVoteRpcs = 1
    MaxHeartbeatRpcs = 2
    MaxStopped = 0
CHECK_DEADLOCK FALSE
SYMMETRY NodeSymmetry
SPECIFICATION Spec
INVARIANTS
    TypeOK
    LeaderHasQuorum
    UnanimityInv
    OneLeader
