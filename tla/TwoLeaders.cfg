\* Three nodes whose seeds are only their peers, one of them ahead in terms.
CONSTANTS
    n1 = n1
    n2 = n2
    n3 = n3
    Node = {n1, n2, n3}
    None = None
    SeedsIncludeSelf = FALSE
    FirstEntryIndex = 0
    StoredTerms <- SpreadTerms
    StoredVotes <- NoVote
    StoredLogs <- EmptyLog
    ShutdownNodes = {}
    MaxShutdownTerm = 0
    MaxTerm = 3
    MaxLog = 0
    MaxVoteRpcs = 1
    MaxHeartbeatRpcs = 0
    MaxStopped = 0
SYMMETRY NodeSymmetry
SPECIFICATION Spec
INVARIANTS
    ElectionSafety
