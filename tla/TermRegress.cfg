\* Two nodes, one of which may hold an entry.
CONSTANTS
    n1 = n1
    n2 = n2
    Node = {n1, n2}
    None = None
    SeedsIncludeSelf = TRUE
    FirstEntryIndex = 1
    StoredTerms <- TermOne
    StoredVotes <- NoVote
    StoredLogs <- ShortLogs
    ShutdownNodes = {}
    MaxShutdownTerm = 0
    MaxTerm = 3
    MaxLog = 1
    MaxVoteRpcs = 2
    MaxHeartbeatRpcs = 1
    MaxStopped = 0
SPECIFICATION Spec
PROPERTIES
    TermNeverDecreases
