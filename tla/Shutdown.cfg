\* Two nodes, one of which is shut down.
CONSTANTS
    n1 = n1
    n2 = n2
    Node = {n1, n2}
    None = None
    SeedsIncludeSelf = TRUE
    FirstEntryIndex = 0
    StoredTerms <- TermZero
    StoredVotes <- NoVote
    StoredLogs <- EmptyLog
    ShutdownNodes = {n1}
    MaxShutdownTerm = 2
    MaxTerm = 2
    MaxLog = 0
    MaxVoteRpcs = 2
    MaxHeartbeatRpcs = 2
    MaxStopped = 0
SPECIFICATION Spec
PROPERTIES
    ShutdownIsFinal
