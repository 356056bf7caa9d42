\* Two nodes with stored terms, votes and logs, on MemoryState: get_entry counts
\* from 0, and append_entries overwrites the stored term.
CONSTANTS
    n1 = n1
    n2 = n2
    Node = {n1, n2}
    None = None
    SeedsIncludeSelf = TRUE
    FirstEntryIndex = 0
    StoredTerms <- LowTerms
    StoredVotes <- AnyVote
    StoredLogs <- ShortLogs
    ShutdownNodes = {n1}
    MaxShutdownTerm = 2
    MaxTerm = 2
    MaxLog = 1
    MaxVoteRpcs = 1
    MaxHeartbeatRpcs = 1
    MaxStopped = 1
    AppendStoresTerm = TRUE
    MaxRestarts = 2
CHECK_DEADLOCK FALSE
SPECIFICATION RecoverySpec
INVARIANTS
    RecoveryTypeOK
    OnlyOwnVotesAreLost
    LeaderVotedForItself
PROPERTIES
    ImplementsLeadership
