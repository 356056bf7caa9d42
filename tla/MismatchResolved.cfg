\* A leader and a peer, fair tasks: what becomes of a peer whose log does not match.
CONSTANTS
    ld = ld
    p1 = p1
    Leader = ld
    None = None
    Peer = {p1}
    SessionTerm = 1
    MaxTerm = 2
    StoredLogs <- MixedLogs
    StoredCommits <- SomeCommit
    MaxLog = 3
    MaxRpcs = 2
    MaxAnswers = 2
    U64Max = 12
    OverflowChecks = TRUE
    FirstEntryIndex = 0
SPECIFICATION FairSpec
PROPERTIES
    MismatchIsResolved
