\* A leader and a peer whose States may hold a committed entry, fair tasks, in a
\* build with overflow checks.
CONSTANTS
    ld = ld
    p1 = p1
    Leader = ld
    None = None
    Peer = {p1}
    SessionTerm = 1
    MaxTerm = 2
    StoredLogs <- MixedLogs
    StoredCommits <- SomeCommit
    MaxLog = 3
    MaxRpcs = 2
    MaxAnswers = 2
    U64Max = 12
    OverflowChecks = TRUE
    FirstEntryIndex = 0
SPECIFICATION FairSpec
INVARIANTS
    TypeOK
    MatchIndexReplicated
    CommitIndexIsInLog
    OneUpdateAtATime
PROPERTIES
    HeartbeatGoesOut
    LogsShrinkByUpdatesOnly
