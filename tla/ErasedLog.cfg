\* A State whose entries start at index 1, as its doc says.
CONSTANTS
    ld = ld
    p1 = p1
    Leader = ld
    None = None
    Peer = {p1}
    SessionTerm = 1
    MaxTerm = 1
    StoredLogs <- OneEntry
    StoredCommits <- OneCommit
    MaxLog = 2
    MaxRpcs = 2
    MaxAnswers = 2
    U64Max = 12
    OverflowChecks = TRUE
    FirstEntryIndex = 1
SPECIFICATION Spec
PROPERTIES
    CommittedEntriesStay
