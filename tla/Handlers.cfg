\* Two peers, two collectors at once.
CONSTANTS
    n0 = n0
    p1 = p1
    p2 = p2
    c1 = c1
    c2 = c2
    Self = n0
    Peer = {p1, p2}
    None = None
    Task = {c1, c2}
    RpcTerms = {1, 2}
    MaxTerm = 3
SYMMETRY Symmetry
SPECIFICATION Spec
INVARIANTS
    OwnVoteAtSelect
    VotesAreStored
    OneVotePerTerm
PROPERTIES
    VotesWriteAhead
