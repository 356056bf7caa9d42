----------------------------- MODULE MCElection -----------------------------
EXTENDS Election, TLC

NodeSymmetry == Permutations(Node)

EmptyLog == {<< >>}
ShortLogs == {<< >>, << 1 >>}
TermZero == {0}
NoVote == {None}
SpreadTerms == {0, 2}
TermOne == {1}

=============================================================================
