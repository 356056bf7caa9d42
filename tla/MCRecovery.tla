----------------------------- MODULE MCRecovery -----------------------------
EXTENDS Recovery

ShortLogs == {<< >>, << 1 >>}
LowTerms == {0, 1}
AnyVote == Node \cup {None}

=============================================================================
