--------------------------- MODULE MCReplication ---------------------------
EXTENDS Replication

\* Logs of up to two entries, one perhaps committed.
MixedLogs == {<< >>, << 1, 1 >>}
OneEntry == {<< 1 >>}
SomeCommit == {0, 1}
OneCommit == {1}

=============================================================================
