----------------------------- MODULE MCHandlers -----------------------------
EXTENDS Handlers, TLC

PeerSymmetry == Permutations(Peer)

TaskSymmetry == Permutations(Task)

Symmetry == PeerSymmetry \cup TaskSymmetry

=============================================================================
