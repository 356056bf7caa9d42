----------------------------- MODULE WriteAhead -----------------------------
(***************************************************************************)
(* What a node promises about its vote, said without terms, requests or    *)
(* tasks: node.rs has "Persist values to disk first".  A vote for another  *)
(* node is written to the disk before memory has it, and the disk is not   *)
(* written again before memory has followed.  The node's vote for itself   *)
(* is not persisted (a TODO of node.rs); that is all a restart forgets.    *)
(***************************************************************************)
CONSTANTS Self, Candidate

VARIABLES disk, memory

WriteAheadInit == memory = disk

\* No vote on the disk waits for memory to follow.
Settled == memory \in {disk, Self}

Persist(v) == Settled /\ disk' = v /\ UNCHANGED memory

\* Memory follows, or a new process reads the disk.
Publish == memory' = disk /\ UNCHANGED disk

VoteForSelf == Settled /\ memory' = Self /\ UNCHANGED disk

WriteAheadNext ==
    \/ \E v \in Candidate : Persist(v)
    \/ Publish
    \/ VoteForSelf

WriteAheadSpec == WriteAheadInit /\ [][WriteAheadNext]_<< disk, memory >>

=============================================================================
