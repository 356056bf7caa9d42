--------------------------- MODULE HandlersProofs ---------------------------
(***************************************************************************)
(* Proofs about Handlers, for any number of collectors and peers.          *)
(***************************************************************************)
EXTENDS Handlers, TLAPS

LEMMA TermTypes == RpcTerms \subseteq Nat
<1> SUFFICES ASSUME NEW t \in RpcTerms PROVE t \in Nat
  OBVIOUS
<1>1. t \in 0 .. MaxTerm - 1
  BY HandlersAssumption
<1> QED
  BY <1>1, HandlersAssumption

LEMMA RpcTypes ==
    \A r \in Rpc : /\ r.term \in Nat /\ r.from \in Peer
                   /\ r.kind \in {"RequestVote", "AppendEntries"}
BY TermTypes DEF Rpc

LEMMA NoTaskType == NoTask \in Collector
BY DEF NoTask, Collector

LEMMA SpawnTypes ==
    ASSUME NEW ts \in [Task -> Collector], NEW kind \in {"Vote", "Heartbeat"},
           Spawn(kind, ts)
    PROVE  tasks' \in [Task -> Collector]
BY DEF Spawn, Collector

-----------------------------------------------------------------------------

\* A request is there while a handler runs.
LEMMA Requests ==
    ASSUME pc \in Answering => request \in Rpc, [Next]_vars
    PROVE  (pc \in Answering => request \in Rpc)'
<1> USE DEF Answering, At
<1>1. CASE Dispatch \/ CheckState \/ Campaign
  BY <1>1 DEF Dispatch, CheckState, Campaign, Increment, VoteSelf, FollowerTimeout,
              CandidateTimeout, SpawnTimeout, WinElection
<1>2. CASE Respond
  BY <1>2 DEF Respond, Receive, CheckVote, StoreTerm, StoreVote, SetTerm, SetVote, Follow
<1>3. ASSUME NEW c \in Task, Collect(c) PROVE (pc \in Answering => request \in Rpc)'
  BY <1>3 DEF Collect, Grant, ReceiveStaleTerm, CollectorStoresTerm, CollectorSetsTerm,
              CollectorStepsDown, Cancel
<1>4. CASE Restart \/ UNCHANGED vars
  BY <1>4 DEF Restart, vars
<1> QED
  BY <1>1, <1>2, <1>3, <1>4 DEF Next

\* The votes that still count are votes.
LEMMA VoteTypes ==
    ASSUME votes \subseteq Vote
    PROVE  \A t : VotesUpTo(t) \subseteq Vote
BY DEF VotesUpTo

LEMMA MainTypes ==
    ASSUME TypeOK, pc \in Answering => request \in Rpc,
           Dispatch \/ CheckState \/ Campaign \/ Respond \/ Restart
    PROVE  TypeOK'
<1> USE DEF TypeOK, At, cells
<1>1. CASE Dispatch
  <2>1. tasks' \in [Task -> Collector]
    BY <1>1, SpawnTypes DEF Dispatch
  <2> QED
    BY <1>1, <2>1 DEF Dispatch
<1>2. CASE CheckState
  BY <1>2 DEF CheckState
<1>3. CASE Increment
  BY <1>3 DEF Increment, Vote
<1>4. CASE VoteSelf
  <2> DEFINE ts == [c \in Task |-> IF tasks[c].kind = "Vote"
                                   THEN [tasks[c] EXCEPT !.kind = "Old"] ELSE tasks[c]]
  <2>1. ts \in [Task -> Collector]
    BY DEF Collector
  <2>2. tasks' \in [Task -> Collector]
    BY <1>4, <2>1, SpawnTypes DEF VoteSelf
  <2> QED
    BY <1>4, <2>2 DEF VoteSelf
<1>5. CASE FollowerTimeout \/ CandidateTimeout \/ WinElection
  BY <1>5 DEF FollowerTimeout, CandidateTimeout, WinElection
<1>6. CASE SpawnTimeout
  <2>1. tasks' \in [Task -> Collector]
    BY <1>6, SpawnTypes DEF SpawnTimeout
  <2> QED
    BY <1>6, <2>1 DEF SpawnTimeout
<1>7. CASE Receive \/ CheckVote
  BY <1>7 DEF Receive, CheckVote
<1>8. CASE StoreTerm \/ StoreVote \/ SetVote \/ Follow
  BY <1>8, RpcTypes DEF Answering, StoreTerm, StoreVote, SetVote, Follow
<1>9. CASE SetTerm
  <2>1. request \in Rpc
    BY <1>9 DEF SetTerm, Answering
  <2>2. votes' \subseteq Vote
    BY <1>9, <2>1, RpcTypes, VoteTypes DEF SetTerm, Vote
  <2> QED
    BY <1>9, <2>1, <2>2, RpcTypes DEF SetTerm
<1>10. CASE Restart
  <2>1. tasks' \in [Task -> Collector]
    BY <1>10, NoTaskType DEF Restart
  <2>2. votes' \subseteq Vote
    BY <1>10, VoteTypes DEF Restart
  <2> QED
    BY <1>10, <2>1, <2>2 DEF Restart
<1> QED
  BY <1>1, <1>2, <1>3, <1>4, <1>5, <1>6, <1>7, <1>8, <1>9, <1>10 DEF Campaign, Respond

LEMMA TaskTypes ==
    ASSUME TypeOK, NEW c \in Task, Collect(c)
    PROVE  TypeOK'
<1> USE DEF TypeOK, TaskAt, TaskEnds, cells
<1>1. tasks[c] \in Collector /\ tasks[c].term \in Nat
  BY DEF Collector
<1>2. tasks' \in [Task -> Collector]
  <2>1. CASE ReceiveStaleTerm(c)
    <3>1. PICK t \in RpcTerms : tasks' = [tasks EXCEPT ![c].pc = "StoreTerm", ![c].term = t]
      BY <2>1 DEF ReceiveStaleTerm
    <3>2. t \in Nat
      BY TermTypes
    <3>3. [tasks[c] EXCEPT !.pc = "StoreTerm", !.term = t] \in Collector
      BY <3>2 DEF Collector
    <3> QED
      BY <3>1, <3>3
  <2>2. CASE CollectorStoresTerm(c) \/ CollectorSetsTerm(c)
    BY <2>2 DEF CollectorStoresTerm, CollectorSetsTerm, Collector
  <2> QED
    BY <2>1, <2>2, NoTaskType DEF Collect, Grant, CollectorStepsDown, Cancel
<1>3. CASE Grant(c)
  <2>1. vote_result' \in BOOLEAN
    BY <1>3 DEF Grant
  <2> QED
    BY <1>2, <1>3, <2>1 DEF Grant
<1>4. CASE ReceiveStaleTerm(c) \/ Cancel(c)
  <2>1. UNCHANGED << current_term, voted_for, current_state, stored_term, stored_vote,
                     role, pc, request, vote_result, votes >>
    BY <1>4 DEF ReceiveStaleTerm, Cancel
  <2> QED
    BY <1>2, <2>1
<1>5. CASE CollectorStoresTerm(c)
  BY <1>1, <1>2, <1>5 DEF CollectorStoresTerm
<1>6. CASE CollectorSetsTerm(c)
  BY <1>1, <1>2, <1>6, VoteTypes DEF CollectorSetsTerm
<1>7. CASE CollectorStepsDown(c)
  BY <1>2, <1>7 DEF CollectorStepsDown
<1> QED
  BY <1>3, <1>4, <1>5, <1>6, <1>7 DEF Collect

\* Whatever the interleaving of the node's tasks, its cells keep their types.
THEOREM TypeCorrect == Spec => []TypeOK
<1> DEFINE Inv == TypeOK /\ (pc \in Answering => request \in Rpc)
<1>1. Init => Inv
  <2> SUFFICES ASSUME Init PROVE Inv
    OBVIOUS
  <2>1. tasks \in [Task -> Collector]
    BY NoTaskType DEF Init
  <2> QED
    BY <2>1 DEF Init, TypeOK, Answering
<1>2. Inv /\ [Next]_vars => Inv'
  <2> SUFFICES ASSUME Inv, [Next]_vars PROVE TypeOK'
    BY Requests
  <2>1. CASE UNCHANGED vars
    BY <2>1 DEF TypeOK, vars, cells
  <2> QED
    BY <2>1, MainTypes, TaskTypes DEF Next
<1> QED
  BY <1>1, <1>2, PTL DEF Spec

-----------------------------------------------------------------------------

\* For every interleaving of handlers and collectors, a candidate or a leader that
\* waits for its next event holds its own vote.
THEOREM OwnVotes == Spec => []OwnVoteAtSelect
<1>1. Init => RoleInv
  BY DEF Init, RoleInv, Answering
<1>2. TypeOK /\ RoleInv /\ [Next]_vars => RoleInv'
  <2> SUFFICES ASSUME TypeOK, RoleInv, [Next]_vars PROVE RoleInv'
    OBVIOUS
  <2> USE DEF RoleInv, Answering, At, cells
  <2>1. CASE Dispatch \/ CheckState
    BY <2>1 DEF Dispatch, CheckState, TypeOK
  <2>2. CASE Campaign
    BY <2>2 DEF Campaign, Increment, VoteSelf, FollowerTimeout, CandidateTimeout,
                SpawnTimeout, WinElection
  <2>3. CASE Receive \/ CheckVote
    BY <2>3 DEF Receive, CheckVote
  <2>4. CASE StoreTerm \/ StoreVote \/ SetTerm \/ SetVote \/ Follow
    BY <2>4 DEF StoreTerm, StoreVote, SetTerm, SetVote, Follow
  <2>5. ASSUME NEW c \in Task, Collect(c) PROVE RoleInv'
    BY <2>5 DEF Collect, Grant, ReceiveStaleTerm, CollectorStoresTerm, CollectorSetsTerm,
                CollectorStepsDown, Cancel
  <2>6. CASE Restart \/ UNCHANGED vars
    BY <2>6 DEF Restart, vars
  <2> QED
    BY <2>1, <2>2, <2>3, <2>4, <2>5, <2>6 DEF Next, Respond
<1>3. RoleInv => OwnVoteAtSelect
  BY DEF RoleInv, OwnVoteAtSelect
<1> QED
  BY <1>1, <1>2, <1>3, TypeCorrect, PTL DEF Spec

\* Every step keeps the vote that is being given, and where it is.
LEMMA StoredVoteStep ==
    ASSUME StoredVoteInv, [Next]_vars
    PROVE  StoredVoteInv'
<1> USE DEF StoredVoteInv, Answering, At, cells
<1>1. CASE Dispatch \/ CheckState
  BY <1>1 DEF Dispatch, CheckState
<1>2. CASE Campaign
  BY <1>2 DEF Campaign, Increment, VoteSelf, FollowerTimeout, CandidateTimeout,
              SpawnTimeout, WinElection
<1>3. CASE Receive \/ CheckVote
  BY <1>3 DEF Receive, CheckVote
<1>4. CASE StoreTerm \/ StoreVote
  BY <1>4, RpcTypes DEF StoreTerm, StoreVote
<1>5. CASE SetTerm \/ SetVote \/ Follow
  BY <1>5, RpcTypes DEF SetTerm, SetVote, Follow
<1>6. ASSUME NEW c \in Task, Collect(c) PROVE StoredVoteInv'
  BY <1>6 DEF Collect, Grant, ReceiveStaleTerm, CollectorStoresTerm, CollectorSetsTerm,
              CollectorStepsDown, Cancel
<1>7. CASE Restart \/ UNCHANGED vars
  BY <1>7 DEF Restart, vars
<1> QED
  BY <1>1, <1>2, <1>3, <1>4, <1>5, <1>6, <1>7 DEF Next, Respond

LEMMA StoredVoteInit == Init => StoredVoteInv
BY DEF Init, StoredVoteInv, Answering

\* For every interleaving, a vote for another node is in the State when its handler
\* has ended, although the term stored with it may not be.
THEOREM StoredVotes == Spec => []VotesAreStored
<1>1. StoredVoteInv => VotesAreStored
  BY DEF StoredVoteInv, VotesAreStored
<1> QED
  BY <1>1, StoredVoteInit, StoredVoteStep, PTL DEF Spec

-----------------------------------------------------------------------------

\* The votes of terms up to the current one are kept by what does not give one.
LEMMA VotesKept ==
    ASSUME VotesInv, NEW t, current_term' = t, votes' \subseteq VotesUpTo(t),
           TypeOK, t \in Nat
    PROVE  /\ \A v \in votes' : v \in votes /\ v.term <= current_term'
           /\ OneVotePerTerm'
<1>1. \A v \in votes : v.term \in Nat
  BY DEF TypeOK, Vote
<1>2. \A v \in votes' : v \in votes /\ ~ (t < current_term)
  BY DEF VotesUpTo
<1> QED
  BY <1>1, <1>2 DEF VotesInv, OneVotePerTerm, TypeOK

\* Every step keeps to one vote in a term.  A collector may change the term at any
\* time; the votes that count are then of terms up to the new one.
LEMMA VotesStep ==
    ASSUME TypeOK, StoredVoteInv, VotesInv, [Next]_vars, TypeOK'
    PROVE  VotesInv'
<1> USE DEF At, cells
<1>0. \A v \in votes : v.term \in Nat
  BY DEF TypeOK, Vote
<1>1. CASE Dispatch \/ CheckState
  BY <1>1 DEF Dispatch, CheckState, VotesInv, OneVotePerTerm
<1>2. CASE Increment
  <2>1. \A v \in votes : v.term < current_term + 1
    BY <1>0 DEF VotesInv, TypeOK
  <2>2. \A v \in votes' : v.term <= current_term'
    BY <1>0, <1>2, <2>1 DEF Increment, TypeOK
  <2>3. OneVotePerTerm'
    BY <1>0, <1>2, <2>1 DEF Increment, VotesInv, OneVotePerTerm, TypeOK
  <2>4. stored_vote' = None => \A v \in votes' : v.candidate = Self
    BY <1>2 DEF Increment, VotesInv
  <2> QED
    BY <1>2, <2>2, <2>3, <2>4 DEF Increment, VotesInv
<1>3. CASE VoteSelf
  BY <1>3, HandlersAssumption DEF VoteSelf, VotesInv, OneVotePerTerm
<1>4. CASE FollowerTimeout \/ CandidateTimeout \/ SpawnTimeout \/ WinElection
  BY <1>4 DEF FollowerTimeout, CandidateTimeout, SpawnTimeout, WinElection,
              VotesInv, OneVotePerTerm
<1>5. CASE Receive
  <2>1. pc' = "StoreTerm" /\ request'.kind = "RequestVote" => current_term < request'.term
    BY <1>5 DEF Receive, Rpc
  <2>2. pc' = "StoreTerm" /\ request'.kind = "RequestVote" => request'.term \in Nat
    BY <1>5, RpcTypes DEF Receive
  <2> QED
    BY <1>0, <1>5, <2>1, <2>2 DEF Receive, VotesInv, OneVotePerTerm, TypeOK
<1>6. CASE CheckVote
  BY <1>6 DEF CheckVote, VotesInv, OneVotePerTerm
<1>7. CASE StoreTerm
  BY <1>7 DEF StoreTerm, VotesInv, OneVotePerTerm
<1>8. CASE StoreVote
  <2>1. stored_vote' # None
    BY <1>8, RpcTypes, HandlersAssumption DEF StoreVote, StoredVoteInv, Answering
  <2> QED
    BY <1>8, <2>1 DEF StoreVote, VotesInv, OneVotePerTerm
<1>9. CASE SetTerm
  <2>1. request \in Rpc /\ request.term \in Nat /\ request.from \in Peer
    BY <1>9, RpcTypes DEF SetTerm, StoredVoteInv, Answering
  <2>2. CASE request.kind = "RequestVote"
    <3> DEFINE given == [term |-> request.term, candidate |-> request.from]
    <3>1. votes' = VotesUpTo(request.term) \cup {given}
      BY <1>9, <2>2 DEF SetTerm
    <3>2. \A v \in VotesUpTo(request.term) : v \in votes /\ v.term < request.term
      BY <1>9, <2>2 DEF SetTerm, VotesUpTo, VotesInv
    <3>3. \A v \in votes' : v.term <= current_term'
      BY <1>0, <1>9, <2>1, <3>1, <3>2 DEF SetTerm
    <3>4. OneVotePerTerm'
      BY <1>0, <2>1, <3>1, <3>2 DEF VotesInv, OneVotePerTerm
    <3>5. stored_vote' # None
      BY <1>9, <2>1, <2>2, HandlersAssumption DEF SetTerm, StoredVoteInv
    <3> QED
      BY <1>9, <2>2, <3>3, <3>4, <3>5 DEF SetTerm, VotesInv
  <2>3. CASE request.kind # "RequestVote"
    <3>1. votes' \subseteq VotesUpTo(request.term)
      BY <1>9, <2>3 DEF SetTerm
    <3>2. (\A v \in votes' : v \in votes /\ v.term <= current_term') /\ OneVotePerTerm'
      BY <1>9, <2>1, <3>1, VotesKept DEF SetTerm
    <3> QED
      BY <1>9, <2>3, <3>2 DEF SetTerm, VotesInv
  <2> QED
    BY <2>2, <2>3
<1>10. CASE SetVote \/ Follow
  <2>1. CASE SetVote
    <3>1. voted_for' # None
      BY <2>1, RpcTypes, HandlersAssumption DEF SetVote, StoredVoteInv, Answering
    <3> QED
      BY <2>1, <3>1 DEF SetVote, VotesInv, OneVotePerTerm
  <2>2. CASE Follow
    BY <2>2 DEF Follow, VotesInv, OneVotePerTerm
  <2> QED
    BY <1>10, <2>1, <2>2
<1>11. CASE Restart
  <2>1. votes' \subseteq VotesUpTo(stored_term)
    BY <1>11 DEF Restart
  <2>2. (\A v \in votes' : v \in votes /\ v.term <= current_term') /\ OneVotePerTerm'
    BY <1>11, <2>1, VotesKept DEF Restart, TypeOK
  <2>3. stored_vote = None => votes' = {}
    BY <1>11, <2>2 DEF Restart, VotesInv
  <2> QED
    BY <1>11, <2>2, <2>3 DEF Restart, VotesInv
<1>12. ASSUME NEW c \in Task, Collect(c) PROVE VotesInv'
  <2>1. CASE CollectorSetsTerm(c)
    <3>1. votes' \subseteq VotesUpTo(current_term')
      BY <2>1 DEF CollectorSetsTerm
    <3>2. (\A v \in votes' : v \in votes /\ v.term <= current_term') /\ OneVotePerTerm'
      BY <3>1, VotesKept DEF TypeOK
    <3> QED
      BY <2>1, <3>2 DEF CollectorSetsTerm, VotesInv
  <2> QED
    BY <1>12, <2>1 DEF Collect, Grant, ReceiveStaleTerm, CollectorStoresTerm,
                       CollectorStepsDown, Cancel, VotesInv, OneVotePerTerm
<1>13. CASE UNCHANGED vars
  BY <1>13 DEF vars, VotesInv, OneVotePerTerm
<1> QED
  BY <1>1, <1>2, <1>3, <1>4, <1>5, <1>6, <1>7, <1>8, <1>9, <1>10, <1>11, <1>12, <1>13
  DEF Next, Campaign, Respond

\* For every interleaving of handlers, collectors and restarts: while its term does
\* not go down, a node votes for one candidate in a term.
THEOREM OneVote == Spec => []OneVotePerTerm
<1>1. Init => VotesInv
  BY DEF Init, VotesInv, OneVotePerTerm
<1>2. VotesInv => OneVotePerTerm
  BY DEF VotesInv
<1> QED
  BY <1>1, <1>2, StoredVoteInit, StoredVoteStep, VotesStep, TypeCorrect, PTL DEF Spec

-----------------------------------------------------------------------------
(***************************************************************************)
(* Refinement of WriteAhead                                                *)
(***************************************************************************)

\* The accesses that write a vote are its steps.  The others stutter.
LEMMA VoteAccess ==
    ASSUME StoredVoteInv, [Next]_vars
    PROVE  [Disk!WriteAheadNext]_<< stored_vote, voted_for >>
<1> USE DEF StoredVoteInv, Answering, At, cells
<1>1. CASE StoreVote
  <2>1. request.from \in Peer
    BY <1>1, RpcTypes DEF StoreVote
  <2>2. Disk!Persist(request.from)
    BY <1>1 DEF StoreVote, Disk!Persist, Disk!Settled
  <2> QED
    BY <2>1, <2>2 DEF Disk!WriteAheadNext
<1>2. CASE SetVote
  <2>1. Disk!Publish
    BY <1>2 DEF SetVote, Disk!Publish
  <2> QED
    BY <2>1 DEF Disk!WriteAheadNext
<1>3. CASE VoteSelf
  <2>1. Disk!VoteForSelf
    BY <1>3 DEF VoteSelf, Disk!VoteForSelf, Disk!Settled
  <2> QED
    BY <2>1 DEF Disk!WriteAheadNext
<1>4. CASE \/ Dispatch \/ CheckState \/ Increment \/ FollowerTimeout \/ CandidateTimeout
           \/ SpawnTimeout \/ WinElection
  BY <1>4 DEF Dispatch, CheckState, Increment, FollowerTimeout, CandidateTimeout,
              SpawnTimeout, WinElection
<1>5. CASE Receive \/ CheckVote \/ StoreTerm \/ SetTerm \/ Follow
  BY <1>5 DEF Receive, CheckVote, StoreTerm, SetTerm, Follow
<1>6. ASSUME NEW c \in Task, Collect(c) PROVE UNCHANGED << stored_vote, voted_for >>
  BY <1>6 DEF Collect, Grant, ReceiveStaleTerm, CollectorStoresTerm, CollectorSetsTerm,
              CollectorStepsDown, Cancel
<1>7. CASE UNCHANGED vars
  BY <1>7 DEF vars
<1>8. CASE Restart
  <2>1. Disk!Publish
    BY <1>8 DEF Restart, Disk!Publish
  <2> QED
    BY <2>1 DEF Disk!WriteAheadNext
<1> QED
  BY <1>1, <1>2, <1>3, <1>4, <1>5, <1>6, <1>7, <1>8 DEF Next, Campaign, Respond

\* For every interleaving of handlers, collectors and restarts, votes go to the disk before
\* they go to memory, one at a time.
THEOREM HandlersWriteAhead == Spec => VotesWriteAhead
<1>1. Init => Disk!WriteAheadInit
  BY DEF Init, Disk!WriteAheadInit
<1> QED
  BY <1>1, StoredVoteInit, StoredVoteStep, VoteAccess, PTL
  DEF Spec, VotesWriteAhead, Disk!WriteAheadSpec

=============================================================================
