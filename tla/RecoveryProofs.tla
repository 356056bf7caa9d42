--------------------------- MODULE RecoveryProofs ---------------------------
(***************************************************************************)
(* What survives restarts, for every cluster, every number of restarts and *)
(* every bound.  A step of Recovery is a step of Election or a restart, so *)
(* the lemmas of ElectionProofs are used for all steps but one.            *)
(***************************************************************************)
EXTENDS Recovery, ElectionProofs

USE DEF store_current_term, change_to_state, update_current_term,
        update_current_term_and_voted_for

-----------------------------------------------------------------------------
(***************************************************************************)
(* Steps                                                                   *)
(***************************************************************************)

\* Without a restart the nodes take a step of Election.
LEMMA ElectionOrRestart ==
    ASSUME [RecoveryNext]_recovery_vars
    PROVE  [Next]_vars \/ \E i \in Node : Restart(i)
<1>1. ASSUME NEW i \in Node, MemoryStep(i) PROVE Next
  BY <1>1, Zenon DEF MemoryStep, Next, MainTask, BackgroundTask
<1>2. ASSUME NEW i \in Node, StoreStep(i) PROVE Next
  BY <1>2, Zenon DEF StoreStep, Next, MainTask, BackgroundTask
<1>3. ASSUME LoseVoteRequest \/ LoseHeartbeat PROVE Next
  BY <1>3, Zenon DEF Next
<1>4. CASE UNCHANGED recovery_vars
  BY <1>4 DEF recovery_vars
<1>5. QED
  BY <1>1, <1>2, <1>3, <1>4, Zenon DEF RecoveryNext

-----------------------------------------------------------------------------
(***************************************************************************)
(* Type correctness                                                        *)
(***************************************************************************)

\* The requests that a process leaves behind.
LEMMA OrphanedVotes ==
    ASSUME NEW i \in Node, NEW rpcs \in SUBSET RequestVoteRequest
    PROVE  /\ Orphaned(i, rpcs) \subseteq RequestVoteRequest
           /\ \A m \in Orphaned(i, rpcs) : m.live => m \in rpcs /\ m.from # i
BY OrphanVote DEF Orphaned

\* The same of heartbeats.
LEMMA OrphanedHeartbeats ==
    ASSUME NEW i \in Node, NEW rpcs \in SUBSET Heartbeat
    PROVE  /\ Orphaned(i, rpcs) \subseteq Heartbeat
           /\ \A m \in Orphaned(i, rpcs) : m.live => m \in rpcs /\ m.from # i
BY OrphanHeartbeat DEF Orphaned

\* What the death of a process does to the messages: its own requests are
\* abandoned, and at most one that it was handling is gone.
LEMMA RestartMessages ==
    ASSUME TypeOK, NEW i \in Node, Restart(i)
    PROVE  /\ vote_rpcs' \subseteq RequestVoteRequest
           /\ vote_resps' = {m \in vote_resps : m.to # i}
           /\ append_rpcs' \subseteq Heartbeat
           /\ stale_resps' = {m \in stale_resps : m.to # i}
           /\ \A m \in vote_rpcs' : m.live => m \in vote_rpcs /\ m.from # i
           /\ \A m \in append_rpcs' : m.live => m \in append_rpcs /\ m.from # i
<1>1. CASE ExpireTasks(i)
  BY <1>1, DropVoteAnswersType, DropHeartbeatAnswersType DEF ExpireTasks, TypeOK
<1>2. CASE DieAdopting(i)
  <2>1. PICK m \in vote_rpcs : vote_rpcs' = Orphaned(i, vote_rpcs \ {m})
    BY <1>2, Zenon DEF DieAdopting
  <2>2. /\ vote_rpcs' \subseteq RequestVoteRequest
        /\ \A n \in vote_rpcs' : n.live => n \in vote_rpcs /\ n.from # i
    <3>1. vote_rpcs \ {m} \in SUBSET RequestVoteRequest
      BY DEF TypeOK
    <3> QED
      BY <2>1, <3>1, OrphanedVotes
  <2> QED
    BY <1>2, <2>2, DropHeartbeatAnswersType DEF DieAdopting, TypeOK
<1>3. CASE DieFollowing(i)
  <2>1. PICK m \in append_rpcs : append_rpcs' = Orphaned(i, append_rpcs \ {m})
    BY <1>3, Zenon DEF DieFollowing
  <2>2. /\ append_rpcs' \subseteq Heartbeat
        /\ \A n \in append_rpcs' : n.live => n \in append_rpcs /\ n.from # i
    <3>1. append_rpcs \ {m} \in SUBSET Heartbeat
      BY DEF TypeOK
    <3> QED
      BY <2>1, <3>1, OrphanedHeartbeats
  <2> QED
    BY <1>3, <2>2, DropVoteAnswersType DEF DieFollowing, TypeOK
<1> QED
  BY <1>1, <1>2, <1>3, Zenon DEF Restart

\* What it leaves in the State is well typed.
LEMMA RestartStore ==
    ASSUME RecoveryTypeOK, NEW i \in Node, Restart(i)
    PROVE  /\ stored_term' \in [Node -> Nat]
           /\ stored_vote' \in [Node -> Node \cup {None}]
           /\ log' \in [Node -> Log]
<1>0. TypeOK
  BY DEF RecoveryTypeOK
<1>1. CASE UNCHANGED << log, store_vars >>
  BY <1>0, <1>1 DEF RecoveryTypeOK, TypeOK, store_vars
<1>2. CASE DieAdopting(i)
  <2>1. PICK m \in vote_rpcs :
           /\ stored_term' = [stored_term EXCEPT ![i] = m.term]
           /\ stored_vote' \in {stored_vote, [stored_vote EXCEPT ![i] = m.from]}
    BY <1>2, Zenon DEF DieAdopting
  <2>2. m.term \in Nat /\ m.from \in Node /\ UNCHANGED log
    BY <1>0, <1>2 DEF TypeOK, RequestVoteRequest, DieAdopting
  <2> QED
    BY <1>0, <2>1, <2>2 DEF RecoveryTypeOK, TypeOK
<1>3. CASE DieFollowing(i)
  <2>1. PICK m \in append_rpcs :
           /\ stored_term' = [stored_term EXCEPT ![i] = m.term]
           /\ \/ UNCHANGED log
              \/ log' = [log EXCEPT ![i] = AppendedLog(@, HeartbeatRequest(m))]
    BY <1>3, Zenon DEF DieFollowing
  <2>2. m.term \in Nat /\ UNCHANGED stored_vote
    BY <1>0, <1>3 DEF TypeOK, Heartbeat, DieFollowing
  <2>3. AppendedLog(log[i], HeartbeatRequest(m)) \in Log
    BY <1>0, LogType DEF TypeOK, AppendedLog, HeartbeatRequest
  <2> QED
    BY <1>0, <2>1, <2>2, <2>3 DEF RecoveryTypeOK, TypeOK
<1> QED
  BY <1>1, <1>2, <1>3, Zenon DEF Restart

\* A restart leaves values of the right types, in memory and in flight.
LEMMA RestartType ==
    ASSUME RecoveryTypeOK, NEW i \in Node, Restart(i)
    PROVE  TypeOK'
<1>1. TypeOK
  BY DEF RecoveryTypeOK
<1>2. /\ vote_rpcs' \subseteq RequestVoteRequest
      /\ vote_resps' \subseteq RequestVoteResponse
      /\ append_rpcs' \subseteq Heartbeat
      /\ stale_resps' \subseteq StaleTermResponse
  BY <1>1, RestartMessages DEF TypeOK
<1>3. /\ current_term' \in [Node -> Nat]
      /\ voted_for' \in [Node -> Node \cup {None}]
      /\ log' \in [Node -> Log]
  BY <1>1, RestartStore DEF Restart, Rebuild, TypeOK
<1>4. /\ current_state' \in [Node -> TaskState]
      /\ leader_id' \in [Node -> Node \cup {None}]
      /\ role' \in [Node -> Role]
  BY <1>1 DEF Restart, Rebuild, TypeOK, TaskState, Running, Role
<1>5. /\ ack_peers' \in [Node -> SUBSET Node]
      /\ granted_votes' \in [Node -> Nat]
      /\ granters' \in [Node -> SUBSET Node]
      /\ vote_result' \in [Node -> {None, "NoPeers", "Granted"}]
  BY <1>1 DEF Restart, Rebuild, DropSession, TypeOK
<1>6. /\ collecting' \in [Node -> BOOLEAN]
      /\ votes_due' \in [Node -> SUBSET Node]
      /\ heartbeat_due' \in [Node -> BOOLEAN]
  BY <1>1 DEF Restart, Rebuild, TypeOK
<1>7. QED
  BY <1>2, <1>3, <1>4, <1>5, <1>6 DEF TypeOK

\* A State that derives its term from the log stores a number too.
LEMMA AppendedTermType ==
    ASSUME NEW l \in Log, NEW t \in Nat
    PROVE  AppendedTerm(l, t) \in Nat
BY LogType DEF AppendedTerm

\* Each step keeps what is stored well typed.
LEMMA RecoveryTypeStep ==
    ASSUME RecoveryTypeOK, [RecoveryNext]_recovery_vars
    PROVE  RecoveryTypeOK'
<1> USE DEF store_vars
<1>0. TypeOK /\ MaxRestarts \in Nat
  BY RecoveryAssumption DEF RecoveryTypeOK
<1>1. TypeOK'
  BY <1>0, ElectionOrRestart, TypeStep, RestartType
<1>2. ASSUME UNCHANGED << store_vars, restarts >> PROVE RecoveryTypeOK'
  BY <1>1, <1>2 DEF RecoveryTypeOK
<1>3. ASSUME NEW i \in Node, StoreStep(i), UNCHANGED restarts PROVE RecoveryTypeOK'
  <2>1. SUFFICES /\ stored_term' \in [Node -> Nat]
                 /\ stored_vote' \in [Node -> Node \cup {None}]
    BY <1>1, <1>3 DEF RecoveryTypeOK
  <2>2. CASE StoreAdoption(i)
    BY <1>1, <2>2 DEF StoreAdoption, RecoveryTypeOK, TypeOK
  <2>3. CASE StoreHeartbeat(i)
    <3>1. PICK m \in append_rpcs :
             /\ \/ UNCHANGED stored_term
                \/ stored_term' = [stored_term EXCEPT ![i] = m.term]
                \/ stored_term' = [stored_term EXCEPT ![i] = AppendedTerm(log'[i], m.term)]
             /\ UNCHANGED stored_vote
      BY <2>3, Zenon DEF StoreHeartbeat
    <3>2. m.term \in Nat /\ log'[i] \in Log
      BY <1>0, <1>1 DEF TypeOK, Heartbeat
    <3>3. AppendedTerm(log'[i], m.term) \in Nat
      BY <3>2, AppendedTermType
    <3>4. QED
      BY <3>1, <3>2, <3>3 DEF RecoveryTypeOK
  <2>4. CASE StoreClientRequest(i)
    <3>1. AppendedTerm(log'[i], stored_term[i]) \in Nat
      BY <1>1, AppendedTermType DEF RecoveryTypeOK, TypeOK
    <3>2. QED
      BY <2>4, <3>1 DEF StoreClientRequest, RecoveryTypeOK
  <2>5. CASE StoreStepDown(i)
    BY <1>1, <2>5 DEF StoreStepDown, RecoveryTypeOK, TypeOK
  <2>6. CASE stored_term' = [stored_term EXCEPT ![i] = current_term'[i]] /\ UNCHANGED stored_vote
    BY <1>1, <2>6 DEF RecoveryTypeOK, TypeOK
  <2>7. QED
    BY <1>3, <2>2, <2>3, <2>4, <2>5, <2>6 DEF StoreStep
<1>4. ASSUME NEW i \in Node, Restart(i) PROVE RecoveryTypeOK'
  BY <1>0, <1>1, <1>4, RestartStore DEF Restart, RecoveryTypeOK
<1>5. QED
  BY <1>2, <1>3, <1>4 DEF RecoveryNext, recovery_vars

\* What a State has when the nodes are first built.
LEMMA RecoveryTypeInit == RecoveryInit => RecoveryTypeOK
BY TypeInit, RecoveryAssumption DEF RecoveryInit, RecoveryTypeOK, TypeOK

\* Types are kept in memory and on disk, whatever restarts.
THEOREM RecoveryTypeCorrect == RecoverySpec => []RecoveryTypeOK
<1>1. RecoveryTypeOK /\ [RecoveryNext]_recovery_vars => RecoveryTypeOK'
  BY RecoveryTypeStep
<1>2. QED
  BY <1>1, RecoveryTypeInit, PTL DEF RecoverySpec

-----------------------------------------------------------------------------
(***************************************************************************)
(* Leadership                                                              *)
(***************************************************************************)

\* The dead process takes its sessions and tasks with it.
LEMMA RestartQuorum ==
    ASSUME RecoveryTypeOK, QuorumInv, NEW i \in Node, Restart(i)
    PROVE  QuorumInv'
<1>0. TypeOK
  BY DEF QuorumInv
<1>1. TypeOK'
  BY RestartType
<1>2. RoleInv'
  BY <1>0 DEF Restart, Rebuild, QuorumInv, RoleInv, TypeOK
<1>3. SessionInv'
  BY <1>0 DEF Restart, Rebuild, DropSession, QuorumInv, SessionInv, TypeOK
<1>4. AnswerInv'
  <2>1. \A j \in Node \ {i} : /\ collecting'[j] = collecting[j]
                              /\ ack_peers'[j] = ack_peers[j]
                              /\ votes_due'[j] = votes_due[j]
    BY <1>0 DEF Restart, Rebuild, DropSession, TypeOK
  <2>2. /\ \A m \in vote_rpcs : m.from \in Node
        /\ \A m \in vote_resps : m.to \in Node
    BY <1>0 DEF TypeOK, RequestVoteRequest, RequestVoteResponse
  <2>3. QED
    BY <1>0, <2>1, <2>2, RestartMessages DEF QuorumInv, AnswerInv
<1>5. ResultInv'
  BY <1>0, NoneIsNoResult DEF Restart, Rebuild, DropSession, QuorumInv, ResultInv, TypeOK
<1>6. LeaderHasQuorum'
  BY <1>0 DEF Restart, Rebuild, DropSession, QuorumInv, LeaderHasQuorum, TypeOK
<1>7. QED
  BY <1>1, <1>2, <1>3, <1>4, <1>5, <1>6 DEF QuorumInv

\* A restarted node neither campaigns nor leads, and nobody gains a vote.
LEMMA RestartUnanimity ==
    ASSUME RecoveryTypeOK, UnanimityInv, NEW i \in Node, Restart(i)
    PROVE  UnanimityInv'
<1>0. TypeOK /\ QuorumInv
  BY DEF UnanimityInv, QuorumInv
<1>1. QuorumInv'
  BY <1>0, RestartQuorum
<1>2. HeartbeatInv'
  <2>1. /\ \A m \in append_rpcs' : m.live => m \in append_rpcs /\ m.from # i
        /\ stale_resps' = {m \in stale_resps : m.to # i}
    BY <1>0, RestartMessages
  <2>2. QED
    BY <1>0, <2>1 DEF Restart, Rebuild, UnanimityInv, HeartbeatInv, TypeOK
<1>3. StepDownInv'
  BY <1>0 DEF Restart, Rebuild, DropSession, UnanimityInv, StepDownInv, TypeOK
<1>4. RivalInv'
  BY <1>0, NoVotesLeft, RestartMessages DEF Restart, Rebuild, DropSession, UnanimityInv, TypeOK
<1>5. QED
  BY <1>1, <1>2, <1>3, <1>4 DEF UnanimityInv

\* In every cluster, whatever restarts, a leader holds enough votes of distinct
\* peers.
THEOREM RestartsKeepQuorums == RecoverySpec => []LeaderHasQuorum
<1> DEFINE I == RecoveryTypeOK /\ QuorumInv
<1>1. RecoveryInit => I
  BY RecoveryTypeInit, QuorumInit DEF RecoveryInit
<1>2. I /\ [RecoveryNext]_recovery_vars => I'
  BY RecoveryTypeStep, ElectionOrRestart, QuorumInvStep, RestartQuorum
<1>3. I => LeaderHasQuorum
  BY DEF QuorumInv
<1>4. QED
  BY <1>1, <1>2, <1>3, PTL DEF RecoverySpec

\* Restarts included, a node that leads has its own vote: one that has forgotten
\* it leads no more.
THEOREM RestartsKeepOwnVotes == RecoverySpec => []LeaderVotedForItself
<1> DEFINE I == RecoveryTypeOK /\ QuorumInv
<1>1. RecoveryInit => I
  BY RecoveryTypeInit, QuorumInit DEF RecoveryInit
<1>2. I /\ [RecoveryNext]_recovery_vars => I'
  BY RecoveryTypeStep, ElectionOrRestart, QuorumInvStep, RestartQuorum
<1>3. I => LeaderVotedForItself
  BY DEF QuorumInv, RoleInv, LeaderVotedForItself
<1>4. QED
  BY <1>1, <1>2, <1>3, PTL DEF RecoverySpec

\* Where every vote is needed, leadership is held by one node at a time although
\* restarts forget terms and votes.
THEOREM RestartsKeepLeadership ==
    ASSUME Unanimous
    PROVE  RecoverySpec => ImplementsLeadership
<1> DEFINE I == RecoveryTypeOK /\ UnanimityInv
<1>1. RecoveryInit => I /\ Abstract!LeadershipInit
  BY RecoveryTypeInit, UnanimityInit
  DEF RecoveryInit, Init, Abstract!LeadershipInit, leaders
<1>2. I /\ [RecoveryNext]_recovery_vars => I'
  BY RecoveryTypeStep, ElectionOrRestart, UnanimityStep, RestartUnanimity
<1>3. I /\ I' /\ [RecoveryNext]_recovery_vars => [Abstract!LeadershipNext]_leaders
  <2> SUFFICES ASSUME I, I', [RecoveryNext]_recovery_vars
               PROVE  [Abstract!LeadershipNext]_leaders
    OBVIOUS
  <2>1. OneLeader /\ TypeOK
    BY UnanimityGivesOneLeader DEF UnanimityInv, QuorumInv
  <2>2. OneLeader'
    <3>1. UnanimityInv'
      OBVIOUS
    <3>2. QED
      BY <3>1, UnanimityGivesOneLeader, PTL
  <2>3. ASSUME NEW i \in Node, Restart(i)
        PROVE  \A j \in Node \ {i} : current_state'[j] = current_state[j]
    BY <2>1, <2>3 DEF Restart, Rebuild, TypeOK
  <2>4. \E i \in Node : \A j \in Node \ {i} : current_state'[j] = current_state[j]
    BY <2>1, <2>3, ElectionOrRestart, OneNodeAtATime
  <2>5. QED
    BY <2>1, <2>2, <2>4, LeadersStep
<1>4. QED
  BY <1>1, <1>2, <1>3, PTL DEF RecoverySpec, ImplementsLeadership, Abstract!LeadershipSpec

-----------------------------------------------------------------------------
(***************************************************************************)
(* What a restart forgets                                                  *)
(***************************************************************************)

\* A step of the background or the main task that writes nothing to the State
\* leaves a node's term and vote alone, or makes the node vote for itself.
LEMMA MemoryChanges ==
    ASSUME TypeOK, NEW i \in Node, MemoryStep(i)
    PROVE  /\ \A j \in Node \ {i} : /\ current_term'[j] = current_term[j]
                                   /\ voted_for'[j] = voted_for[j]
           /\ \/ UNCHANGED << current_term, voted_for >>
              \/ voted_for'[i] = i
<1> USE DEF node_vars, session_vars, task_vars, vote_net, append_net
<1>1. CASE EnterCandidate(i) \/ CandidateTimeout(i)
  BY <1>1 DEF EnterCandidate, CandidateTimeout, NewVoteSession,
              increment_term_and_vote_for_self, TypeOK
<1>2. CASE \/ EnterFollower(i) \/ EnterLeader(i) \/ Stop(i) \/ LeaveRole(i)
           \/ ReceiveShutdown(i) \/ FollowerTimeout(i) \/ RetryTimeout(i)
           \/ WinElection(i) \/ HeartbeatTimeout(i) \/ SendVoteRequest(i)
           \/ SendHeartbeats(i)
  BY <1>2 DEF EnterFollower, EnterLeader, Stop, LeaveRole, ReceiveShutdown, FollowerTimeout,
              RetryTimeout, WinElection, HeartbeatTimeout, SendVoteRequest, SendHeartbeats
<1>3. QED
  BY <1>1, <1>2 DEF MemoryStep

\* Losing a message changes neither terms nor votes.
LEMMA LossChanges ==
    ASSUME LoseVoteRequest \/ LoseHeartbeat
    PROVE  UNCHANGED << current_term, voted_for >>
BY DEF LoseVoteRequest, LoseHeartbeat, node_vars

\* Each step keeps the votes for others on disk.
LEMMA VotesStep ==
    ASSUME RecoveryTypeOK, OnlyOwnVotesAreLost, [RecoveryNext]_recovery_vars
    PROVE  OnlyOwnVotesAreLost'
<1> USE DEF node_vars, session_vars, task_vars, vote_net, append_net, store_vars
<1>0. TypeOK
  BY DEF RecoveryTypeOK
<1>1. ASSUME NEW i \in Node, MemoryStep(i), UNCHANGED << store_vars, restarts >>
      PROVE  OnlyOwnVotesAreLost'
  BY <1>0, <1>1, MemoryChanges DEF OnlyOwnVotesAreLost
<1>2. ASSUME NEW i \in Node, HandleRequestVote(i), StoreAdoption(i)
      PROVE  OnlyOwnVotesAreLost'
  <2>1. \A j \in Node \ {i} : voted_for'[j] = voted_for[j]
    <3>1. \E v : voted_for' = voted_for \/ voted_for' = [voted_for EXCEPT ![i] = v]
      BY <1>2, Zenon DEF HandleRequestVote
    <3>2. QED
      BY <1>0, <3>1 DEF TypeOK
  <2>2. \A j \in Node \ {i} : stored_vote'[j] = stored_vote[j]
    BY <1>2 DEF StoreAdoption, RecoveryTypeOK
  <2>3. \/ stored_vote'[i] = voted_for'[i]
        \/ voted_for'[i] = voted_for[i] /\ UNCHANGED stored_vote
    BY <1>2 DEF StoreAdoption, RecoveryTypeOK
  <2>4. QED
    BY <2>1, <2>2, <2>3 DEF OnlyOwnVotesAreLost
<1>3. ASSUME NEW i \in Node,
             \/ HandleHeartbeat(i) /\ StoreHeartbeat(i)
             \/ ClientRequest(i) /\ StoreClientRequest(i)
             \/ CollectVote(i) /\ StoreStepDown(i)
             \/ CollectHeartbeat(i) /\ UNCHANGED stored_vote
      PROVE  OnlyOwnVotesAreLost'
  <2>1. UNCHANGED stored_vote
    BY <1>3, Zenon DEF StoreHeartbeat, StoreClientRequest, StoreStepDown
  <2>2. CASE HandleHeartbeat(i)
    <3>1. UNCHANGED voted_for
      BY <2>2, Zenon DEF HandleHeartbeat
    <3>2. QED
      BY <2>1, <3>1 DEF OnlyOwnVotesAreLost
  <2>3. CASE ClientRequest(i) \/ CollectVote(i) \/ CollectHeartbeat(i)
    <3>1. UNCHANGED voted_for
      BY <2>3 DEF ClientRequest, CollectVote, VoteStepDown, CountAnswer, DecidingVote,
                  CollectHeartbeat
    <3>2. QED
      BY <2>1, <3>1 DEF OnlyOwnVotesAreLost
  <2>4. QED
    BY <1>3, <2>2, <2>3
<1>4. ASSUME NEW i \in Node, Restart(i) PROVE OnlyOwnVotesAreLost'
  <2>1. \A j \in Node \ {i} : stored_vote'[j] = stored_vote[j]
    BY <1>4 DEF Restart, DieAdopting, DieFollowing, RecoveryTypeOK
  <2>2. /\ \A j \in Node \ {i} : voted_for'[j] = voted_for[j]
        /\ voted_for'[i] = stored_vote'[i]
    BY <1>0, <1>4 DEF Restart, Rebuild, TypeOK
  <2> QED
    BY <2>1, <2>2 DEF OnlyOwnVotesAreLost
<1>5. ASSUME LoseVoteRequest \/ LoseHeartbeat, UNCHANGED << store_vars, restarts >>
      PROVE  OnlyOwnVotesAreLost'
  BY <1>5, LossChanges DEF OnlyOwnVotesAreLost
<1>6. CASE UNCHANGED recovery_vars
  BY <1>6 DEF recovery_vars, vars, OnlyOwnVotesAreLost
<1>7. ASSUME NEW i \in Node, StoreStep(i) PROVE OnlyOwnVotesAreLost'
  BY <1>2, <1>3, <1>7, Zenon DEF StoreStep
<1>8. QED
  BY <1>1, <1>4, <1>5, <1>6, <1>7, Zenon DEF RecoveryNext

\* On every State, a restart forgets no vote for another node.
THEOREM VotesForOthersSurvive == RecoverySpec => []OnlyOwnVotesAreLost
<1>1. RecoveryInit => OnlyOwnVotesAreLost
  BY DEF RecoveryInit, OnlyOwnVotesAreLost
<1>2. RecoveryTypeOK /\ OnlyOwnVotesAreLost /\ [RecoveryNext]_recovery_vars
        => OnlyOwnVotesAreLost'
  BY VotesStep
<1>3. QED
  BY <1>1, <1>2, RecoveryTypeCorrect, PTL DEF RecoverySpec

=============================================================================
