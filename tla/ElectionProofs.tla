--------------------------- MODULE ElectionProofs ---------------------------
(***************************************************************************)
(* Theorems about Election, for every cluster and every bound.             *)
(***************************************************************************)
EXTENDS Election, TLAPS, FiniteSetTheorems

-----------------------------------------------------------------------------
(***************************************************************************)
(* The assignments and the client branches are always read through.        *)
(***************************************************************************)
USE DEF change_to_state, update_current_term, update_current_term_and_voted_for,
        increment_term_and_vote_for_self, Orphaned, RedirectClient, AppendClientRequest

-----------------------------------------------------------------------------
(***************************************************************************)
(* Type correctness                                                        *)
(***************************************************************************)

\* What build() sets up has the types of the structs.
LEMMA TypeInit == Init => TypeOK
<1> SUFFICES ASSUME Init PROVE TypeOK
  OBVIOUS
<1>1. /\ current_term \in [Node -> Nat]
      /\ voted_for \in [Node -> Node \cup {None}]
      /\ log \in [Node -> Log]
  BY ParameterAssumption DEF Init
<1>2. QED
  BY <1>1, SMTT(30) DEF Init, TypeOK, TaskState, Role, Running

\* What ending a collector does to the messages.
LEMMA OrphanVote ==
    ASSUME NEW m \in RequestVoteRequest
    PROVE  /\ Orphan(m) \in RequestVoteRequest
           /\ Orphan(m).live = FALSE
           /\ Orphan(m).from = m.from /\ Orphan(m).to = m.to
BY DEF Orphan, RequestVoteRequest

\* The same of an abandoned heartbeat.
LEMMA OrphanHeartbeat ==
    ASSUME NEW m \in Heartbeat
    PROVE  /\ Orphan(m) \in Heartbeat
           /\ Orphan(m).live = FALSE
           /\ Orphan(m).from = m.from /\ Orphan(m).to = m.to
BY DEF Orphan, Heartbeat

\* The end of a vote collector leaves only well-typed messages: no live request
\* of that node and no answer to it.
LEMMA DropVoteAnswersType ==
    ASSUME TypeOK, NEW i \in Node, DropVoteAnswers(i)
    PROVE  /\ vote_rpcs' \subseteq RequestVoteRequest
           /\ vote_resps' \subseteq RequestVoteResponse
           /\ \A m \in vote_rpcs' : m.live => m \in vote_rpcs /\ m.from # i
           /\ vote_resps' = {m \in vote_resps : m.to # i}
BY OrphanVote DEF TypeOK, DropVoteAnswers

\* The same of a heartbeat collector.
LEMMA DropHeartbeatAnswersType ==
    ASSUME TypeOK, NEW i \in Node, DropHeartbeatAnswers(i)
    PROVE  /\ append_rpcs' \subseteq Heartbeat
           /\ stale_resps' \subseteq StaleTermResponse
           /\ \A m \in append_rpcs' : m.live => m \in append_rpcs /\ m.from # i
           /\ stale_resps' = {m \in stale_resps : m.to # i}
BY OrphanHeartbeat DEF TypeOK, DropHeartbeatAnswers

\* A loop check leaves the main task in a role function or in the dispatcher.
LEMMA EndIterationType ==
    ASSUME TypeOK, NEW i \in Node, NEW s, EndIteration(i, s) \/ FailAnswer(i)
    PROVE  role' \in [Node -> Role]
BY DEF TypeOK, EndIteration, FailAnswer, Role

\* Membership without the node itself is a set of other nodes.
LEMMA PeersType ==
    ASSUME NEW i \in Node
    PROVE  peers(i) = Node \ {i}
BY DEF peers, membership

\* A new vote session keeps the types.
LEMMA NewVoteSessionType ==
    ASSUME TypeOK, NEW i \in Node, NewVoteSession(i)
    PROVE  /\ current_term' \in [Node -> Nat]
           /\ voted_for' \in [Node -> Node \cup {None}]
           /\ ack_peers' \in [Node -> SUBSET Node]
           /\ granted_votes' \in [Node -> Nat]
           /\ vote_result' \in [Node -> {None, "NoPeers", "Granted"}]
           /\ collecting' \in [Node -> BOOLEAN]
           /\ votes_due' \in [Node -> SUBSET Node]
           /\ granters' \in [Node -> SUBSET Node]
           /\ vote_rpcs' \subseteq RequestVoteRequest
           /\ vote_resps' \subseteq RequestVoteResponse
           /\ append_rpcs' \subseteq Heartbeat
           /\ stale_resps' \subseteq StaleTermResponse
<1>1. /\ vote_rpcs' \subseteq RequestVoteRequest /\ vote_resps' \subseteq RequestVoteResponse
      /\ append_rpcs' \subseteq Heartbeat /\ stale_resps' \subseteq StaleTermResponse
  BY DropVoteAnswersType, DropHeartbeatAnswersType DEF NewVoteSession, ExpireTasks
<1>2. QED
  BY <1>1, PeersType DEF NewVoteSession, RequestVotes, TypeOK

\* The three log operations keep a log a log.
LEMMA LogType ==
    ASSUME NEW l \in Log, NEW t \in Nat
    PROVE  /\ get_last_index(l) \in Nat
           /\ get_last_term(l) \in Nat
           /\ append_entries(l, << t >>) \in Log
           /\ remove_entries_after(l, 0) \in Log
           /\ append_entries(remove_entries_after(l, 0), << >>) \in Log
<1>1. << t >> \in Seq(Nat) /\ << >> \in Seq(Nat)
  OBVIOUS
<1>2. l \in Seq(Nat) /\ Len(l) \in Nat
  BY DEF Log
<1>3. remove_entries_after(l, 0) \in Seq(Nat)
  BY <1>2 DEF remove_entries_after
<1>4. get_last_term(l) \in Nat
  BY <1>2 DEF get_last_term
<1>5. QED
  BY <1>1, <1>2, <1>3, <1>4 DEF get_last_index, append_entries, Log

\* The answers of respond_to_request_vote are RequestVoteResponses.
LEMMA VoteAnswerType ==
    ASSUME TypeOK, NEW i \in Node, NEW m \in vote_rpcs,
           NEW reason \in {"StaleTerm", "AlreadyVoted", "IncompleteLog", "Ok"}
    PROVE  VoteAnswer(i, m, reason) \subseteq RequestVoteResponse
<1>1. m.from \in Node
  BY DEF TypeOK, RequestVoteRequest
<1>2. QED
  BY <1>1 DEF TypeOK, VoteAnswer, RequestVoteResponse

\* What send_request_vote_rpc sends is a RequestVoteRequest.
LEMMA VoteRequestType ==
    ASSUME TypeOK, NEW i \in Node, NEW p \in Node
    PROVE  [from |-> i, to |-> p, term |-> current_term[i],
            last_log_index |-> get_last_index(log[i]),
            last_log_term |-> get_last_term(log[i]),
            live |-> collecting[i]] \in RequestVoteRequest
<1>1. get_last_index(log[i]) \in Nat /\ get_last_term(log[i]) \in Nat
  BY LogType DEF TypeOK
<1>2. current_term[i] \in Nat /\ collecting[i] \in BOOLEAN
  BY DEF TypeOK
<1>3. QED
  BY <1>1, <1>2 DEF RequestVoteRequest

\* Every step keeps the types.
LEMMA TypeStep == TypeOK /\ [Next]_vars => TypeOK'
<1> SUFFICES ASSUME TypeOK, [Next]_vars PROVE TypeOK'
  OBVIOUS
<1> USE DEF node_vars, session_vars, task_vars, vote_net, append_net
<1>1. ASSUME NEW i \in Node, EnterFollower(i) PROVE TypeOK'
  BY <1>1, SMTT(30) DEF EnterFollower, DropSession, TypeOK, Role, Running
<1>2. ASSUME NEW i \in Node, EnterCandidate(i) PROVE TypeOK'
  BY <1>2, NewVoteSessionType DEF EnterCandidate, TypeOK, Role, Running
<1>3. ASSUME NEW i \in Node, EnterLeader(i) PROVE TypeOK'
  BY <1>3 DEF EnterLeader, TypeOK, Role, Running
<1>4. ASSUME NEW i \in Node, Stop(i) PROVE TypeOK'
  BY <1>4 DEF Stop, TypeOK, Role
<1>5. ASSUME NEW i \in Node, LeaveRole(i) PROVE TypeOK'
  BY <1>5 DEF LeaveRole, TypeOK, Role
<1>6. ASSUME NEW i \in Node, ReceiveShutdown(i) PROVE TypeOK'
  BY <1>6, EndIterationType DEF ReceiveShutdown, TypeOK, TaskState
<1>7. ASSUME NEW i \in Node, FollowerTimeout(i) PROVE TypeOK'
  <2>1. /\ vote_rpcs' \subseteq RequestVoteRequest /\ vote_resps' \subseteq RequestVoteResponse
        /\ append_rpcs' \subseteq Heartbeat /\ stale_resps' \subseteq StaleTermResponse
    BY <1>7, DropVoteAnswersType, DropHeartbeatAnswersType DEF FollowerTimeout, ExpireTasks
  <2>2. QED
    BY <1>7, <2>1, EndIterationType DEF FollowerTimeout, DropSession, TypeOK, TaskState, Running
<1>8. ASSUME NEW i \in Node, CandidateTimeout(i) PROVE TypeOK'
  BY <1>8, NewVoteSessionType, EndIterationType DEF CandidateTimeout, TypeOK
<1>9. ASSUME NEW i \in Node, RetryTimeout(i) PROVE TypeOK'
  <2>1. /\ vote_rpcs' \subseteq RequestVoteRequest /\ vote_resps' \subseteq RequestVoteResponse
        /\ append_rpcs' \subseteq Heartbeat /\ stale_resps' \subseteq StaleTermResponse
    BY <1>9, DropVoteAnswersType, DropHeartbeatAnswersType DEF RetryTimeout, ExpireTasks
  <2>2. /\ collecting' \in [Node -> BOOLEAN]
        /\ votes_due' \in [Node -> SUBSET Node]
        /\ vote_result' \in [Node -> {None, "NoPeers", "Granted"}]
    BY <1>9, PeersType DEF RetryTimeout, RequestVotes, TypeOK
  <2>3. QED
    BY <1>9, <2>1, <2>2, EndIterationType DEF RetryTimeout, TypeOK
<1>10. ASSUME NEW i \in Node, WinElection(i) PROVE TypeOK'
  BY <1>10, EndIterationType DEF WinElection, TypeOK, TaskState, Running
<1>11. ASSUME NEW i \in Node, HeartbeatTimeout(i) PROVE TypeOK'
  <2>1. /\ vote_rpcs' \subseteq RequestVoteRequest /\ vote_resps' \subseteq RequestVoteResponse
        /\ append_rpcs' \subseteq Heartbeat /\ stale_resps' \subseteq StaleTermResponse
    BY <1>11, DropVoteAnswersType, DropHeartbeatAnswersType DEF HeartbeatTimeout, ExpireTasks
  <2>2. QED
    BY <1>11, <2>1, EndIterationType DEF HeartbeatTimeout, TypeOK
<1>12. ASSUME NEW i \in Node, ClientRequest(i) PROVE TypeOK'
  <2>1. append_entries(log[i], << current_term[i] >>) \in Log
    BY LogType DEF TypeOK
  <2>2. log' \in [Node -> Log]
    BY <1>12, <2>1 DEF ClientRequest, TypeOK
  <2>3. QED
    BY <1>12, <2>2, EndIterationType DEF ClientRequest, TypeOK
<1>13. ASSUME NEW i \in Node, HandleRequestVote(i) PROVE TypeOK'
  <2> DEFINE reason(m) == RequestVoteReason(current_term[i], voted_for[i], log[i], m)
  <2>1. PICK m \in vote_rpcs :
           /\ \/ /\ current_term' = [current_term EXCEPT ![i] = m.term]
                 /\ voted_for' = [voted_for EXCEPT ![i] = m.from]
                 /\ current_state' = [current_state EXCEPT ![i] = "Follower"]
              \/ UNCHANGED << current_term, voted_for, current_state >>
           /\ EndIteration(i, current_state'[i]) \/ FailAnswer(i)
           /\ vote_rpcs' = vote_rpcs \ {m}
           /\ vote_resps' \in {vote_resps, vote_resps \cup VoteAnswer(i, m, reason(m))}
           /\ UNCHANGED << leader_id, log, session_vars, task_vars, append_net >>
    BY <1>13, Zenon DEF HandleRequestVote
  <2>2. m.from \in Node /\ m.term \in Nat
    BY DEF TypeOK, RequestVoteRequest
  <2>3. vote_resps' \subseteq RequestVoteResponse
    <3>1. reason(m) \in {"StaleTerm", "AlreadyVoted", "IncompleteLog", "Ok"}
      BY DEF RequestVoteReason
    <3>2. QED
      BY <2>1, <3>1, VoteAnswerType DEF TypeOK
  <2>4. role' \in [Node -> Role]
    BY <2>1, EndIterationType
  <2>5. QED
    BY <2>1, <2>2, <2>3, <2>4 DEF TypeOK, TaskState, Running
<1>14. ASSUME NEW i \in Node, HandleHeartbeat(i) PROVE TypeOK'
  <2> DEFINE stale(m) == AppendEntriesReason(current_term[i], log[i], HeartbeatRequest(m)) = "StaleTerm"
  <2>1. PICK m \in append_rpcs :
           /\ \/ stale_resps' = stale_resps
              \/ stale_resps' = stale_resps \cup (IF stale(m) THEN StaleAnswer(i, m) ELSE {})
           /\ \/ UNCHANGED << current_term, current_state, leader_id >>
              \/ /\ current_term' = [current_term EXCEPT ![i] = m.term]
                 /\ leader_id' = [leader_id EXCEPT ![i] = m.from]
                 /\ current_state' = [current_state EXCEPT ![i] = "Follower"]
           /\ log' = log \/ log' = [log EXCEPT ![i] = AppendedLog(@, HeartbeatRequest(m))]
           /\ EndIteration(i, current_state'[i]) \/ FailAnswer(i)
           /\ append_rpcs' = append_rpcs \ {m}
           /\ UNCHANGED << voted_for, session_vars, task_vars, vote_net >>
    BY <1>14, Zenon DEF HandleHeartbeat
  <2>2. m.from \in Node /\ m.term \in Nat
    BY DEF TypeOK, Heartbeat
  <2>3. stale_resps' \subseteq StaleTermResponse
    <3>1. StaleAnswer(i, m) \subseteq StaleTermResponse
      BY <2>2 DEF StaleAnswer, TypeOK, StaleTermResponse
    <3> QED
      BY <2>1, <3>1 DEF TypeOK
  <2>4. log' \in [Node -> Log]
    <3>1. AppendedLog(log[i], HeartbeatRequest(m)) \in Log
      BY LogType DEF TypeOK, AppendedLog, HeartbeatRequest
    <3>2. QED
      BY <2>1, <3>1 DEF TypeOK
  <2>5. role' \in [Node -> Role]
    BY <2>1, EndIterationType
  <2>6. QED
    BY <2>1, <2>2, <2>3, <2>4, <2>5 DEF TypeOK, TaskState, Running
<1>15. ASSUME NEW i \in Node, SendVoteRequest(i) PROVE TypeOK'
  <2>1. PICK p \in votes_due[i] :
           /\ votes_due' = [votes_due EXCEPT ![i] = @ \ {p}]
           /\ vote_rpcs' = vote_rpcs \cup
                 {[from |-> i, to |-> p, term |-> current_term[i],
                   last_log_index |-> get_last_index(log[i]),
                   last_log_term |-> get_last_term(log[i]),
                   live |-> collecting[i]]}
           /\ UNCHANGED << node_vars, session_vars, collecting, heartbeat_due,
                           vote_resps, append_net >>
    BY <1>15 DEF SendVoteRequest
  <2>2. p \in Node
    BY DEF TypeOK
  <2>3. vote_rpcs' \subseteq RequestVoteRequest
    BY <2>1, <2>2, VoteRequestType DEF TypeOK
  <2>4. QED
    BY <2>1, <2>3 DEF TypeOK
<1>16. ASSUME NEW i \in Node, CollectVote(i) PROVE TypeOK'
  <2>1. PICK m \in vote_resps :
           /\ m.to = i
           /\ VoteStepDown(i, m) \/ CountAnswer(i, m) \/ DecidingVote(i, m)
           /\ UNCHANGED << votes_due, heartbeat_due, append_net >>
    BY <1>16 DEF CollectVote
  <2>2. m.from \in Node /\ m.term \in Nat
    BY DEF TypeOK, RequestVoteResponse
  <2>3. CASE VoteStepDown(i, m)
    BY <2>1, <2>2, <2>3, DropVoteAnswersType DEF VoteStepDown, TypeOK, TaskState, Running
  <2>4. CASE CountAnswer(i, m)
    BY <2>1, <2>2, <2>4 DEF CountAnswer, TypeOK
  <2>5. CASE DecidingVote(i, m)
    BY <2>1, <2>2, <2>5, DropVoteAnswersType DEF DecidingVote, TypeOK
  <2>6. QED
    BY <2>1, <2>3, <2>4, <2>5
<1>17. ASSUME NEW i \in Node, SendHeartbeats(i) PROVE TypeOK'
  <2>1. append_rpcs' \subseteq Heartbeat
    <3>1. current_term[i] \in Nat /\ peers(i) \subseteq Node /\ append_rpcs \subseteq Heartbeat
      BY PeersType DEF TypeOK
    <3>2. \A p \in Node :
             [from |-> i, to |-> p, term |-> current_term[i], live |-> TRUE] \in Heartbeat
      BY <3>1 DEF Heartbeat
    <3>3. QED
      BY <1>17, <3>1, <3>2 DEF SendHeartbeats
  <2>2. QED
    BY <1>17, <2>1 DEF SendHeartbeats, TypeOK
<1>18. ASSUME NEW i \in Node, CollectHeartbeat(i) PROVE TypeOK'
  <2>1. PICK m \in stale_resps : current_term' = [current_term EXCEPT ![i] = m.term]
    BY <1>18 DEF CollectHeartbeat
  <2>2. m.term \in Nat
    BY DEF TypeOK, StaleTermResponse
  <2>3. QED
    BY <1>18, <2>1, <2>2, DropHeartbeatAnswersType
    DEF CollectHeartbeat, TypeOK, TaskState, Running
<1>19. CASE LoseVoteRequest
  BY <1>19 DEF LoseVoteRequest, TypeOK
<1>20. CASE LoseHeartbeat
  BY <1>20 DEF LoseHeartbeat, TypeOK
<1>21. CASE UNCHANGED vars
  BY <1>21 DEF vars, TypeOK
<1>22. QED
  BY <1>1, <1>2, <1>3, <1>4, <1>5, <1>6, <1>7, <1>8, <1>9, <1>10, <1>11, <1>12, <1>13, <1>14, <1>15, <1>16, <1>17, <1>18, <1>19, <1>20, <1>21
  DEF Next, MainTask, BackgroundTask

\* Every reachable state is well-typed.
THEOREM TypeCorrect == Spec => []TypeOK
BY TypeInit, TypeStep, PTL DEF Spec

-----------------------------------------------------------------------------
(***************************************************************************)
(* A leader has a quorum of distinct votes and its own                     *)
(***************************************************************************)

\* The main task lags behind current_state by at most one event.
LEMMA RoleStep ==
    ASSUME TypeOK, RoleInv, [Next]_vars
    PROVE  RoleInv'
<1> USE DEF node_vars, session_vars, task_vars, vote_net, append_net
<1>1. ASSUME NEW i \in Node, EnterFollower(i) PROVE RoleInv'
  BY <1>1 DEF EnterFollower, RoleInv, TypeOK
<1>2. ASSUME NEW i \in Node, EnterCandidate(i) PROVE RoleInv'
  BY <1>2 DEF EnterCandidate, NewVoteSession, RoleInv, TypeOK
<1>3. ASSUME NEW i \in Node, EnterLeader(i) PROVE RoleInv'
  BY <1>3 DEF EnterLeader, RoleInv, TypeOK
<1>4. ASSUME NEW i \in Node, Stop(i) PROVE RoleInv'
  BY <1>4 DEF Stop, RoleInv, TypeOK
<1>5. ASSUME NEW i \in Node, LeaveRole(i) PROVE RoleInv'
  BY <1>5 DEF LeaveRole, RoleInv, TypeOK
<1>6. ASSUME NEW i \in Node, ReceiveShutdown(i) PROVE RoleInv'
  BY <1>6 DEF ReceiveShutdown, EndIteration, Running, RoleInv, TypeOK
<1>7. ASSUME NEW i \in Node, FollowerTimeout(i) PROVE RoleInv'
  BY <1>7 DEF FollowerTimeout, EndIteration, RoleInv, TypeOK
<1>8. ASSUME NEW i \in Node, CandidateTimeout(i) PROVE RoleInv'
  BY <1>8 DEF CandidateTimeout, NewVoteSession, EndIteration, RoleInv, TypeOK
<1>9. ASSUME NEW i \in Node, RetryTimeout(i) PROVE RoleInv'
  BY <1>9 DEF RetryTimeout, EndIteration, Running, RoleInv, TypeOK
<1>10. ASSUME NEW i \in Node, WinElection(i) PROVE RoleInv'
  BY <1>10 DEF WinElection, EndIteration, Running, RoleInv, TypeOK
<1>11. ASSUME NEW i \in Node, HeartbeatTimeout(i) PROVE RoleInv'
  BY <1>11 DEF HeartbeatTimeout, EndIteration, Running, RoleInv, TypeOK
<1>12. ASSUME NEW i \in Node, ClientRequest(i) PROVE RoleInv'
  BY <1>12 DEF ClientRequest, EndIteration, FailAnswer, Running, RoleInv, TypeOK
<1>13. ASSUME NEW i \in Node, HandleRequestVote(i) PROVE RoleInv'
  <2>1. /\ \/ UNCHANGED << voted_for, current_state >>
           \/ /\ \E v : voted_for' = [voted_for EXCEPT ![i] = v]
              /\ current_state' = [current_state EXCEPT ![i] = "Follower"]
        /\ role[i] \in Running
        /\ EndIteration(i, current_state'[i]) \/ FailAnswer(i)
    BY <1>13, Zenon DEF HandleRequestVote
  <2>2. QED
    BY <2>1 DEF EndIteration, FailAnswer, RoleInv, TypeOK, Running
<1>14. ASSUME NEW i \in Node, HandleHeartbeat(i) PROVE RoleInv'
  <2>1. /\ current_state' \in {current_state, [current_state EXCEPT ![i] = "Follower"]}
        /\ role[i] \in Running
        /\ EndIteration(i, current_state'[i]) \/ FailAnswer(i)
        /\ UNCHANGED voted_for
    BY <1>14, Zenon DEF HandleHeartbeat
  <2>2. QED
    BY <2>1 DEF EndIteration, FailAnswer, RoleInv, TypeOK, Running
<1>15. ASSUME NEW i \in Node, SendVoteRequest(i) PROVE RoleInv'
  BY <1>15 DEF SendVoteRequest, RoleInv
<1>16. ASSUME NEW i \in Node, CollectVote(i) PROVE RoleInv'
  <2>1. /\ current_state' \in {current_state, [current_state EXCEPT ![i] = "Follower"]}
        /\ UNCHANGED << role, voted_for >>
    BY <1>16 DEF CollectVote, VoteStepDown, CountAnswer, DecidingVote
  <2>2. QED
    BY <2>1 DEF RoleInv, TypeOK
<1>17. ASSUME NEW i \in Node, SendHeartbeats(i) PROVE RoleInv'
  BY <1>17 DEF SendHeartbeats, RoleInv, TypeOK
<1>18. ASSUME NEW i \in Node, CollectHeartbeat(i) PROVE RoleInv'
  BY <1>18 DEF CollectHeartbeat, RoleInv, TypeOK
<1>19. CASE LoseVoteRequest
  BY <1>19 DEF LoseVoteRequest, RoleInv
<1>20. CASE LoseHeartbeat
  BY <1>20 DEF LoseHeartbeat, RoleInv
<1>21. CASE UNCHANGED vars
  BY <1>21 DEF vars, RoleInv
<1>22. QED
  BY <1>1, <1>2, <1>3, <1>4, <1>5, <1>6, <1>7, <1>8, <1>9, <1>10, <1>11, <1>12, <1>13, <1>14, <1>15, <1>16, <1>17, <1>18, <1>19, <1>20, <1>21
  DEF Next, MainTask, BackgroundTask

\* Sets of nodes are finite, and a new vote is worth one.
LEMMA NodeSets ==
    ASSUME NEW S \in SUBSET Node
    PROVE  /\ IsFiniteSet(S)
           /\ Cardinality(S) \in Nat
           /\ \A x : x \notin S => Cardinality(S \cup {x}) = Cardinality(S) + 1
           /\ \A x : Cardinality(S \cup {x}) \in Nat
           /\ \A x : Cardinality(S \cup {x}) >= Cardinality(S)
<1>1. IsFiniteSet(S)
  BY NodeAssumption, FS_Subset
<1>2. Cardinality(S) \in Nat
  BY <1>1, FS_CardinalityType
<1>3. ASSUME NEW x
      PROVE  /\ x \notin S => Cardinality(S \cup {x}) = Cardinality(S) + 1
             /\ x \in S => Cardinality(S \cup {x}) = Cardinality(S)
  BY <1>1, FS_AddElement
<1>4. QED
  BY <1>1, <1>2, <1>3

\* The count of a session that has no votes yet.
LEMMA EmptyCardinality == Cardinality({}) = 0
BY FS_EmptySet

\* More votes are still enough.
LEMMA EnoughIsMonotone ==
    ASSUME NEW i \in Node, NEW g \in Nat, NEW h \in Nat, h >= g, EnoughVotes(i, g)
    PROVE  EnoughVotes(i, h)
<1>1. membership(i) \in SUBSET Node
  BY DEF membership
<1>2. cluster_size(i) \in Nat
  BY <1>1, NodeSets DEF cluster_size
<1>3. QED
  BY <1>2 DEF EnoughVotes

\* A vote is counted once: a peer whose answer arrives has not answered before.
LEMMA SessionStep ==
    ASSUME TypeOK, RoleInv, SessionInv, AnswerInv, [Next]_vars
    PROVE  SessionInv'
<1> USE DEF node_vars, session_vars, task_vars, vote_net, append_net
<1>1. ASSUME NEW i \in Node, EnterFollower(i) PROVE SessionInv'
  BY <1>1 DEF EnterFollower, DropSession, SessionInv, TypeOK
<1>2. ASSUME NEW i \in Node, EnterCandidate(i) PROVE SessionInv'
  <2>1. /\ ack_peers' = [ack_peers EXCEPT ![i] = {}]
        /\ granted_votes' = [granted_votes EXCEPT ![i] = 1]
        /\ granters' = [granters EXCEPT ![i] = {}]
        /\ collecting' = [collecting EXCEPT ![i] = peers(i) \ {} # {}]
        /\ votes_due' = [votes_due EXCEPT ![i] = peers(i) \ {}]
        /\ \A j \in Node \ {i} : role'[j] = role[j]
    BY <1>2 DEF EnterCandidate, NewVoteSession, RequestVotes, EndIteration, TypeOK
  <2>2. QED
    BY <2>1, EmptyCardinality DEF SessionInv, TypeOK
<1>3. ASSUME NEW i \in Node, EnterLeader(i) PROVE SessionInv'
  BY <1>3 DEF EnterLeader, SessionInv, TypeOK
<1>4. ASSUME NEW i \in Node, Stop(i) PROVE SessionInv'
  BY <1>4 DEF Stop, SessionInv, TypeOK
<1>5. ASSUME NEW i \in Node, LeaveRole(i) PROVE SessionInv'
  BY <1>5 DEF LeaveRole, SessionInv, TypeOK
<1>6. ASSUME NEW i \in Node, ReceiveShutdown(i) PROVE SessionInv'
  BY <1>6 DEF ReceiveShutdown, EndIteration, Running, SessionInv, TypeOK
<1>7. ASSUME NEW i \in Node, FollowerTimeout(i) PROVE SessionInv'
  BY <1>7 DEF FollowerTimeout, DropSession, EndIteration, SessionInv, TypeOK
<1>8. ASSUME NEW i \in Node, CandidateTimeout(i) PROVE SessionInv'
  <2>1. /\ ack_peers' = [ack_peers EXCEPT ![i] = {}]
        /\ granted_votes' = [granted_votes EXCEPT ![i] = 1]
        /\ granters' = [granters EXCEPT ![i] = {}]
        /\ collecting' = [collecting EXCEPT ![i] = peers(i) \ {} # {}]
        /\ votes_due' = [votes_due EXCEPT ![i] = peers(i) \ {}]
        /\ \A j \in Node \ {i} : role'[j] = role[j]
    BY <1>8 DEF CandidateTimeout, NewVoteSession, RequestVotes, EndIteration, TypeOK
  <2>2. QED
    BY <2>1, EmptyCardinality DEF SessionInv, TypeOK
<1>9. ASSUME NEW i \in Node, RetryTimeout(i) PROVE SessionInv'
  BY <1>9 DEF RetryTimeout, RequestVotes, EndIteration, SessionInv, TypeOK
<1>10. ASSUME NEW i \in Node, WinElection(i) PROVE SessionInv'
  BY <1>10 DEF WinElection, EndIteration, Running, SessionInv, TypeOK
<1>11. ASSUME NEW i \in Node, HeartbeatTimeout(i) PROVE SessionInv'
  BY <1>11 DEF HeartbeatTimeout, EndIteration, Running, SessionInv, TypeOK
<1>12. ASSUME NEW i \in Node, ClientRequest(i) PROVE SessionInv'
  BY <1>12 DEF ClientRequest, EndIteration, FailAnswer, Running, SessionInv, TypeOK
<1>13. ASSUME NEW i \in Node, HandleRequestVote(i) PROVE SessionInv'
  <2>1. /\ EndIteration(i, current_state'[i]) \/ FailAnswer(i)
        /\ UNCHANGED << session_vars, task_vars >>
    BY <1>13, Zenon DEF HandleRequestVote
  <2>2. QED
    BY <2>1 DEF EndIteration, FailAnswer, SessionInv, TypeOK
<1>14. ASSUME NEW i \in Node, HandleHeartbeat(i) PROVE SessionInv'
  <2>1. /\ EndIteration(i, current_state'[i]) \/ FailAnswer(i)
        /\ UNCHANGED << session_vars, task_vars >>
    BY <1>14, Zenon DEF HandleHeartbeat
  <2>2. QED
    BY <2>1 DEF EndIteration, FailAnswer, SessionInv, TypeOK
<1>15. ASSUME NEW i \in Node, SendVoteRequest(i) PROVE SessionInv'
  BY <1>15 DEF SendVoteRequest, SessionInv, TypeOK
<1>16. ASSUME NEW i \in Node, CollectVote(i) PROVE SessionInv'
  <2>1. PICK m \in vote_resps :
           /\ m.to = i
           /\ VoteStepDown(i, m) \/ CountAnswer(i, m) \/ DecidingVote(i, m)
    BY <1>16 DEF CollectVote
  <2>2. /\ collecting[i] /\ UNCHANGED votes_due
        /\ m.from \in peers(i) /\ m.from \notin ack_peers[i] /\ m.from \notin votes_due[i]
    BY <1>16, <2>1 DEF CollectVote, AnswerInv
  <2>3. /\ m.from \notin granters[i]
        /\ granted_votes[i] = Cardinality(granters[i]) + 1
    BY <2>2 DEF SessionInv
  <2>4. /\ Cardinality(granters[i] \cup {m.from}) = Cardinality(granters[i]) + 1
        /\ Cardinality(granters[i]) \in Nat
    BY <2>3, NodeSets DEF TypeOK
  <2>5. CASE VoteStepDown(i, m)
    BY <2>2, <2>5 DEF VoteStepDown, SessionInv, TypeOK
  <2>6. CASE CountAnswer(i, m)
    <3>1. /\ ack_peers' = [ack_peers EXCEPT ![i] = @ \cup {m.from}]
          /\ UNCHANGED << role, collecting >>
      BY <2>6 DEF CountAnswer
    <3>2. CASE UNCHANGED << granted_votes, granters >>
      BY <2>2, <3>1, <3>2 DEF SessionInv, TypeOK
    <3>3. CASE /\ granted_votes' = [granted_votes EXCEPT ![i] = @ + 1]
               /\ granters' = [granters EXCEPT ![i] = @ \cup {m.from}]
      BY <2>2, <2>3, <2>4, <3>1, <3>3 DEF SessionInv, TypeOK
    <3>4. QED
      BY <2>6, <3>2, <3>3 DEF CountAnswer
  <2>7. CASE DecidingVote(i, m)
    BY <2>2, <2>3, <2>4, <2>7 DEF DecidingVote, SessionInv, TypeOK
  <2>8. QED
    BY <2>1, <2>5, <2>6, <2>7
<1>17. ASSUME NEW i \in Node, SendHeartbeats(i) PROVE SessionInv'
  BY <1>17 DEF SendHeartbeats, SessionInv
<1>18. ASSUME NEW i \in Node, CollectHeartbeat(i) PROVE SessionInv'
  BY <1>18 DEF CollectHeartbeat, SessionInv
<1>19. CASE LoseVoteRequest
  BY <1>19 DEF LoseVoteRequest, SessionInv
<1>20. CASE LoseHeartbeat
  BY <1>20 DEF LoseHeartbeat, SessionInv
<1>21. CASE UNCHANGED vars
  BY <1>21 DEF vars, SessionInv
<1>22. QED
  BY <1>1, <1>2, <1>3, <1>4, <1>5, <1>6, <1>7, <1>8, <1>9, <1>10, <1>11, <1>12, <1>13, <1>14, <1>15, <1>16, <1>17, <1>18, <1>19, <1>20, <1>21
  DEF Next, MainTask, BackgroundTask

\* When i's collector ends nobody is owed an answer on i's account.
LEMMA DroppedAnswers ==
    ASSUME TypeOK, AnswerInv, NEW i \in Node, DropVoteAnswers(i),
           \A j \in Node \ {i} : /\ collecting'[j] = collecting[j]
                                 /\ ack_peers'[j] = ack_peers[j]
                                 /\ votes_due'[j] = votes_due[j]
    PROVE  AnswerInv'
<1>1. /\ \A m \in vote_rpcs' : m.live => m \in vote_rpcs /\ m.from # i
      /\ vote_resps' = {m \in vote_resps : m.to # i}
  BY DropVoteAnswersType
<1>2. /\ \A m \in vote_rpcs : m.from \in Node
      /\ \A m \in vote_resps : m.to \in Node
  BY DEF TypeOK, RequestVoteRequest, RequestVoteResponse
<1>3. QED
  BY <1>1, <1>2 DEF AnswerInv

\* No second answer of a peer is ever on its way to a collector.
LEMMA AnswerStep ==
    ASSUME TypeOK, SessionInv, AnswerInv, [Next]_vars
    PROVE  AnswerInv'
<1> USE DEF node_vars, session_vars, task_vars, vote_net, append_net
<1>1. ASSUME NEW i \in Node, EnterFollower(i) PROVE AnswerInv'
  <2>1. /\ UNCHANGED << vote_rpcs, vote_resps, collecting, votes_due >>
        /\ \A j \in Node : collecting[j] => ack_peers'[j] = ack_peers[j]
    BY <1>1 DEF EnterFollower, DropSession, TypeOK
  <2>2. QED
    BY <2>1 DEF AnswerInv, TypeOK, RequestVoteRequest, RequestVoteResponse
<1>2. ASSUME NEW i \in Node, EnterCandidate(i) PROVE AnswerInv'
  <2>1. /\ \A j \in Node \ {i} : /\ collecting'[j] = collecting[j]
                                 /\ ack_peers'[j] = ack_peers[j]
                                 /\ votes_due'[j] = votes_due[j]
        /\ DropVoteAnswers(i)
    BY <1>2 DEF EnterCandidate, NewVoteSession, RequestVotes, ExpireTasks, TypeOK
  <2>2. QED
    BY <2>1, DroppedAnswers
<1>3. ASSUME NEW i \in Node, EnterLeader(i) PROVE AnswerInv'
  BY <1>3 DEF EnterLeader, AnswerInv
<1>4. ASSUME NEW i \in Node, Stop(i) PROVE AnswerInv'
  BY <1>4 DEF Stop, AnswerInv
<1>5. ASSUME NEW i \in Node, LeaveRole(i) PROVE AnswerInv'
  BY <1>5 DEF LeaveRole, AnswerInv
<1>6. ASSUME NEW i \in Node, ReceiveShutdown(i) PROVE AnswerInv'
  BY <1>6 DEF ReceiveShutdown, AnswerInv
<1>7. ASSUME NEW i \in Node, FollowerTimeout(i) PROVE AnswerInv'
  <2>1. /\ \A j \in Node \ {i} : /\ collecting'[j] = collecting[j]
                                 /\ ack_peers'[j] = ack_peers[j]
                                 /\ votes_due'[j] = votes_due[j]
        /\ DropVoteAnswers(i)
    BY <1>7 DEF FollowerTimeout, DropSession, ExpireTasks, TypeOK
  <2>2. QED
    BY <2>1, DroppedAnswers
<1>8. ASSUME NEW i \in Node, CandidateTimeout(i) PROVE AnswerInv'
  <2>1. /\ \A j \in Node \ {i} : /\ collecting'[j] = collecting[j]
                                 /\ ack_peers'[j] = ack_peers[j]
                                 /\ votes_due'[j] = votes_due[j]
        /\ DropVoteAnswers(i)
    BY <1>8 DEF CandidateTimeout, NewVoteSession, RequestVotes, ExpireTasks, TypeOK
  <2>2. QED
    BY <2>1, DroppedAnswers
<1>9. ASSUME NEW i \in Node, RetryTimeout(i) PROVE AnswerInv'
  <2>1. /\ \A j \in Node \ {i} : /\ collecting'[j] = collecting[j]
                                 /\ ack_peers'[j] = ack_peers[j]
                                 /\ votes_due'[j] = votes_due[j]
        /\ DropVoteAnswers(i)
    BY <1>9 DEF RetryTimeout, RequestVotes, ExpireTasks, TypeOK
  <2>2. QED
    BY <2>1, DroppedAnswers
<1>10. ASSUME NEW i \in Node, WinElection(i) PROVE AnswerInv'
  BY <1>10 DEF WinElection, AnswerInv
<1>11. ASSUME NEW i \in Node, HeartbeatTimeout(i) PROVE AnswerInv'
  <2>1. /\ \A j \in Node \ {i} : /\ collecting'[j] = collecting[j]
                                 /\ ack_peers'[j] = ack_peers[j]
                                 /\ votes_due'[j] = votes_due[j]
        /\ DropVoteAnswers(i)
    BY <1>11 DEF HeartbeatTimeout, ExpireTasks, TypeOK
  <2>2. QED
    BY <2>1, DroppedAnswers
<1>12. ASSUME NEW i \in Node, ClientRequest(i) PROVE AnswerInv'
  BY <1>12 DEF ClientRequest, AnswerInv
<1>13. ASSUME NEW i \in Node, HandleRequestVote(i) PROVE AnswerInv'
  <2> DEFINE reason(m) == RequestVoteReason(current_term[i], voted_for[i], log[i], m)
  <2>1. PICK m \in vote_rpcs :
           /\ m.to = i
           /\ vote_rpcs' = vote_rpcs \ {m}
           /\ vote_resps' \in {vote_resps, vote_resps \cup VoteAnswer(i, m, reason(m))}
           /\ UNCHANGED << collecting, ack_peers, votes_due >>
    BY <1>13, Zenon DEF HandleRequestVote
  <2>2. CASE ~ m.live \/ vote_resps' = vote_resps
    BY <2>1, <2>2 DEF VoteAnswer, AnswerInv
  <2>3. CASE m.live /\ vote_resps' # vote_resps
    <3> DEFINE answer == [from |-> i, to |-> m.from, term |-> current_term[i],
                          reason |-> reason(m)]
    <3>1. vote_resps' = vote_resps \cup {answer}
      BY <2>1, <2>3 DEF VoteAnswer
    <3>2. answer.to = m.from /\ answer.from = m.to
      BY <2>1
    <3>3. /\ collecting[m.from]
          /\ m.to \in peers(m.from)
          /\ m.to \notin ack_peers[m.from]
          /\ m.to \notin votes_due[m.from]
      BY <2>3 DEF AnswerInv
    <3>4. \A n \in vote_resps : ~ (n.to = m.from /\ n.from = m.to)
      BY <2>3 DEF AnswerInv
    <3>5. \A n \in vote_rpcs' : n.live => ~ (n.from = m.from /\ n.to = m.to)
      BY <2>1, <2>3 DEF AnswerInv
    <3> HIDE DEF answer
    <3>6. QED
      BY <2>1, <3>1, <3>2, <3>3, <3>4, <3>5 DEF AnswerInv
  <2>4. QED
    BY <2>2, <2>3
<1>14. ASSUME NEW i \in Node, HandleHeartbeat(i) PROVE AnswerInv'
  <2>1. UNCHANGED << vote_net, collecting, ack_peers, votes_due >>
    BY <1>14, Zenon DEF HandleHeartbeat
  <2>2. QED
    BY <2>1 DEF AnswerInv
<1>15. ASSUME NEW i \in Node, SendVoteRequest(i) PROVE AnswerInv'
  <2> DEFINE request(p) == [from |-> i, to |-> p, term |-> current_term[i],
                            last_log_index |-> get_last_index(log[i]),
                            last_log_term |-> get_last_term(log[i]),
                            live |-> collecting[i]]
  <2>1. PICK p \in votes_due[i] :
           /\ votes_due' = [votes_due EXCEPT ![i] = @ \ {p}]
           /\ vote_rpcs' = vote_rpcs \cup {request(p)}
           /\ UNCHANGED << collecting, ack_peers, vote_resps >>
    BY <1>15 DEF SendVoteRequest
  <2>2. p \in peers(i) /\ (collecting[i] => p \notin ack_peers[i])
    BY DEF SessionInv
  <2>3. \A j \in Node : votes_due'[j] \subseteq votes_due[j]
    BY <2>1 DEF TypeOK
  <2>4. p \notin votes_due'[i]
    BY <2>1 DEF TypeOK
  <2>5. /\ \A n \in vote_resps : ~ (n.to = i /\ n.from = p)
        /\ \A n \in vote_rpcs : n.live => ~ (n.from = i /\ n.to = p)
    BY DEF AnswerInv
  <2>6. request(p).from = i /\ request(p).to = p /\ request(p).live = collecting[i]
    OBVIOUS
  <2>7. /\ \A n \in vote_resps : n.to \in Node
        /\ \A n \in vote_rpcs : n.from \in Node
    BY DEF TypeOK, RequestVoteRequest, RequestVoteResponse
  <2> HIDE DEF request
  <2>8. QED
    BY <2>1, <2>2, <2>3, <2>4, <2>5, <2>6, <2>7 DEF AnswerInv
<1>16. ASSUME NEW i \in Node, CollectVote(i) PROVE AnswerInv'
  <2>1. PICK m \in vote_resps :
           /\ m.to = i
           /\ VoteStepDown(i, m) \/ CountAnswer(i, m) \/ DecidingVote(i, m)
    BY <1>16 DEF CollectVote
  <2>2. UNCHANGED votes_due
    BY <1>16 DEF CollectVote
  <2>3. CASE VoteStepDown(i, m) \/ DecidingVote(i, m)
    <3>1. /\ \A j \in Node \ {i} : /\ collecting'[j] = collecting[j]
                                   /\ ack_peers'[j] = ack_peers[j]
          /\ DropVoteAnswers(i)
      BY <2>3 DEF VoteStepDown, DecidingVote, TypeOK
    <3>2. QED
      BY <2>2, <3>1, DroppedAnswers
  <2>4. CASE CountAnswer(i, m)
    <3>1. /\ ack_peers' = [ack_peers EXCEPT ![i] = @ \cup {m.from}]
          /\ vote_resps' = vote_resps \ {m}
          /\ UNCHANGED << collecting, vote_rpcs >>
      BY <2>4 DEF CountAnswer
    <3>2. /\ \A n \in vote_resps' : ~ (n.to = i /\ n.from = m.from)
          /\ \A n \in vote_rpcs : n.live => ~ (n.from = i /\ n.to = m.from)
      BY <2>1, <3>1 DEF AnswerInv
    <3>3. \A j, p \in Node : p \in ack_peers'[j] => p \in ack_peers[j] \/ (j = i /\ p = m.from)
      BY <3>1 DEF TypeOK
    <3>4. /\ \A n \in vote_resps : n.to \in Node /\ n.from \in Node
          /\ \A n \in vote_rpcs : n.from \in Node /\ n.to \in Node
      BY DEF TypeOK, RequestVoteRequest, RequestVoteResponse
    <3>5. QED
      BY <2>2, <3>1, <3>2, <3>3, <3>4 DEF AnswerInv
  <2>5. QED
    BY <2>1, <2>3, <2>4
<1>17. ASSUME NEW i \in Node, SendHeartbeats(i) PROVE AnswerInv'
  BY <1>17 DEF SendHeartbeats, AnswerInv
<1>18. ASSUME NEW i \in Node, CollectHeartbeat(i) PROVE AnswerInv'
  BY <1>18 DEF CollectHeartbeat, AnswerInv
<1>19. CASE LoseVoteRequest
  BY <1>19 DEF LoseVoteRequest, AnswerInv
<1>20. CASE LoseHeartbeat
  BY <1>20 DEF LoseHeartbeat, AnswerInv
<1>21. CASE UNCHANGED vars
  BY <1>21 DEF vars, AnswerInv
<1>22. QED
  BY <1>1, <1>2, <1>3, <1>4, <1>5, <1>6, <1>7, <1>8, <1>9, <1>10, <1>11, <1>12, <1>13, <1>14, <1>15, <1>16, <1>17, <1>18, <1>19, <1>20, <1>21
  DEF Next, MainTask, BackgroundTask

\* The empty channel is neither of the results.
LEMMA NoneIsNoResult == None # "Granted" /\ None # "NoPeers"
BY ResultAssumption

\* A result that waits in the channel is backed by the session's votes.
LEMMA ResultStep ==
    ASSUME TypeOK, ResultInv, [Next]_vars
    PROVE  ResultInv'
<1> USE DEF node_vars, session_vars, task_vars, vote_net, append_net
<1>1. ASSUME NEW i \in Node, EnterFollower(i) PROVE ResultInv'
  BY <1>1, NoneIsNoResult DEF EnterFollower, DropSession, ResultInv, TypeOK
<1>2. ASSUME NEW i \in Node, EnterCandidate(i) PROVE ResultInv'
  <2>1. /\ granted_votes' = [granted_votes EXCEPT ![i] = 1]
        /\ vote_result' = [vote_result EXCEPT ![i] = IF peers(i) = {} THEN "NoPeers" ELSE None]
        /\ \A j \in Node \ {i} : role'[j] = role[j]
    BY <1>2 DEF EnterCandidate, NewVoteSession, EndIteration, TypeOK
  <2>2. QED
    BY <2>1, NoneIsNoResult DEF ResultInv, TypeOK
<1>3. ASSUME NEW i \in Node, EnterLeader(i) PROVE ResultInv'
  BY <1>3 DEF EnterLeader, ResultInv, TypeOK
<1>4. ASSUME NEW i \in Node, Stop(i) PROVE ResultInv'
  BY <1>4 DEF Stop, ResultInv, TypeOK
<1>5. ASSUME NEW i \in Node, LeaveRole(i) PROVE ResultInv'
  BY <1>5 DEF LeaveRole, ResultInv, TypeOK
<1>6. ASSUME NEW i \in Node, ReceiveShutdown(i) PROVE ResultInv'
  BY <1>6 DEF ReceiveShutdown, EndIteration, ResultInv, TypeOK
<1>7. ASSUME NEW i \in Node, FollowerTimeout(i) PROVE ResultInv'
  BY <1>7, NoneIsNoResult DEF FollowerTimeout, DropSession, EndIteration, ResultInv, TypeOK
<1>8. ASSUME NEW i \in Node, CandidateTimeout(i) PROVE ResultInv'
  <2>1. /\ granted_votes' = [granted_votes EXCEPT ![i] = 1]
        /\ vote_result' = [vote_result EXCEPT ![i] = IF peers(i) = {} THEN "NoPeers" ELSE None]
        /\ \A j \in Node \ {i} : role'[j] = role[j]
    BY <1>8 DEF CandidateTimeout, NewVoteSession, EndIteration, TypeOK
  <2>2. QED
    BY <2>1, NoneIsNoResult DEF ResultInv, TypeOK
<1>9. ASSUME NEW i \in Node, RetryTimeout(i) PROVE ResultInv'
  BY <1>9 DEF RetryTimeout, EndIteration, ResultInv, TypeOK
<1>10. ASSUME NEW i \in Node, WinElection(i) PROVE ResultInv'
  BY <1>10, NodeAssumption, NoneIsNoResult DEF WinElection, EndIteration, ResultInv, TypeOK
<1>11. ASSUME NEW i \in Node, HeartbeatTimeout(i) PROVE ResultInv'
  BY <1>11 DEF HeartbeatTimeout, EndIteration, ResultInv, TypeOK
<1>12. ASSUME NEW i \in Node, ClientRequest(i) PROVE ResultInv'
  BY <1>12 DEF ClientRequest, EndIteration, FailAnswer, ResultInv, TypeOK
<1>13. ASSUME NEW i \in Node, HandleRequestVote(i) PROVE ResultInv'
  <2>1. /\ EndIteration(i, current_state'[i]) \/ FailAnswer(i)
        /\ UNCHANGED session_vars
    BY <1>13, Zenon DEF HandleRequestVote
  <2>2. QED
    BY <2>1 DEF EndIteration, FailAnswer, ResultInv, TypeOK
<1>14. ASSUME NEW i \in Node, HandleHeartbeat(i) PROVE ResultInv'
  <2>1. /\ EndIteration(i, current_state'[i]) \/ FailAnswer(i)
        /\ UNCHANGED session_vars
    BY <1>14, Zenon DEF HandleHeartbeat
  <2>2. QED
    BY <2>1 DEF EndIteration, FailAnswer, ResultInv, TypeOK
<1>15. ASSUME NEW i \in Node, SendVoteRequest(i) PROVE ResultInv'
  BY <1>15 DEF SendVoteRequest, ResultInv, TypeOK
<1>16. ASSUME NEW i \in Node, CollectVote(i) PROVE ResultInv'
  <2>1. PICK m \in vote_resps : VoteStepDown(i, m) \/ CountAnswer(i, m) \/ DecidingVote(i, m)
    BY <1>16 DEF CollectVote
  <2>2. granted_votes[i] \in Nat
    BY DEF TypeOK
  <2>3. CASE VoteStepDown(i, m)
    BY <2>3 DEF VoteStepDown, ResultInv
  <2>4. CASE CountAnswer(i, m)
    <3>1. EnoughVotes(i, granted_votes[i]) => EnoughVotes(i, granted_votes[i] + 1)
      BY <2>2, EnoughIsMonotone
    <3>2. QED
      BY <2>4, <3>1 DEF CountAnswer, ResultInv, TypeOK
  <2>5. CASE DecidingVote(i, m)
    BY <2>5 DEF DecidingVote, ResultInv, TypeOK
  <2>6. QED
    BY <2>1, <2>3, <2>4, <2>5
<1>17. ASSUME NEW i \in Node, SendHeartbeats(i) PROVE ResultInv'
  BY <1>17 DEF SendHeartbeats, ResultInv, TypeOK
<1>18. ASSUME NEW i \in Node, CollectHeartbeat(i) PROVE ResultInv'
  BY <1>18 DEF CollectHeartbeat, ResultInv, TypeOK
<1>19. CASE LoseVoteRequest
  BY <1>19 DEF LoseVoteRequest, ResultInv
<1>20. CASE LoseHeartbeat
  BY <1>20 DEF LoseHeartbeat, ResultInv
<1>21. CASE UNCHANGED vars
  BY <1>21 DEF vars, ResultInv
<1>22. QED
  BY <1>1, <1>2, <1>3, <1>4, <1>5, <1>6, <1>7, <1>8, <1>9, <1>10, <1>11, <1>12, <1>13, <1>14, <1>15, <1>16, <1>17, <1>18, <1>19, <1>20, <1>21
  DEF Next, MainTask, BackgroundTask

\* Nothing makes a leader but a backed result, and nothing takes its votes away.
LEMMA QuorumStep ==
    ASSUME TypeOK, RoleInv, SessionInv, ResultInv, LeaderHasQuorum, [Next]_vars
    PROVE  LeaderHasQuorum'
<1> USE DEF node_vars, session_vars, task_vars, vote_net, append_net
<1>1. ASSUME NEW i \in Node, EnterFollower(i) PROVE LeaderHasQuorum'
  BY <1>1 DEF EnterFollower, DropSession, LeaderHasQuorum, TypeOK
<1>2. ASSUME NEW i \in Node, EnterCandidate(i) PROVE LeaderHasQuorum'
  BY <1>2 DEF EnterCandidate, NewVoteSession, LeaderHasQuorum, TypeOK
<1>3. ASSUME NEW i \in Node, EnterLeader(i) PROVE LeaderHasQuorum'
  BY <1>3 DEF EnterLeader, LeaderHasQuorum, TypeOK
<1>4. ASSUME NEW i \in Node, Stop(i) PROVE LeaderHasQuorum'
  BY <1>4 DEF Stop, LeaderHasQuorum, TypeOK
<1>5. ASSUME NEW i \in Node, LeaveRole(i) PROVE LeaderHasQuorum'
  BY <1>5 DEF LeaveRole, LeaderHasQuorum, TypeOK
<1>6. ASSUME NEW i \in Node, ReceiveShutdown(i) PROVE LeaderHasQuorum'
  BY <1>6 DEF ReceiveShutdown, LeaderHasQuorum, TypeOK
<1>7. ASSUME NEW i \in Node, FollowerTimeout(i) PROVE LeaderHasQuorum'
  BY <1>7 DEF FollowerTimeout, DropSession, LeaderHasQuorum, TypeOK
<1>8. ASSUME NEW i \in Node, CandidateTimeout(i) PROVE LeaderHasQuorum'
  BY <1>8 DEF CandidateTimeout, NewVoteSession, RoleInv, LeaderHasQuorum, TypeOK
<1>9. ASSUME NEW i \in Node, RetryTimeout(i) PROVE LeaderHasQuorum'
  BY <1>9 DEF RetryTimeout, LeaderHasQuorum, TypeOK
<1>10. ASSUME NEW i \in Node, WinElection(i) PROVE LeaderHasQuorum'
  <2>1. peers(i) = {} \/ EnoughVotes(i, granted_votes[i])
    BY <1>10 DEF WinElection, ResultInv, TypeOK
  <2>2. granted_votes[i] = Cardinality(granters[i]) + 1
    BY <1>10 DEF WinElection, SessionInv
  <2>3. QED
    BY <1>10, <2>1, <2>2 DEF WinElection, LeaderHasQuorum, TypeOK
<1>11. ASSUME NEW i \in Node, HeartbeatTimeout(i) PROVE LeaderHasQuorum'
  BY <1>11 DEF HeartbeatTimeout, LeaderHasQuorum, TypeOK
<1>12. ASSUME NEW i \in Node, ClientRequest(i) PROVE LeaderHasQuorum'
  BY <1>12 DEF ClientRequest, LeaderHasQuorum, TypeOK
<1>13. ASSUME NEW i \in Node, HandleRequestVote(i) PROVE LeaderHasQuorum'
  <2>1. /\ current_state' \in {current_state, [current_state EXCEPT ![i] = "Follower"]}
        /\ UNCHANGED granters
    BY <1>13, Zenon DEF HandleRequestVote
  <2>2. QED
    BY <2>1 DEF LeaderHasQuorum, TypeOK
<1>14. ASSUME NEW i \in Node, HandleHeartbeat(i) PROVE LeaderHasQuorum'
  <2>1. /\ current_state' \in {current_state, [current_state EXCEPT ![i] = "Follower"]}
        /\ UNCHANGED granters
    BY <1>14, Zenon DEF HandleHeartbeat
  <2>2. QED
    BY <2>1 DEF LeaderHasQuorum, TypeOK
<1>15. ASSUME NEW i \in Node, SendVoteRequest(i) PROVE LeaderHasQuorum'
  BY <1>15 DEF SendVoteRequest, LeaderHasQuorum, TypeOK
<1>16. ASSUME NEW i \in Node, CollectVote(i) PROVE LeaderHasQuorum'
  <2>1. PICK m \in vote_resps : VoteStepDown(i, m) \/ CountAnswer(i, m) \/ DecidingVote(i, m)
    BY <1>16 DEF CollectVote
  <2>2. CASE VoteStepDown(i, m)
    BY <2>2 DEF VoteStepDown, LeaderHasQuorum, TypeOK
  <2>3. CASE CountAnswer(i, m) \/ DecidingVote(i, m)
    <3>1. /\ UNCHANGED current_state
          /\ granters' \in {granters, [granters EXCEPT ![i] = @ \cup {m.from}]}
      BY <2>3 DEF CountAnswer, DecidingVote
    <3>2. EnoughVotes(i, Cardinality(granters[i]) + 1)
             => EnoughVotes(i, Cardinality(granters[i] \cup {m.from}) + 1)
      <4>1. granters[i] \in SUBSET Node
        BY DEF TypeOK
      <4>2. /\ Cardinality(granters[i]) \in Nat
            /\ Cardinality(granters[i] \cup {m.from}) \in Nat
            /\ Cardinality(granters[i] \cup {m.from}) >= Cardinality(granters[i])
        BY <4>1, NodeSets
      <4>3. QED
        BY <4>2, EnoughIsMonotone
    <3>3. QED
      BY <3>1, <3>2 DEF LeaderHasQuorum, TypeOK
  <2>4. QED
    BY <2>1, <2>2, <2>3
<1>17. ASSUME NEW i \in Node, SendHeartbeats(i) PROVE LeaderHasQuorum'
  BY <1>17 DEF SendHeartbeats, LeaderHasQuorum, TypeOK
<1>18. ASSUME NEW i \in Node, CollectHeartbeat(i) PROVE LeaderHasQuorum'
  BY <1>18 DEF CollectHeartbeat, LeaderHasQuorum, TypeOK
<1>19. CASE LoseVoteRequest
  BY <1>19 DEF LoseVoteRequest, LeaderHasQuorum
<1>20. CASE LoseHeartbeat
  BY <1>20 DEF LoseHeartbeat, LeaderHasQuorum
<1>21. CASE UNCHANGED vars
  BY <1>21 DEF vars, LeaderHasQuorum
<1>22. QED
  BY <1>1, <1>2, <1>3, <1>4, <1>5, <1>6, <1>7, <1>8, <1>9, <1>10, <1>11, <1>12, <1>13, <1>14, <1>15, <1>16, <1>17, <1>18, <1>19, <1>20, <1>21
  DEF Next, MainTask, BackgroundTask

\* A node that was just built has no session.
LEMMA QuorumInit == Init => QuorumInv
<1> SUFFICES ASSUME Init PROVE QuorumInv
  OBVIOUS
<1>1. TypeOK
  BY TypeInit
<1>2. RoleInv /\ AnswerInv /\ LeaderHasQuorum
  BY DEF Init, RoleInv, AnswerInv, LeaderHasQuorum
<1>3. SessionInv
  BY DEF Init, SessionInv
<1>4. ResultInv
  BY NoneIsNoResult DEF Init, ResultInv
<1>5. QED
  BY <1>1, <1>2, <1>3, <1>4 DEF QuorumInv

\* Each step keeps the session's books and the leaders' quorums.
LEMMA QuorumInvStep == QuorumInv /\ [Next]_vars => QuorumInv'
<1> SUFFICES ASSUME QuorumInv, [Next]_vars PROVE QuorumInv'
  OBVIOUS
<1> USE DEF QuorumInv
<1>1. TypeOK'
  BY TypeStep
<1>2. RoleInv'
  BY RoleStep
<1>3. SessionInv'
  BY SessionStep
<1>4. AnswerInv'
  BY AnswerStep
<1>5. ResultInv'
  BY ResultStep
<1>6. LeaderHasQuorum'
  BY QuorumStep
<1>7. QED
  BY <1>1, <1>2, <1>3, <1>4, <1>5, <1>6

\* In every cluster a leader holds enough votes of distinct peers.
THEOREM LeadersHaveQuorums == Spec => []LeaderHasQuorum
<1>1. QuorumInv => LeaderHasQuorum
  BY DEF QuorumInv
<1>2. QED
  BY <1>1, QuorumInit, QuorumInvStep, PTL DEF Spec

\* In every cluster a leader's vote is its own.
THEOREM LeadersVotedForThemselves == Spec => []LeaderVotedForItself
<1>1. QuorumInv => LeaderVotedForItself
  BY DEF QuorumInv, RoleInv, LeaderVotedForItself
<1>2. QED
  BY <1>1, QuorumInit, QuorumInvStep, PTL DEF Spec

-----------------------------------------------------------------------------
(***************************************************************************)
(* At most one leader where every vote is needed                           *)
(***************************************************************************)

\* With the test fixture's seeds, clusters of up to three nodes are unanimous.
LEMMA SmallClustersAreUnanimous ==
    ASSUME SeedsIncludeSelf = TRUE, Cardinality(Node) <= 3
    PROVE  Unanimous
<1> SUFFICES ASSUME NEW i \in Node PROVE ~ EnoughVotes(i, Cardinality(peers(i)))
  BY DEF Unanimous
<1>1. Cardinality(Node) \in Nat /\ Cardinality(Node) = Cardinality(peers(i)) + 1
  <2>1. i \notin peers(i) /\ Node = peers(i) \cup {i} /\ peers(i) \in SUBSET Node
    BY PeersType
  <2>2. QED
    BY <2>1, NodeSets
<1>2. Cardinality(peers(i)) \in Nat
  BY PeersType, NodeSets
<1>3. cluster_size(i) = Cardinality(peers(i)) + 2
  BY <1>1, <1>2 DEF cluster_size, membership
<1>4. Cardinality(peers(i)) \in {0, 1, 2}
  BY <1>1, <1>2
<1>5. QED
  BY <1>3, <1>4 DEF EnoughVotes

\* Enough votes are the votes of all peers.
LEMMA EnoughIsAll ==
    ASSUME Unanimous, NEW i \in Node, NEW S \in SUBSET peers(i),
           EnoughVotes(i, Cardinality(S) + 1)
    PROVE  S = peers(i)
<1>1. IsFiniteSet(peers(i)) /\ Cardinality(peers(i)) \in Nat
  BY PeersType, NodeSets
<1>2. Cardinality(S) \in Nat /\ Cardinality(S) <= Cardinality(peers(i))
  BY <1>1, PeersType, NodeSets, FS_Subset
<1>3. Cardinality(S) = Cardinality(peers(i))
  <2>1. CASE Cardinality(S) + 1 <= Cardinality(peers(i))
    BY <1>1, <1>2, <2>1, EnoughIsMonotone DEF Unanimous
  <2>2. QED
    BY <1>1, <1>2, <2>1
<1>4. QED
  BY <1>1, <1>3, FS_Subset

\* A leader that becomes a candidate passes through an election timeout that
\* outlives its heartbeat tasks.
LEMMA HeartbeatStep ==
    ASSUME TypeOK, RoleInv, HeartbeatInv, [Next]_vars
    PROVE  HeartbeatInv'
<1> USE DEF node_vars, session_vars, task_vars, vote_net, append_net
<1>1. ASSUME NEW i \in Node, EnterFollower(i) PROVE HeartbeatInv'
  BY <1>1 DEF EnterFollower, HeartbeatInv, TypeOK
<1>2. ASSUME NEW i \in Node, EnterCandidate(i) PROVE HeartbeatInv'
  <2>1. /\ \A m \in append_rpcs' : m.live => m \in append_rpcs /\ m.from # i
        /\ stale_resps' = {m \in stale_resps : m.to # i}
    BY <1>2, DropHeartbeatAnswersType DEF EnterCandidate, NewVoteSession, ExpireTasks
  <2>2. QED
    BY <1>2, <2>1 DEF EnterCandidate, HeartbeatInv, TypeOK
<1>3. ASSUME NEW i \in Node, EnterLeader(i) PROVE HeartbeatInv'
  BY <1>3 DEF EnterLeader, HeartbeatInv, TypeOK
<1>4. ASSUME NEW i \in Node, Stop(i) PROVE HeartbeatInv'
  BY <1>4 DEF Stop, HeartbeatInv, TypeOK
<1>5. ASSUME NEW i \in Node, LeaveRole(i) PROVE HeartbeatInv'
  BY <1>5 DEF LeaveRole, HeartbeatInv, TypeOK
<1>6. ASSUME NEW i \in Node, ReceiveShutdown(i) PROVE HeartbeatInv'
  BY <1>6 DEF ReceiveShutdown, EndIteration, Running, HeartbeatInv, TypeOK
<1>7. ASSUME NEW i \in Node, FollowerTimeout(i) PROVE HeartbeatInv'
  <2>1. /\ \A m \in append_rpcs' : m.live => m \in append_rpcs /\ m.from # i
        /\ stale_resps' = {m \in stale_resps : m.to # i}
    BY <1>7, DropHeartbeatAnswersType DEF FollowerTimeout, ExpireTasks
  <2>2. QED
    BY <1>7, <2>1 DEF FollowerTimeout, EndIteration, HeartbeatInv, TypeOK
<1>8. ASSUME NEW i \in Node, CandidateTimeout(i) PROVE HeartbeatInv'
  <2>1. /\ \A m \in append_rpcs' : m.live => m \in append_rpcs /\ m.from # i
        /\ stale_resps' = {m \in stale_resps : m.to # i}
    BY <1>8, DropHeartbeatAnswersType DEF CandidateTimeout, NewVoteSession, ExpireTasks
  <2>2. QED
    BY <1>8, <2>1 DEF CandidateTimeout, EndIteration, HeartbeatInv, TypeOK
<1>9. ASSUME NEW i \in Node, RetryTimeout(i) PROVE HeartbeatInv'
  <2>1. /\ \A m \in append_rpcs' : m.live => m \in append_rpcs /\ m.from # i
        /\ stale_resps' = {m \in stale_resps : m.to # i}
    BY <1>9, DropHeartbeatAnswersType DEF RetryTimeout, ExpireTasks
  <2>2. QED
    BY <1>9, <2>1 DEF RetryTimeout, EndIteration, HeartbeatInv, TypeOK
<1>10. ASSUME NEW i \in Node, WinElection(i) PROVE HeartbeatInv'
  BY <1>10 DEF WinElection, EndIteration, Running, HeartbeatInv, TypeOK
<1>11. ASSUME NEW i \in Node, HeartbeatTimeout(i) PROVE HeartbeatInv'
  <2>1. /\ \A m \in append_rpcs' : m.live => m \in append_rpcs /\ m.from # i
        /\ stale_resps' = {m \in stale_resps : m.to # i}
    BY <1>11, DropHeartbeatAnswersType DEF HeartbeatTimeout, ExpireTasks
  <2>2. QED
    BY <1>11, <2>1 DEF HeartbeatTimeout, EndIteration, RoleInv, HeartbeatInv, TypeOK
<1>12. ASSUME NEW i \in Node, ClientRequest(i) PROVE HeartbeatInv'
  BY <1>12 DEF ClientRequest, EndIteration, FailAnswer, Running, HeartbeatInv, TypeOK
<1>13. ASSUME NEW i \in Node, HandleRequestVote(i) PROVE HeartbeatInv'
  <2>1. /\ current_state' \in {current_state, [current_state EXCEPT ![i] = "Follower"]}
        /\ EndIteration(i, current_state'[i]) \/ FailAnswer(i)
        /\ UNCHANGED << heartbeat_due, append_net >>
    BY <1>13, Zenon DEF HandleRequestVote
  <2>2. QED
    BY <2>1 DEF EndIteration, FailAnswer, HeartbeatInv, TypeOK
<1>14. ASSUME NEW i \in Node, HandleHeartbeat(i) PROVE HeartbeatInv'
  <2> DEFINE stale(m) == AppendEntriesReason(current_term[i], log[i], HeartbeatRequest(m)) = "StaleTerm"
  <2>1. PICK m \in append_rpcs :
           /\ \/ stale_resps' = stale_resps
              \/ stale_resps' = stale_resps \cup (IF stale(m) THEN StaleAnswer(i, m) ELSE {})
           /\ current_state' \in {current_state, [current_state EXCEPT ![i] = "Follower"]}
           /\ EndIteration(i, current_state'[i]) \/ FailAnswer(i)
           /\ append_rpcs' = append_rpcs \ {m}
           /\ UNCHANGED heartbeat_due
    BY <1>14, Zenon DEF HandleHeartbeat
  <2>2. \A n \in stale_resps' : n \in stale_resps \/ (m.live /\ n.to = m.from)
    BY <2>1 DEF StaleAnswer
  <2>3. \A j \in Node : role'[j] = "Candidate" \/ current_state'[j] = "Candidate"
                          => role[j] = "Candidate" \/ current_state[j] = "Candidate"
    BY <2>1 DEF EndIteration, FailAnswer, TypeOK
  <2>4. QED
    BY <2>1, <2>2, <2>3 DEF HeartbeatInv
<1>15. ASSUME NEW i \in Node, SendVoteRequest(i) PROVE HeartbeatInv'
  BY <1>15 DEF SendVoteRequest, HeartbeatInv, TypeOK
<1>16. ASSUME NEW i \in Node, CollectVote(i) PROVE HeartbeatInv'
  <2>1. /\ current_state' \in {current_state, [current_state EXCEPT ![i] = "Follower"]}
        /\ UNCHANGED << role, heartbeat_due, append_net >>
    BY <1>16 DEF CollectVote, VoteStepDown, CountAnswer, DecidingVote
  <2>2. QED
    BY <2>1 DEF HeartbeatInv, TypeOK
<1>17. ASSUME NEW i \in Node, SendHeartbeats(i) PROVE HeartbeatInv'
  <2>1. /\ heartbeat_due[i]
        /\ \A m \in append_rpcs' : m \in append_rpcs \/ m.from = i
        /\ \A j \in Node : heartbeat_due'[j] => heartbeat_due[j]
        /\ UNCHANGED << role, current_state, stale_resps >>
    BY <1>17 DEF SendHeartbeats, TypeOK
  <2>2. QED
    BY <2>1 DEF HeartbeatInv
<1>18. ASSUME NEW i \in Node, CollectHeartbeat(i) PROVE HeartbeatInv'
  <2>1. /\ \A m \in append_rpcs' : m.live => m \in append_rpcs /\ m.from # i
        /\ stale_resps' = {m \in stale_resps : m.to # i}
    BY <1>18, DropHeartbeatAnswersType DEF CollectHeartbeat
  <2>2. QED
    BY <1>18, <2>1 DEF CollectHeartbeat, HeartbeatInv, TypeOK
<1>19. CASE LoseVoteRequest
  BY <1>19 DEF LoseVoteRequest, HeartbeatInv
<1>20. CASE LoseHeartbeat
  BY <1>20 DEF LoseHeartbeat, HeartbeatInv
<1>21. CASE UNCHANGED vars
  BY <1>21 DEF vars, HeartbeatInv
<1>22. QED
  BY <1>1, <1>2, <1>3, <1>4, <1>5, <1>6, <1>7, <1>8, <1>9, <1>10, <1>11, <1>12, <1>13, <1>14, <1>15, <1>16, <1>17, <1>18, <1>19, <1>20, <1>21
  DEF Next, MainTask, BackgroundTask

\* No answer can make a candidate step down once all votes are in.
LEMMA StepDownStep ==
    ASSUME Unanimous, QuorumInv, HeartbeatInv, StepDownInv, [Next]_vars
    PROVE  StepDownInv'
<1> USE DEF node_vars, session_vars, task_vars, vote_net, append_net
<1> USE DEF QuorumInv
<1>1. ASSUME NEW i \in Node, EnterFollower(i) PROVE StepDownInv'
  BY <1>1 DEF EnterFollower, DropSession, StepDownInv, TypeOK
<1>2. ASSUME NEW i \in Node, EnterCandidate(i) PROVE StepDownInv'
  BY <1>2 DEF EnterCandidate, NewVoteSession, RequestVotes, StepDownInv, TypeOK
<1>3. ASSUME NEW i \in Node, EnterLeader(i) PROVE StepDownInv'
  BY <1>3 DEF EnterLeader, StepDownInv, TypeOK
<1>4. ASSUME NEW i \in Node, Stop(i) PROVE StepDownInv'
  BY <1>4 DEF Stop, StepDownInv, TypeOK
<1>5. ASSUME NEW i \in Node, LeaveRole(i) PROVE StepDownInv'
  BY <1>5 DEF LeaveRole, StepDownInv, TypeOK
<1>6. ASSUME NEW i \in Node, ReceiveShutdown(i) PROVE StepDownInv'
  BY <1>6 DEF ReceiveShutdown, EndIteration, StepDownInv, TypeOK
<1>7. ASSUME NEW i \in Node, FollowerTimeout(i) PROVE StepDownInv'
  BY <1>7 DEF FollowerTimeout, DropSession, EndIteration, StepDownInv, TypeOK
<1>8. ASSUME NEW i \in Node, CandidateTimeout(i) PROVE StepDownInv'
  BY <1>8 DEF CandidateTimeout, NewVoteSession, RequestVotes, EndIteration, StepDownInv, TypeOK
<1>9. ASSUME NEW i \in Node, RetryTimeout(i) PROVE StepDownInv'
  BY <1>9 DEF RetryTimeout, RequestVotes, EndIteration, StepDownInv, TypeOK
<1>10. ASSUME NEW i \in Node, WinElection(i) PROVE StepDownInv'
  BY <1>10 DEF WinElection, EndIteration, StepDownInv, TypeOK
<1>11. ASSUME NEW i \in Node, HeartbeatTimeout(i) PROVE StepDownInv'
  BY <1>11 DEF HeartbeatTimeout, EndIteration, StepDownInv, TypeOK
<1>12. ASSUME NEW i \in Node, ClientRequest(i) PROVE StepDownInv'
  BY <1>12 DEF ClientRequest, EndIteration, FailAnswer, StepDownInv, TypeOK
<1>13. ASSUME NEW i \in Node, HandleRequestVote(i) PROVE StepDownInv'
  <2>1. /\ current_state' \in {current_state, [current_state EXCEPT ![i] = "Follower"]}
        /\ EndIteration(i, current_state'[i]) \/ FailAnswer(i)
        /\ UNCHANGED << collecting, vote_result >>
    BY <1>13, Zenon DEF HandleRequestVote
  <2>2. QED
    BY <2>1 DEF EndIteration, FailAnswer, StepDownInv, TypeOK
<1>14. ASSUME NEW i \in Node, HandleHeartbeat(i) PROVE StepDownInv'
  <2>1. /\ current_state' \in {current_state, [current_state EXCEPT ![i] = "Follower"]}
        /\ EndIteration(i, current_state'[i]) \/ FailAnswer(i)
        /\ UNCHANGED << collecting, vote_result >>
    BY <1>14, Zenon DEF HandleHeartbeat
  <2>2. QED
    BY <2>1 DEF EndIteration, FailAnswer, StepDownInv, TypeOK
<1>15. ASSUME NEW i \in Node, SendVoteRequest(i) PROVE StepDownInv'
  BY <1>15 DEF SendVoteRequest, StepDownInv, TypeOK
<1>16. ASSUME NEW i \in Node, CollectVote(i) PROVE StepDownInv'
  <2>1. PICK m \in vote_resps :
           /\ m.to = i
           /\ VoteStepDown(i, m) \/ CountAnswer(i, m) \/ DecidingVote(i, m)
    BY <1>16 DEF CollectVote
  <2>2. collecting[i] /\ m.from \in peers(i) /\ m.from \notin ack_peers[i]
    BY <1>16, <2>1 DEF CollectVote, AnswerInv
  <2>3. role[i] = "Candidate" => current_state[i] # "Follower"
    BY <2>2 DEF StepDownInv
  <2>4. CASE VoteStepDown(i, m)
    <3>1. role[i] = "Candidate" => vote_result[i] # "Granted"
      <4>1. m.from \notin granters[i] /\ granters[i] \subseteq peers(i)
        BY <2>2 DEF SessionInv
      <4>2. ~ EnoughVotes(i, Cardinality(granters[i]) + 1)
        BY <2>2, <4>1, EnoughIsAll
      <4>3. QED
        BY <2>2, <4>2 DEF ResultInv, SessionInv
    <3>2. vote_result[i] # "NoPeers"
      BY <2>2 DEF ResultInv
    <3>3. QED
      BY <2>4, <3>1, <3>2 DEF VoteStepDown, StepDownInv, TypeOK
  <2>5. CASE CountAnswer(i, m)
    BY <2>3, <2>5 DEF CountAnswer, StepDownInv
  <2>6. CASE DecidingVote(i, m)
    BY <2>3, <2>6 DEF DecidingVote, StepDownInv, TypeOK
  <2>7. QED
    BY <2>1, <2>4, <2>5, <2>6
<1>17. ASSUME NEW i \in Node, SendHeartbeats(i) PROVE StepDownInv'
  BY <1>17 DEF SendHeartbeats, StepDownInv, TypeOK
<1>18. ASSUME NEW i \in Node, CollectHeartbeat(i) PROVE StepDownInv'
  <2>1. role[i] # "Candidate"
    BY <1>18 DEF CollectHeartbeat, HeartbeatInv
  <2>2. QED
    BY <1>18, <2>1 DEF CollectHeartbeat, StepDownInv, TypeOK
<1>19. CASE LoseVoteRequest
  BY <1>19 DEF LoseVoteRequest, StepDownInv
<1>20. CASE LoseHeartbeat
  BY <1>20 DEF LoseHeartbeat, StepDownInv
<1>21. CASE UNCHANGED vars
  BY <1>21 DEF vars, StepDownInv
<1>22. QED
  BY <1>1, <1>2, <1>3, <1>4, <1>5, <1>6, <1>7, <1>8, <1>9, <1>10, <1>11, <1>12, <1>13, <1>14, <1>15, <1>16, <1>17, <1>18, <1>19, <1>20, <1>21
  DEF Next, MainTask, BackgroundTask


\* A step after which every campaigning node's votes were there before keeps
\* rivals apart.
LEMMA RivalsKept ==
    ASSUME RivalInv,
           \A j, k \in Node : Campaigns(j)' /\ HasVoteOf(j, k)'
                                 => Campaigns(j) /\ HasVoteOf(j, k)
    PROVE  RivalInv'
BY DEF RivalInv

\* After a new session or an election timeout of i, i has nobody's vote.
LEMMA NoVotesLeft ==
    ASSUME TypeOK, RivalInv, NEW i \in Node, vote_resps' = {m \in vote_resps : m.to # i},
           granters' = [granters EXCEPT ![i] = {}],
           \A j \in Node \ {i} : current_state'[j] = current_state[j]
    PROVE  RivalInv'
<1>1. \A k \in Node : ~ HasVoteOf(i, k)'
  BY DEF HasVoteOf, TypeOK
<1>2. \A j \in Node \ {i}, k \in Node : HasVoteOf(j, k)' => HasVoteOf(j, k)
  BY DEF HasVoteOf, TypeOK
<1>3. QED
  BY <1>1, <1>2, RivalsKept DEF Campaigns

\* A step that only drops answers, and makes nobody campaign, keeps rivals apart.
LEMMA FewerAnswers ==
    ASSUME TypeOK, RivalInv,
           \A m \in vote_resps' : m \in vote_resps,
           \A j \in Node : granters'[j] \subseteq granters[j],
           \A j \in Node : Campaigns(j)' => Campaigns(j)
    PROVE  RivalInv'
<1>1. \A j, k \in Node : HasVoteOf(j, k)' => HasVoteOf(j, k)
  BY DEF HasVoteOf
<1>2. QED
  BY <1>1, RivalsKept

\* Whoever grants a vote stops campaigning, so no two rivals get each other's.
LEMMA RivalStep ==
    ASSUME QuorumInv, StepDownInv, RivalInv, [Next]_vars
    PROVE  RivalInv'
<1> USE DEF node_vars, session_vars, task_vars, vote_net, append_net
<1>0. TypeOK
  BY DEF QuorumInv
<1> USE <1>0
<1>1. ASSUME NEW i \in Node, EnterFollower(i) PROVE RivalInv'
  BY <1>1, FewerAnswers DEF EnterFollower, DropSession, Campaigns, TypeOK
<1>2. ASSUME NEW i \in Node, EnterCandidate(i) PROVE RivalInv'
  BY <1>2, NoVotesLeft DEF EnterCandidate, NewVoteSession, ExpireTasks, DropVoteAnswers
<1>3. ASSUME NEW i \in Node, EnterLeader(i) PROVE RivalInv'
  BY <1>3, FewerAnswers DEF EnterLeader, Campaigns, TypeOK
<1>4. ASSUME NEW i \in Node, Stop(i) PROVE RivalInv'
  BY <1>4, FewerAnswers DEF Stop, Campaigns, TypeOK
<1>5. ASSUME NEW i \in Node, LeaveRole(i) PROVE RivalInv'
  BY <1>5, FewerAnswers DEF LeaveRole, Campaigns, TypeOK
<1>6. ASSUME NEW i \in Node, ReceiveShutdown(i) PROVE RivalInv'
  BY <1>6, FewerAnswers DEF ReceiveShutdown, Campaigns, TypeOK
<1>7. ASSUME NEW i \in Node, FollowerTimeout(i) PROVE RivalInv'
  BY <1>7, NoVotesLeft DEF FollowerTimeout, ExpireTasks, DropVoteAnswers, DropSession, TypeOK
<1>8. ASSUME NEW i \in Node, CandidateTimeout(i) PROVE RivalInv'
  BY <1>8, NoVotesLeft DEF CandidateTimeout, NewVoteSession, ExpireTasks, DropVoteAnswers
<1>9. ASSUME NEW i \in Node, RetryTimeout(i) PROVE RivalInv'
  BY <1>9, FewerAnswers DEF RetryTimeout, ExpireTasks, DropVoteAnswers, Campaigns
<1>10. ASSUME NEW i \in Node, WinElection(i) PROVE RivalInv'
  <2>1. current_state[i] = "Candidate"
    BY <1>10 DEF WinElection, QuorumInv, RoleInv, StepDownInv
  <2>2. QED
    BY <1>10, <2>1, FewerAnswers DEF WinElection, Campaigns, TypeOK
<1>11. ASSUME NEW i \in Node, HeartbeatTimeout(i) PROVE RivalInv'
  BY <1>11, FewerAnswers DEF HeartbeatTimeout, ExpireTasks, DropVoteAnswers, Campaigns
<1>12. ASSUME NEW i \in Node, ClientRequest(i) PROVE RivalInv'
  BY <1>12, FewerAnswers DEF ClientRequest, Campaigns, TypeOK
<1>13. ASSUME NEW i \in Node, HandleRequestVote(i) PROVE RivalInv'
  <2> DEFINE reason(m) == RequestVoteReason(current_term[i], voted_for[i], log[i], m)
  <2>1. PICK m \in vote_rpcs :
           /\ m.to = i
           /\ \/ /\ reason(m) \in AdoptingReasons
                 /\ current_state' = [current_state EXCEPT ![i] = "Follower"]
              \/ /\ reason(m) \notin AdoptingReasons
                 /\ current_state' = current_state
           /\ vote_resps' \in {vote_resps, vote_resps \cup VoteAnswer(i, m, reason(m))}
           /\ UNCHANGED granters
    BY <1>13, Zenon DEF HandleRequestVote
  <2>2. \A j \in Node : Campaigns(j)' => Campaigns(j)
    BY <2>1 DEF Campaigns, TypeOK
  <2>3. \A n \in vote_resps' : n.reason = "Ok" /\ n \notin vote_resps
                                 => n.from = i /\ reason(m) = "Ok"
    BY <2>1 DEF VoteAnswer
  <2>4. \A j, k \in Node : HasVoteOf(j, k)' =>
           HasVoteOf(j, k) \/ (k = i /\ reason(m) = "Ok")
    BY <2>1, <2>3 DEF HasVoteOf
  <2>5. reason(m) = "Ok" => ~ Campaigns(i)'
    BY <2>1 DEF Campaigns, AdoptingReasons, TypeOK
  <2> HIDE DEF reason
  <2>6. SUFFICES ASSUME NEW j \in Node, NEW k \in Node, j # k,
                        Campaigns(j)', Campaigns(k)',
                        HasVoteOf(j, k)', HasVoteOf(k, j)'
                 PROVE  FALSE
    BY DEF RivalInv
  <2>7. HasVoteOf(j, k) /\ HasVoteOf(k, j)
    BY <2>4, <2>5, <2>6
  <2>8. QED
    BY <2>2, <2>6, <2>7 DEF RivalInv
<1>14. ASSUME NEW i \in Node, HandleHeartbeat(i) PROVE RivalInv'
  <2>1. /\ current_state' \in {current_state, [current_state EXCEPT ![i] = "Follower"]}
        /\ UNCHANGED << granters, vote_resps >>
    BY <1>14, Zenon DEF HandleHeartbeat
  <2>2. QED
    BY <2>1, FewerAnswers DEF Campaigns, TypeOK
<1>15. ASSUME NEW i \in Node, SendVoteRequest(i) PROVE RivalInv'
  BY <1>15, FewerAnswers DEF SendVoteRequest, Campaigns, TypeOK
<1>16. ASSUME NEW i \in Node, CollectVote(i) PROVE RivalInv'
  <2>1. PICK m \in vote_resps :
           /\ m.to = i
           /\ VoteStepDown(i, m) \/ CountAnswer(i, m) \/ DecidingVote(i, m)
    BY <1>16 DEF CollectVote
  <2>2. /\ current_state' \in {current_state, [current_state EXCEPT ![i] = "Follower"]}
        /\ \/ granters' = granters
           \/ m.reason = "Ok" /\ granters' = [granters EXCEPT ![i] = @ \cup {m.from}]
        /\ \A n \in vote_resps' : n \in vote_resps
    BY <2>1 DEF VoteStepDown, CountAnswer, DecidingVote, DropVoteAnswers
  <2>3. \A j \in Node : Campaigns(j)' => Campaigns(j)
    BY <2>2 DEF Campaigns, TypeOK
  <2>4. \A j, k \in Node : HasVoteOf(j, k)' => HasVoteOf(j, k)
    BY <2>1, <2>2 DEF HasVoteOf, TypeOK
  <2>5. QED
    BY <2>3, <2>4, RivalsKept
<1>17. ASSUME NEW i \in Node, SendHeartbeats(i) PROVE RivalInv'
  BY <1>17, FewerAnswers DEF SendHeartbeats, Campaigns, TypeOK
<1>18. ASSUME NEW i \in Node, CollectHeartbeat(i) PROVE RivalInv'
  BY <1>18, FewerAnswers DEF CollectHeartbeat, Campaigns, TypeOK
<1>19. CASE LoseVoteRequest
  BY <1>19, FewerAnswers DEF LoseVoteRequest, Campaigns
<1>20. CASE LoseHeartbeat
  BY <1>20, FewerAnswers DEF LoseHeartbeat, Campaigns
<1>21. CASE UNCHANGED vars
  BY <1>21 DEF vars, RivalInv, Campaigns, HasVoteOf
<1>22. QED
  BY <1>1, <1>2, <1>3, <1>4, <1>5, <1>6, <1>7, <1>8, <1>9, <1>10, <1>11, <1>12, <1>13, <1>14, <1>15, <1>16, <1>17, <1>18, <1>19, <1>20, <1>21
  DEF Next, MainTask, BackgroundTask

\* A node that was just built neither campaigns nor leads.
LEMMA UnanimityInit == Init => UnanimityInv
<1> SUFFICES ASSUME Init PROVE UnanimityInv
  OBVIOUS
<1>1. QuorumInv
  BY QuorumInit
<1>2. HeartbeatInv /\ StepDownInv
  BY DEF Init, HeartbeatInv, StepDownInv
<1>3. RivalInv
  BY DEF Init, RivalInv, Campaigns
<1>4. QED
  BY <1>1, <1>2, <1>3 DEF UnanimityInv

\* Each step keeps the four parts of UnanimityInv, in a cluster where every vote
\* counts.
LEMMA UnanimityStep ==
    ASSUME Unanimous, UnanimityInv, [Next]_vars
    PROVE  UnanimityInv'
<1>1. QuorumInv'
  BY QuorumInvStep DEF UnanimityInv
<1>2. HeartbeatInv'
  BY HeartbeatStep DEF UnanimityInv, QuorumInv
<1>3. StepDownInv'
  BY StepDownStep DEF UnanimityInv
<1>4. RivalInv'
  BY RivalStep DEF UnanimityInv
<1>5. QED
  BY <1>1, <1>2, <1>3, <1>4 DEF UnanimityInv

\* Two leaders would each have counted the other's vote.
LEMMA UnanimityGivesOneLeader ==
    ASSUME Unanimous, UnanimityInv
    PROVE  OneLeader
<1> SUFFICES ASSUME NEW i \in Node, NEW j \in Node, i # j,
                    current_state[i] = "Leader", current_state[j] = "Leader"
             PROVE  FALSE
  BY DEF OneLeader
<1>1. j \in peers(i) /\ i \in peers(j)
  BY DEF peers, membership
<1>2. granters[i] = peers(i)
  <2>1. granters[i] \in SUBSET peers(i) /\ EnoughVotes(i, Cardinality(granters[i]) + 1)
    BY <1>1 DEF UnanimityInv, QuorumInv, SessionInv, LeaderHasQuorum
  <2>2. QED
    BY <2>1, EnoughIsAll
<1>3. granters[j] = peers(j)
  <2>1. granters[j] \in SUBSET peers(j) /\ EnoughVotes(j, Cardinality(granters[j]) + 1)
    BY <1>1 DEF UnanimityInv, QuorumInv, SessionInv, LeaderHasQuorum
  <2>2. QED
    BY <2>1, EnoughIsAll
<1>4. HasVoteOf(i, j) /\ HasVoteOf(j, i)
  BY <1>1, <1>2, <1>3 DEF HasVoteOf
<1>5. QED
  BY <1>4 DEF UnanimityInv, RivalInv, Campaigns

\* Where no node can win without every other node's vote there is never more
\* than one leader.
THEOREM OneLeaderIfUnanimous ==
    ASSUME Unanimous
    PROVE  Spec => []OneLeader
<1>1. Init => UnanimityInv
  BY UnanimityInit
<1>2. UnanimityInv /\ [Next]_vars => UnanimityInv'
  BY UnanimityStep
<1>3. UnanimityInv => OneLeader
  BY UnanimityGivesOneLeader
<1>4. QED
  BY <1>1, <1>2, <1>3, PTL DEF Spec

\* The inductive invariant that keeps rivals apart, as a theorem of its own.
THEOREM RivalsStayApart ==
    ASSUME Unanimous
    PROVE  Spec => []UnanimityInv
<1>1. UnanimityInv /\ [Next]_vars => UnanimityInv'
  BY UnanimityStep
<1>2. QED
  BY <1>1, UnanimityInit, PTL DEF Spec

\* The test fixture's clusters of up to three nodes, whose seeds list every
\* node, never have two leaders, not even in different terms.
THEOREM OneLeaderInTestClusters ==
    ASSUME SeedsIncludeSelf = TRUE, Cardinality(Node) <= 3
    PROVE  Spec => []OneLeader
BY SmallClustersAreUnanimous, OneLeaderIfUnanimous

-----------------------------------------------------------------------------
(***************************************************************************)
(* The refinement of Leadership                                            *)
(***************************************************************************)

\* A step changes the state of one node at most.
LEMMA OneNodeAtATime ==
    ASSUME TypeOK, [Next]_vars
    PROVE  \E i \in Node : \A j \in Node \ {i} : current_state'[j] = current_state[j]
<1> DEFINE Touches(i) == \A j \in Node \ {i} : current_state'[j] = current_state[j]
<1> USE DEF node_vars, session_vars, task_vars, vote_net, append_net
<1>1. ASSUME NEW i \in Node,
             \/ EnterFollower(i) \/ EnterCandidate(i) \/ EnterLeader(i) \/ Stop(i)
             \/ LeaveRole(i) \/ ReceiveShutdown(i) \/ FollowerTimeout(i)
             \/ CandidateTimeout(i) \/ RetryTimeout(i) \/ WinElection(i)
             \/ HeartbeatTimeout(i) \/ ClientRequest(i)
      PROVE  Touches(i)
  BY <1>1 DEF EnterFollower, EnterCandidate, EnterLeader, Stop, LeaveRole, ReceiveShutdown,
              FollowerTimeout, CandidateTimeout, RetryTimeout, WinElection, HeartbeatTimeout,
              ClientRequest, TypeOK
<1>2. ASSUME NEW i \in Node, HandleRequestVote(i) \/ HandleHeartbeat(i)
      PROVE  Touches(i)
  <2>1. current_state' \in {current_state, [current_state EXCEPT ![i] = "Follower"]}
    BY <1>2, Zenon DEF HandleRequestVote, HandleHeartbeat
  <2>2. QED
    BY <2>1 DEF TypeOK
<1>3. ASSUME NEW i \in Node, BackgroundTask(i)
      PROVE  Touches(i)
  BY <1>3 DEF BackgroundTask, SendVoteRequest, CollectVote, VoteStepDown, CountAnswer,
              DecidingVote, SendHeartbeats, CollectHeartbeat, TypeOK
<1>4. ASSUME LoseVoteRequest \/ LoseHeartbeat \/ UNCHANGED vars
      PROVE  UNCHANGED current_state
  BY <1>4 DEF LoseVoteRequest, LoseHeartbeat, vars
<1>5. Node # {}
  BY NodeAssumption
<1>6. QED
  BY <1>1, <1>2, <1>3, <1>4, <1>5 DEF Next, MainTask

\* Between states with at most one leader each, such a step is a step of
\* Leadership or leaves the leaders alone.
LEMMA LeadersStep ==
    ASSUME OneLeader, OneLeader', NEW i \in Node,
           \A j \in Node \ {i} : current_state'[j] = current_state[j]
    PROVE  [Abstract!LeadershipNext]_leaders
<1>1. CASE current_state'[i] = "Leader" /\ current_state[i] # "Leader"
  <2>1. leaders' = {i}
    BY <1>1 DEF leaders, OneLeader
  <2>2. leaders = {}
    BY <1>1 DEF leaders, OneLeader
  <2>3. QED
    BY <2>1, <2>2 DEF Abstract!LeadershipNext, Abstract!Elect
<1>2. CASE current_state'[i] # "Leader" /\ current_state[i] = "Leader"
  <2>1. leaders = {i}
    BY <1>2 DEF leaders, OneLeader
  <2>2. leaders' = {}
    BY <1>2, <2>1 DEF leaders
  <2>3. QED
    BY <2>1, <2>2 DEF Abstract!LeadershipNext, Abstract!Depose
<1>3. CASE (current_state'[i] = "Leader") <=> (current_state[i] = "Leader")
  BY <1>3 DEF leaders
<1>4. QED
  BY <1>1, <1>2, <1>3

\* Where every vote is needed, elections implement Leadership: one holder at a
\* time, and none in between.
THEOREM ElectionImplementsLeadership ==
    ASSUME Unanimous
    PROVE  Spec => ImplementsLeadership
<1>1. Init => Abstract!LeadershipInit
  BY DEF Init, Abstract!LeadershipInit, leaders
<1>2. ASSUME UnanimityInv, UnanimityInv', [Next]_vars
      PROVE  [Abstract!LeadershipNext]_leaders
  <2>1. OneLeader /\ TypeOK
    BY <1>2, UnanimityGivesOneLeader DEF UnanimityInv, QuorumInv
  <2>2. OneLeader'
    BY <1>2, UnanimityGivesOneLeader, PTL
  <2>3. QED
    BY <1>2, <2>1, <2>2, OneNodeAtATime, LeadersStep
<1>3. UnanimityInv /\ UnanimityInv' /\ [Next]_vars => [Abstract!LeadershipNext]_leaders
  BY <1>2
<1>4. Spec => []UnanimityInv
  BY RivalsStayApart
<1>5. QED
  BY <1>1, <1>3, <1>4, PTL DEF Spec, ImplementsLeadership, Abstract!LeadershipSpec

=============================================================================
