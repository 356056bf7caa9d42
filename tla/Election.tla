------------------------------ MODULE Election ------------------------------
(***************************************************************************)
(* A cluster of zeroraft nodes electing leaders: the dispatch loop of      *)
(* RaftNode::start, the select! loops of the three roles, the background   *)
(* tasks they spawn, and the RPCs between nodes.                           *)
(*                                                                         *)
(* A node is one main task, which runs a role function, and background     *)
(* tasks that collect RPC answers.  Both write current_term and            *)
(* current_state.  The main task looks at current_state only at the top of *)
(* each loop iteration, so it may handle one more event in a role that a   *)
(* background task has already ended.  role[i] is the function the main    *)
(* task is in, current_state[i] the shared cell.                           *)
(*                                                                         *)
(* Time is abstracted: a timer may fire whenever its role runs.  The tasks *)
(* modelled here, which collect votes and answers to heartbeats, are       *)
(* bounded by timeout(): they die no later than the next timer of their    *)
(* node that fires, provided that the heartbeat interval is shorter than   *)
(* the election timeout.  An answer that stays in flight is late or lost.  *)
(*                                                                         *)
(* A handler and a collector's step-down are one step each; Handlers takes *)
(* them apart, access by access, and lets an old collector overlap the one *)
(* that replaces it.                                                       *)
(*                                                                         *)
(* Left out because no election step reads them: last_heard_from_leader    *)
(* and the State's copies of the term and the vote.  Left out too is the   *)
(* replication session of a leader, whose standby and update tasks have no *)
(* timeout.  They matter to elections where a leader starts with a         *)
(* committed entry: an update it sends may then be refused and step its    *)
(* sender down, in a later role perhaps.  Leaders here start with commit   *)
(* index 0, and such a leader sends no updates (ReplicationProofs).        *)
(***************************************************************************)
EXTENDS Responders, FiniteSets

CONSTANTS
    Node,             \* the cluster
    SeedsIncludeSelf, \* whether a node's membership map lists the node itself
    StoredTerms,      \* terms a State may hold when a node is built
    StoredVotes,      \* votes a State may hold when a node is built
    StoredLogs,       \* logs a State may hold when a node is built
    ShutdownNodes,    \* nodes whose owner may call shutdown()
    MaxShutdownTerm,  \* bound on the terms in which it does
    MaxTerm,          \* bound on terms (u64::MAX in the code)
    MaxLog,           \* bound on the length of a log
    MaxVoteRpcs,      \* bound on vote requests in flight at once
    MaxHeartbeatRpcs, \* bound on heartbeats in flight at once
    MaxStopped        \* bound on nodes whose main task fails

ASSUME NodeAssumption ==
    /\ Node # {}
    /\ IsFiniteSet(Node)
    /\ None \notin Node

\* An empty vote_result channel is not a VoteResult.
ASSUME ResultAssumption == None \notin {"NoPeers", "Granted"}

ASSUME ParameterAssumption ==
    /\ SeedsIncludeSelf \in BOOLEAN
    /\ MaxTerm \in Nat
    /\ MaxLog \in Nat
    /\ MaxVoteRpcs \in Nat
    /\ MaxHeartbeatRpcs \in Nat
    /\ MaxStopped \in Nat
    /\ MaxShutdownTerm \in Nat
    /\ StoredTerms \subseteq Nat
    /\ StoredVotes \subseteq Node \cup {None}
    /\ ShutdownNodes \subseteq Node
    /\ StoredLogs \subseteq Log

VARIABLES
    current_term,   \* RaftNodeInner.current_term
    voted_for,      \* RaftNodeInner.voted_for
    current_state,  \* RaftNodeInner.current_state
    leader_id,      \* RaftNodeInner.leader_id
    log,            \* the entries of RaftNodeInner.state
    role,           \* role function the main task runs, "Dispatch" or "Stopped"
    ack_peers,      \* VoteSession.ack_peers
    granted_votes,  \* VoteSession.granted_votes
    vote_result,    \* content of the session's vote_result channel
    collecting,     \* the request_votes task still receives answers
    votes_due,      \* peers whose send_request_vote_rpc task has not sent yet
    heartbeat_due,  \* a send_heartbeats task is spawned and has not sent yet
    vote_rpcs,      \* RequestVote requests in flight
    vote_resps,     \* their answers in flight to a live collector
    append_rpcs,    \* heartbeats in flight
    stale_resps,    \* their StaleTerm answers in flight to a live collector
    granters        \* auxiliary: the peers behind granted_votes

node_vars == << current_term, voted_for, current_state, leader_id, log, role >>
session_vars == << ack_peers, granted_votes, vote_result, granters >>
task_vars == << collecting, votes_due, heartbeat_due >>
vote_net == << vote_rpcs, vote_resps >>
append_net == << append_rpcs, stale_resps >>
vars == << node_vars, session_vars, task_vars, vote_net, append_net >>

-----------------------------------------------------------------------------
(***************************************************************************)
(* Types                                                                   *)
(***************************************************************************)

Running == {"Follower", "Candidate", "Leader"}
TaskState == Running \cup {"Shutdown"}
Role == Running \cup {"Dispatch", "Stopped"}

\* live: the collector that waits for the answer has not ended.
RequestVoteRequest ==
    [from : Node, to : Node, term : Nat, last_log_index : Nat,
     last_log_term : Nat, live : BOOLEAN]

RequestVoteResponse ==
    [from : Node, to : Node, term : Nat,
     reason : {"StaleTerm", "AlreadyVoted", "IncompleteLog", "Ok"}]

\* A heartbeat: prev_log_index = prev_log_term = 0 and no entries.
Heartbeat == [from : Node, to : Node, term : Nat, live : BOOLEAN]

StaleTermResponse == [from : Node, to : Node, term : Nat]

-----------------------------------------------------------------------------
(***************************************************************************)
(* Membership and quorum                                                   *)
(***************************************************************************)

membership(i) == IF SeedsIncludeSelf THEN Node ELSE Node \ {i}

peers(i) == membership(i) \ {i}

\* peers_len + 1, with peers_len the size of the whole membership map.
cluster_size(i) == Cardinality(membership(i)) + 1

\* Mutant: >= written for >.
EnoughVotes_AtLeastHalf(i, granted) == granted >= cluster_size(i) \div 2

EnoughVotes(i, granted) == granted > cluster_size(i) \div 2

-----------------------------------------------------------------------------
(***************************************************************************)
(* Init: RaftNodeBuilder::build.  Terms, votes and logs come from the      *)
(* State; all the rest is fresh.                                           *)
(***************************************************************************)

Init ==
    /\ current_term \in [Node -> StoredTerms]
    /\ voted_for \in [Node -> StoredVotes]
    /\ current_state = [i \in Node |-> "Follower"]
    /\ leader_id = [i \in Node |-> None]
    /\ log \in [Node -> StoredLogs]
    /\ \A i \in Node : \A k \in 1 .. Len(log[i]) : log[i][k] <= current_term[i]
    /\ role = [i \in Node |-> "Dispatch"]
    /\ ack_peers = [i \in Node |-> {}]
    /\ granted_votes = [i \in Node |-> 0]
    /\ vote_result = [i \in Node |-> None]
    /\ collecting = [i \in Node |-> FALSE]
    /\ votes_due = [i \in Node |-> {}]
    /\ heartbeat_due = [i \in Node |-> FALSE]
    /\ vote_rpcs = {}
    /\ vote_resps = {}
    /\ append_rpcs = {}
    /\ stale_resps = {}
    /\ granters = [i \in Node |-> {}]

-----------------------------------------------------------------------------
(***************************************************************************)
(* Updates of RaftNode                                                     *)
(***************************************************************************)

change_to_state(i, s) == current_state' = [current_state EXCEPT ![i] = s]

update_current_term(i, term) == current_term' = [current_term EXCEPT ![i] = term]

update_current_term_and_voted_for(i, term, candidate) ==
    /\ update_current_term(i, term)
    /\ voted_for' = [voted_for EXCEPT ![i] = candidate]

\* In memory only.
increment_term_and_vote_for_self(i) ==
    update_current_term_and_voted_for(i, current_term[i] + 1, i)

-----------------------------------------------------------------------------
(***************************************************************************)
(* Collectors and their deadlines                                          *)
(***************************************************************************)

\* Nobody waits for the answer to request m any more; m is still delivered.
Orphan(m) == [m EXCEPT !.live = FALSE]

\* The requests in flight when the collector of those that i has sent ends.
Orphaned(i, rpcs) ==
    {m \in rpcs : m.from # i} \cup {Orphan(m) : m \in {r \in rpcs : r.from = i}}

\* Mutant: a collector that is never cancelled goes on receiving.
DropVoteAnswers_KeepsCollecting(i) == UNCHANGED vote_net

\* The task collecting i's votes ends.
DropVoteAnswers(i) ==
    /\ vote_rpcs' = Orphaned(i, vote_rpcs)
    /\ vote_resps' = {m \in vote_resps : m.to # i}

\* The task collecting the answers to i's heartbeats ends.
DropHeartbeatAnswers(i) ==
    /\ append_rpcs' = Orphaned(i, append_rpcs)
    /\ stale_resps' = {m \in stale_resps : m.to # i}

\* A timer of i fires: every collector that i has spawned before has reached its
\* timeout.  (The standby and update tasks of a leader have none.)
ExpireTasks(i) == DropVoteAnswers(i) /\ DropHeartbeatAnswers(i)

\* Mutant: the check at the top of the loop is missing.
EndIteration_NoCheck(i, s) == UNCHANGED role

\* The main task ends an iteration in which current_state[i] becomes s.
EndIteration(i, s) ==
    role' = [role EXCEPT ![i] = IF s = role[i] THEN @ ELSE "Dispatch"]

\* response_tx.send(..).await? where the transport has dropped its receiver: the
\* error ends the role function, and with it RaftNode::start.
FailAnswer(i) ==
    /\ Cardinality({j \in Node : role[j] = "Stopped"}) < MaxStopped
    /\ role' = [role EXCEPT ![i] = "Stopped"]

-----------------------------------------------------------------------------
(***************************************************************************)
(* VoteSession                                                             *)
(***************************************************************************)

\* request_votes: ask every peer that has not acknowledged, each in a task of
\* its own, and collect the answers.  With no peers at all the session is
\* decided on the spot.
RequestVotes(i, acked) ==
    /\ collecting' = [collecting EXCEPT ![i] = peers(i) \ acked # {}]
    /\ votes_due' = [votes_due EXCEPT ![i] = peers(i) \ acked]

\* VoteSession::initialize followed by request_votes.  The term and the vote
\* are changed in memory only.
NewVoteSession(i) ==
    /\ current_term[i] < MaxTerm
    /\ increment_term_and_vote_for_self(i)
    /\ ack_peers' = [ack_peers EXCEPT ![i] = {}]
    /\ granted_votes' = [granted_votes EXCEPT ![i] = 1]
    /\ granters' = [granters EXCEPT ![i] = {}]
    /\ vote_result' = [vote_result EXCEPT ![i] = IF peers(i) = {} THEN "NoPeers" ELSE None]
    /\ RequestVotes(i, {})
    /\ ExpireTasks(i)

\* send_request_vote_rpc: the request carries the term and the log of the
\* moment it is sent, not of the moment the session began.
SendVoteRequest(i) ==
    \E p \in votes_due[i] :
        /\ votes_due' = [votes_due EXCEPT ![i] = @ \ {p}]
        /\ vote_rpcs' = vote_rpcs \cup
              {[from |-> i, to |-> p, term |-> current_term[i],
                last_log_index |-> get_last_index(log[i]),
                last_log_term |-> get_last_term(log[i]),
                live |-> collecting[i]]}
        /\ Cardinality(vote_rpcs') <= MaxVoteRpcs
        /\ UNCHANGED << node_vars, session_vars, collecting, heartbeat_due,
                        vote_resps, append_net >>

\* The collector reads StaleTerm or IncompleteLog: it takes over the answer's
\* term as it is, steps down and ends.
VoteStepDown(i, m) ==
    /\ m.reason \in {"StaleTerm", "IncompleteLog"}
    /\ update_current_term(i, m.term)
    /\ change_to_state(i, "Follower")
    /\ collecting' = [collecting EXCEPT ![i] = FALSE]
    /\ DropVoteAnswers(i)
    /\ UNCHANGED << voted_for, leader_id, log, role, session_vars >>

\* The collector counts an answer that does not end it.
CountAnswer(i, m) ==
    /\ \/ m.reason = "AlreadyVoted" /\ UNCHANGED << granted_votes, granters >>
       \/ /\ m.reason = "Ok"
          /\ ~ EnoughVotes(i, granted_votes[i] + 1)
          /\ granted_votes' = [granted_votes EXCEPT ![i] = @ + 1]
          /\ granters' = [granters EXCEPT ![i] = @ \cup {m.from}]
    /\ ack_peers' = [ack_peers EXCEPT ![i] = @ \cup {m.from}]
    /\ vote_resps' = vote_resps \ {m}
    /\ UNCHANGED << node_vars, vote_result, collecting, vote_rpcs >>

\* Mutant: vote_granted is not looked at.
DecidingVote_Unchecked(i, m) ==
    /\ m.reason \in {"Ok", "AlreadyVoted"}
    /\ EnoughVotes(i, granted_votes[i] + 1)
    /\ granted_votes' = [granted_votes EXCEPT ![i] = @ + 1]
    /\ granters' = IF m.reason = "Ok" THEN [granters EXCEPT ![i] = @ \cup {m.from}]
                   ELSE granters
    /\ ack_peers' = [ack_peers EXCEPT ![i] = @ \cup {m.from}]
    /\ vote_result' = IF role[i] = "Candidate" /\ vote_result[i] = None
                      THEN [vote_result EXCEPT ![i] = "Granted"]
                      ELSE vote_result
    /\ collecting' = [collecting EXCEPT ![i] = FALSE]
    /\ DropVoteAnswers(i)
    /\ UNCHANGED node_vars

\* The deciding vote: Granted goes into the one-place channel, unless the
\* candidate function has returned (receiver dropped) or a result waits there
\* already; either way the collector is done.
DecidingVote(i, m) ==
    /\ m.reason = "Ok"
    /\ EnoughVotes(i, granted_votes[i] + 1)
    /\ granted_votes' = [granted_votes EXCEPT ![i] = @ + 1]
    /\ granters' = [granters EXCEPT ![i] = @ \cup {m.from}]
    /\ ack_peers' = [ack_peers EXCEPT ![i] = @ \cup {m.from}]
    /\ vote_result' = IF role[i] = "Candidate" /\ vote_result[i] = None
                      THEN [vote_result EXCEPT ![i] = "Granted"]
                      ELSE vote_result
    /\ collecting' = [collecting EXCEPT ![i] = FALSE]
    /\ DropVoteAnswers(i)
    /\ UNCHANGED node_vars

CollectVote(i) ==
    /\ collecting[i]
    /\ \E m \in vote_resps :
          /\ m.to = i
          /\ VoteStepDown(i, m) \/ CountAnswer(i, m) \/ DecidingVote(i, m)
    /\ UNCHANGED << votes_due, heartbeat_due, append_net >>

\* The last reference to i's vote session is gone.
DropSession(i) ==
    /\ ack_peers' = [ack_peers EXCEPT ![i] = {}]
    /\ granted_votes' = [granted_votes EXCEPT ![i] = 0]
    /\ granters' = [granters EXCEPT ![i] = {}]
    /\ vote_result' = [vote_result EXCEPT ![i] = None]

-----------------------------------------------------------------------------
(***************************************************************************)
(* RaftNode::start: the role function for the current state begins.        *)
(***************************************************************************)

EnterFollower(i) ==
    /\ role[i] = "Dispatch" /\ current_state[i] = "Follower"
    /\ role' = [role EXCEPT ![i] = "Follower"]
    /\ IF collecting[i] THEN UNCHANGED session_vars ELSE DropSession(i)
    /\ UNCHANGED << current_term, voted_for, current_state, leader_id, log,
                    task_vars, vote_net, append_net >>

EnterCandidate(i) ==
    /\ role[i] = "Dispatch" /\ current_state[i] = "Candidate"
    /\ role' = [role EXCEPT ![i] = "Candidate"]
    /\ NewVoteSession(i)
    /\ UNCHANGED << current_state, leader_id, log, heartbeat_due >>

\* The first heartbeats are due at once.  The replication session itself is
\* not part of this module.
EnterLeader(i) ==
    /\ role[i] = "Dispatch" /\ current_state[i] = "Leader"
    /\ role' = [role EXCEPT ![i] = "Leader"]
    /\ heartbeat_due' = [heartbeat_due EXCEPT ![i] = TRUE]
    /\ UNCHANGED << current_term, voted_for, current_state, leader_id, log,
                    session_vars, collecting, votes_due, vote_net, append_net >>

\* The main task ends; the node's background tasks go on.
Stop(i) ==
    /\ role[i] = "Dispatch" /\ current_state[i] = "Shutdown"
    /\ role' = [role EXCEPT ![i] = "Stopped"]
    /\ UNCHANGED << current_term, voted_for, current_state, leader_id, log,
                    session_vars, task_vars, vote_net, append_net >>

\* The check at the top of a role's loop finds that a background task has
\* changed the state.
LeaveRole(i) ==
    /\ role[i] \in Running /\ role[i] # current_state[i]
    /\ role' = [role EXCEPT ![i] = "Dispatch"]
    /\ UNCHANGED << current_term, voted_for, current_state, leader_id, log,
                    session_vars, task_vars, vote_net, append_net >>

-----------------------------------------------------------------------------
(***************************************************************************)
(* Timers and channels of the role loops                                   *)
(***************************************************************************)

\* A follower's election timer fires.
FollowerTimeout(i) ==
    /\ role[i] = "Follower"
    /\ current_term[i] < MaxTerm
    /\ change_to_state(i, "Candidate")
    /\ EndIteration(i, "Candidate")
    /\ collecting' = [collecting EXCEPT ![i] = FALSE]
    /\ votes_due' = [votes_due EXCEPT ![i] = {}]
    /\ heartbeat_due' = [heartbeat_due EXCEPT ![i] = FALSE]
    /\ ExpireTasks(i)
    /\ DropSession(i)
    /\ UNCHANGED << current_term, voted_for, leader_id, log >>

\* A candidate's election timer fires: a new session in a new term.
CandidateTimeout(i) ==
    /\ role[i] = "Candidate"
    /\ NewVoteSession(i)
    /\ EndIteration(i, current_state[i])
    /\ UNCHANGED << current_state, leader_id, log, heartbeat_due >>

\* A candidate's retry timer fires: the same session asks again.
RetryTimeout(i) ==
    /\ role[i] = "Candidate"
    /\ RequestVotes(i, ack_peers[i])
    /\ vote_result' = IF peers(i) = {} THEN [vote_result EXCEPT ![i] = "NoPeers"]
                      ELSE vote_result
    /\ ExpireTasks(i)
    /\ EndIteration(i, current_state[i])
    /\ UNCHANGED << current_term, voted_for, current_state, leader_id, log,
                    ack_peers, granted_votes, granters, heartbeat_due >>

\* A candidate reads NoPeers or Granted from the session's channel.
WinElection(i) ==
    /\ role[i] = "Candidate"
    /\ vote_result[i] # None
    /\ vote_result' = [vote_result EXCEPT ![i] = None]
    /\ change_to_state(i, "Leader")
    /\ EndIteration(i, "Leader")
    /\ UNCHANGED << current_term, voted_for, leader_id, log, ack_peers, granted_votes,
                    granters, task_vars, vote_net, append_net >>

\* A leader's heartbeat timer fires.
HeartbeatTimeout(i) ==
    /\ role[i] = "Leader"
    /\ heartbeat_due' = [heartbeat_due EXCEPT ![i] = TRUE]
    /\ collecting' = [collecting EXCEPT ![i] = FALSE]
    /\ votes_due' = [votes_due EXCEPT ![i] = {}]
    /\ ExpireTasks(i)
    /\ EndIteration(i, current_state[i])
    /\ UNCHANGED << current_term, voted_for, current_state, leader_id, log, session_vars >>

\* send_heartbeat_to_peers: like a vote request, a heartbeat carries the term
\* of the moment it is sent.
SendHeartbeats(i) ==
    /\ heartbeat_due[i]
    /\ heartbeat_due' = [heartbeat_due EXCEPT ![i] = FALSE]
    /\ append_rpcs' = append_rpcs \cup
          {[from |-> i, to |-> p, term |-> current_term[i], live |-> TRUE] : p \in peers(i)}
    /\ Cardinality(append_rpcs') <= MaxHeartbeatRpcs
    /\ UNCHANGED << node_vars, session_vars, collecting, votes_due, vote_net, stale_resps >>

\* The heartbeat collector reads StaleTerm: it takes over the answer's term,
\* steps down and ends.
CollectHeartbeat(i) ==
    /\ \E m \in stale_resps :
          /\ m.to = i
          /\ update_current_term(i, m.term)
    /\ change_to_state(i, "Follower")
    /\ DropHeartbeatAnswers(i)
    /\ UNCHANGED << voted_for, leader_id, log, role, session_vars, task_vars, vote_net >>

\* A follower or a candidate answers a client with a redirect.
RedirectClient(i) ==
    /\ role[i] \in {"Follower", "Candidate"}
    /\ EndIteration(i, current_state[i]) \/ FailAnswer(i)
    /\ UNCHANGED log

\* A leader appends an entry of its current term to its own log, and does not
\* answer.
AppendClientRequest(i) ==
    /\ role[i] = "Leader"
    /\ Len(log[i]) < MaxLog
    /\ log' = [log EXCEPT ![i] = append_entries(@, << current_term[i] >>)]
    /\ EndIteration(i, current_state[i])

ClientRequest(i) ==
    /\ RedirectClient(i) \/ AppendClientRequest(i)
    /\ UNCHANGED << current_term, voted_for, current_state, leader_id,
                    session_vars, task_vars, vote_net, append_net >>

\* A role function receives the shutdown signal.
ReceiveShutdown(i) ==
    /\ i \in ShutdownNodes /\ current_term[i] <= MaxShutdownTerm
    /\ role[i] \in Running
    /\ change_to_state(i, "Shutdown")
    /\ EndIteration(i, "Shutdown")
    /\ UNCHANGED << current_term, voted_for, leader_id, log,
                    session_vars, task_vars, vote_net, append_net >>

-----------------------------------------------------------------------------
(***************************************************************************)
(* Incoming RPCs, handled alike in every role.                             *)
(***************************************************************************)

\* The answer to vote request m of a voter whose term was our_term.
VoteAnswer(i, m, reason) ==
    IF m.live
    THEN {[from |-> i, to |-> m.from, term |-> current_term[i], reason |-> reason]}
    ELSE {}

\* respond_to_request_vote.  The answer's term is the one read on entry, so an
\* adopting voter answers with the term it has just left.
HandleRequestVote(i) ==
    \E m \in vote_rpcs :
        LET reason == RequestVoteReason(current_term[i], voted_for[i], log[i], m)
        IN  /\ role[i] \in Running
            /\ m.to = i
            /\ \/ /\ reason \in AdoptingReasons
                  /\ update_current_term_and_voted_for(i, m.term, m.from)
                  /\ change_to_state(i, "Follower")
               \/ /\ reason \notin AdoptingReasons
                  /\ UNCHANGED << current_term, voted_for, current_state >>
            /\ vote_rpcs' = vote_rpcs \ {m}
            /\ \/ /\ EndIteration(i, current_state'[i])
                  /\ vote_resps' = vote_resps \cup VoteAnswer(i, m, reason)
               \/ FailAnswer(i) /\ UNCHANGED vote_resps
            /\ UNCHANGED << leader_id, log, session_vars, task_vars, append_net >>

\* The request a heartbeat message stands for.
HeartbeatRequest(m) ==
    [term |-> m.term, prev_log_index |-> 0, prev_log_term |-> 0, entries |-> << >>]

\* A heartbeat's StaleTerm answer.  Other answers change nothing this module keeps.
StaleAnswer(i, m) ==
    IF m.live THEN {[from |-> i, to |-> m.from, term |-> current_term[i]]} ELSE {}

\* respond_to_append_entries for a heartbeat, which empties the log it matches.
HandleHeartbeat(i) ==
    \E m \in append_rpcs :
        LET reason == AppendEntriesReason(current_term[i], log[i], HeartbeatRequest(m))
        IN  /\ role[i] \in Running
            /\ m.to = i
            /\ \/ /\ reason = "StaleTerm"
                  /\ UNCHANGED << current_term, current_state, leader_id, log >>
               \/ /\ reason # "StaleTerm"
                  /\ update_current_term(i, m.term)
                  /\ leader_id' = [leader_id EXCEPT ![i] = m.from]
                  /\ change_to_state(i, "Follower")
                  /\ log' = IF reason = "Ok"
                            THEN [log EXCEPT ![i] = AppendedLog(@, HeartbeatRequest(m))]
                            ELSE log
            /\ append_rpcs' = append_rpcs \ {m}
            /\ \/ /\ EndIteration(i, current_state'[i])
                  /\ stale_resps' = stale_resps \cup
                        (IF reason = "StaleTerm" THEN StaleAnswer(i, m) ELSE {})
               \/ FailAnswer(i) /\ UNCHANGED stale_resps
            /\ UNCHANGED << voted_for, session_vars, task_vars, vote_net >>

-----------------------------------------------------------------------------

\* The transport between the nodes drops a request.
LoseVoteRequest ==
    /\ \E m \in vote_rpcs : vote_rpcs' = vote_rpcs \ {m}
    /\ UNCHANGED << node_vars, session_vars, task_vars, vote_resps, append_net >>

LoseHeartbeat ==
    /\ \E m \in append_rpcs : append_rpcs' = append_rpcs \ {m}
    /\ UNCHANGED << node_vars, session_vars, task_vars, vote_net, stale_resps >>

-----------------------------------------------------------------------------

MainTask(i) ==
    \/ EnterFollower(i) \/ EnterCandidate(i) \/ EnterLeader(i) \/ Stop(i)
    \/ LeaveRole(i) \/ ReceiveShutdown(i)
    \/ FollowerTimeout(i) \/ CandidateTimeout(i) \/ RetryTimeout(i) \/ WinElection(i)
    \/ HeartbeatTimeout(i) \/ ClientRequest(i)
    \/ HandleRequestVote(i) \/ HandleHeartbeat(i)

BackgroundTask(i) ==
    \/ SendVoteRequest(i) \/ CollectVote(i)
    \/ SendHeartbeats(i) \/ CollectHeartbeat(i)

Next ==
    \/ \E i \in Node : MainTask(i) \/ BackgroundTask(i)
    \/ LoseVoteRequest \/ LoseHeartbeat

Spec == Init /\ [][Next]_vars

-----------------------------------------------------------------------------
(***************************************************************************)
(* Properties                                                              *)
(***************************************************************************)

\* Every variable holds values of its Rust type.
TypeOK ==
    /\ current_term \in [Node -> Nat]
    /\ voted_for \in [Node -> Node \cup {None}]
    /\ current_state \in [Node -> TaskState]
    /\ leader_id \in [Node -> Node \cup {None}]
    /\ log \in [Node -> Log]
    /\ role \in [Node -> Role]
    /\ ack_peers \in [Node -> SUBSET Node]
    /\ granted_votes \in [Node -> Nat]
    /\ vote_result \in [Node -> {None, "NoPeers", "Granted"}]
    /\ collecting \in [Node -> BOOLEAN]
    /\ votes_due \in [Node -> SUBSET Node]
    /\ heartbeat_due \in [Node -> BOOLEAN]
    /\ vote_rpcs \subseteq RequestVoteRequest
    /\ vote_resps \subseteq RequestVoteResponse
    /\ append_rpcs \subseteq Heartbeat
    /\ stale_resps \subseteq StaleTermResponse
    /\ granters \in [Node -> SUBSET Node]

\* In a cluster that needs every node's vote there is never more than one
\* leader, in whatever terms: what the election test asserts of three nodes.
OneLeader ==
    \A i, j \in Node : current_state[i] = "Leader" /\ current_state[j] = "Leader" => i = j

leaders == {i \in Node : current_state[i] = "Leader"}

Abstract == INSTANCE Leadership WITH Member <- Node, leaders <- leaders

\* Such a cluster hands leadership on one holder at a time: between two leaders
\* there is a state without any, whatever is lost, late or retried.
ImplementsLeadership == Abstract!LeadershipSpec

\* A leader got its session's votes from distinct peers, enough of them: no
\* retry counts a peer twice, and no result of an earlier session makes a
\* leader.
LeaderHasQuorum ==
    \A i \in Node :
        current_state[i] = "Leader" =>
            \/ peers(i) = {}
            \/ EnoughVotes(i, Cardinality(granters[i]) + 1)

\* A leader's own vote is still its own, although its background tasks change
\* its term and its state without the main task's knowledge.
LeaderVotedForItself ==
    \A i \in Node : current_state[i] = "Leader" => voted_for[i] = i

-----------------------------------------------------------------------------
(***************************************************************************)
(* Claims of the repository that the code does not keep.                   *)
(***************************************************************************)

\* tests/test_election.rs: "There should be only one leader", here weakened to
\* one leader per term.
ElectionSafety ==
    \A i, j \in Node :
        /\ current_state[i] = "Leader"
        /\ current_state[j] = "Leader"
        /\ current_term[i] = current_term[j]
        => i = j

\* node.rs: current_term is "the latest term the node has seen".
TermNeverDecreases == [][\A i \in Node : current_term'[i] >= current_term[i]]_vars

\* tests/test_lifecycle.rs: a node that was shut down "is in shutdown state".
ShutdownIsFinal ==
    [][\A i \in Node : current_state[i] = "Shutdown" => current_state'[i] = "Shutdown"]_vars

-----------------------------------------------------------------------------
(***************************************************************************)
(* The inductive invariant behind the theorems of ElectionProofs.          *)
(***************************************************************************)

\* How far the role function and current_state can be apart, and whose vote a
\* candidate and a leader hold.
RoleInv ==
    \A i \in Node :
        /\ role[i] = "Follower" => current_state[i] = "Follower"
        /\ role[i] = "Candidate" => current_state[i] \in {"Candidate", "Follower"}
        /\ role[i] = "Leader" => current_state[i] \in {"Leader", "Follower"}
        /\ role[i] = "Candidate" \/ current_state[i] = "Leader" => voted_for[i] = i

\* The session's books: every counted vote is the vote of one acknowledged peer.
SessionInv ==
    \A i \in Node :
        /\ granters[i] \subseteq ack_peers[i]
        /\ ack_peers[i] \subseteq peers(i)
        /\ votes_due[i] \subseteq peers(i)
        /\ collecting[i] => votes_due[i] \cap ack_peers[i] = {}
        /\ collecting[i] \/ role[i] = "Candidate"
              => granted_votes[i] = Cardinality(granters[i]) + 1

\* Between the spawning of a request and the counting of its answer a peer has
\* at most one message, and only for a collector that still counts.
AnswerInv ==
    /\ \A m \in vote_resps :
          /\ collecting[m.to]
          /\ m.from \in peers(m.to)
          /\ m.from \notin ack_peers[m.to]
          /\ m.from \notin votes_due[m.to]
    /\ \A m \in vote_rpcs : m.live =>
          /\ collecting[m.from]
          /\ m.to \in peers(m.from)
          /\ m.to \notin ack_peers[m.from]
          /\ m.to \notin votes_due[m.from]
    /\ \A m, n \in vote_resps : m.to = n.to /\ m.from = n.from => m = n
    /\ \A m, n \in vote_rpcs :
          m.live /\ n.live /\ m.to = n.to /\ m.from = n.from => m = n
    /\ \A m \in vote_rpcs, n \in vote_resps :
          m.live => ~ (m.from = n.to /\ m.to = n.from)

ResultInv ==
    \A i \in Node :
        /\ vote_result[i] = "NoPeers" => peers(i) = {}
        /\ role[i] = "Candidate" /\ vote_result[i] = "Granted"
              => EnoughVotes(i, granted_votes[i])

QuorumInv ==
    /\ TypeOK
    /\ RoleInv
    /\ SessionInv
    /\ AnswerInv
    /\ ResultInv
    /\ LeaderHasQuorum

\* No node wins without the vote of every other node.
Unanimous == \A i \in Node : ~ EnoughVotes(i, Cardinality(peers(i)))

\* A candidate has no heartbeat tasks left from when it was a leader.
HeartbeatInv ==
    \A i \in Node : role[i] = "Candidate" \/ current_state[i] = "Candidate" =>
        /\ ~ heartbeat_due[i]
        /\ \A m \in append_rpcs : m.from = i => ~ m.live
        /\ \A m \in stale_resps : m.to # i

\* A candidate whose collector stepped down has no result and gets none.
StepDownInv ==
    \A i \in Node : role[i] = "Candidate" /\ current_state[i] = "Follower" =>
        /\ ~ collecting[i]
        /\ vote_result[i] = None

Campaigns(i) == current_state[i] \in {"Candidate", "Leader"}

\* j's vote for i is counted or on its way.
HasVoteOf(i, j) ==
    \/ j \in granters[i]
    \/ \E m \in vote_resps : m.to = i /\ m.from = j /\ m.reason = "Ok"

\* Of two nodes that campaign or lead, at most one has the other's vote: whoever
\* grants a vote becomes a follower and can campaign again only in a new session.
RivalInv ==
    \A i, j \in Node :
        /\ i # j
        /\ Campaigns(i)
        /\ Campaigns(j)
        /\ HasVoteOf(i, j)
        => ~ HasVoteOf(j, i)

UnanimityInv ==
    /\ QuorumInv
    /\ HeartbeatInv
    /\ StepDownInv
    /\ RivalInv

=============================================================================
