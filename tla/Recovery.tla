------------------------------ MODULE Recovery ------------------------------
(***************************************************************************)
(* Election with the copies of the term and the vote that the State keeps, *)
(* and with processes that die and are built again from their State        *)
(* (RaftNodeBuilder::build).                                               *)
(*                                                                         *)
(* The State is assumed to outlive the process and to have stored what it  *)
(* was given; what the code gives it, and when, is what is modelled.       *)
(***************************************************************************)
EXTENDS Election

CONSTANTS
    \* MemoryState::append_entries overwrites the stored term with the last
    \* entry's (TRUE); the State trait does not ask for that (FALSE).
    AppendStoresTerm,
    MaxRestarts     \* bound on the number of restarts

ASSUME RecoveryAssumption ==
    /\ AppendStoresTerm \in BOOLEAN
    /\ MaxRestarts \in Nat

VARIABLES
    stored_term,   \* State::load_current_term
    stored_vote,   \* State::load_voted_for
    restarts       \* number of restarts so far

store_vars == << stored_term, stored_vote >>
recovery_vars == << vars, store_vars, restarts >>

RecoveryInit ==
    /\ Init
    /\ stored_term = current_term
    /\ stored_vote = voted_for
    /\ restarts = 0

-----------------------------------------------------------------------------
(***************************************************************************)
(* What each step writes to the State                                      *)
(***************************************************************************)

store_current_term(i, term) == stored_term' = [stored_term EXCEPT ![i] = term]

\* Mutant: only the term is written.
StoreAdoption_TermOnly(i) ==
    IF << current_term'[i], voted_for'[i] >> = << current_term[i], voted_for[i] >>
    THEN UNCHANGED store_vars
    ELSE store_current_term(i, current_term'[i]) /\ UNCHANGED stored_vote

\* update_current_term_and_voted_for writes the term and the vote it adopts.
\* An adopted term is higher or the vote was empty, so an adoption shows.
StoreAdoption(i) ==
    IF << current_term'[i], voted_for'[i] >> = << current_term[i], voted_for[i] >>
    THEN UNCHANGED store_vars
    ELSE /\ store_current_term(i, current_term'[i])
         /\ stored_vote' = [stored_vote EXCEPT ![i] = voted_for'[i]]

\* The State's term after appending: MemoryState derives it from the log.
AppendedTerm(l, term) == IF AppendStoresTerm THEN get_last_term(l) ELSE term

\* respond_to_append_entries stores the heartbeat's term, and appends no entry
\* to a log that it has emptied.
StoreHeartbeat(i) ==
    \E m \in append_rpcs \ append_rpcs' :
        LET reason == AppendEntriesReason(current_term[i], log[i], HeartbeatRequest(m))
        IN  /\ \/ reason = "StaleTerm" /\ UNCHANGED stored_term
               \/ reason = "LogMismatch" /\ store_current_term(i, m.term)
               \/ reason = "Ok" /\ store_current_term(i, AppendedTerm(log'[i], m.term))
            /\ UNCHANGED stored_vote

\* A leader's append.
StoreClientRequest(i) ==
    /\ IF log'[i] = log[i] THEN UNCHANGED stored_term
       ELSE store_current_term(i, AppendedTerm(log'[i], stored_term[i]))
    /\ UNCHANGED stored_vote

\* A vote collector that steps down stores the answer's term.
StoreStepDown(i) ==
    /\ IF \E m \in vote_resps : m.to = i /\ VoteStepDown(i, m)
       THEN store_current_term(i, current_term'[i])
       ELSE UNCHANGED stored_term
    /\ UNCHANGED stored_vote

-----------------------------------------------------------------------------

\* The process dies in the middle of update_current_term_and_voted_for: the State
\* has the candidate's term, and perhaps its id.
DieAdopting(i) ==
    /\ \E m \in vote_rpcs :
          /\ m.to = i
          /\ RequestVoteReason(current_term[i], voted_for[i], log[i], m) \in AdoptingReasons
          /\ store_current_term(i, m.term)
          /\ stored_vote' \in {stored_vote, [stored_vote EXCEPT ![i] = m.from]}
          /\ vote_rpcs' = Orphaned(i, vote_rpcs \ {m})
    /\ vote_resps' = {m \in vote_resps : m.to # i}
    /\ DropHeartbeatAnswers(i)
    /\ UNCHANGED log

\* The process dies in the middle of respond_to_append_entries: the State has the
\* heartbeat's term, and perhaps an emptied log.
DieFollowing(i) ==
    /\ \E m \in append_rpcs :
          LET reason == AppendEntriesReason(current_term[i], log[i], HeartbeatRequest(m))
          IN  /\ m.to = i
              /\ reason # "StaleTerm"
              /\ store_current_term(i, m.term)
              /\ \/ UNCHANGED log
                 \/ /\ reason = "Ok"
                    /\ log' = [log EXCEPT ![i] = AppendedLog(@, HeartbeatRequest(m))]
              /\ append_rpcs' = Orphaned(i, append_rpcs \ {m})
    /\ stale_resps' = {m \in stale_resps : m.to # i}
    /\ DropVoteAnswers(i)
    /\ UNCHANGED stored_vote

\* RaftNodeBuilder::build: everything the node lived on in memory is gone.
Rebuild(i) ==
    /\ update_current_term_and_voted_for(i, stored_term'[i], stored_vote'[i])
    /\ change_to_state(i, "Follower")
    /\ leader_id' = [leader_id EXCEPT ![i] = None]
    /\ role' = [role EXCEPT ![i] = "Dispatch"]
    /\ DropSession(i)
    /\ collecting' = [collecting EXCEPT ![i] = FALSE]
    /\ votes_due' = [votes_due EXCEPT ![i] = {}]
    /\ heartbeat_due' = [heartbeat_due EXCEPT ![i] = FALSE]

\* A process dies, between two events or while it handles one, and the node is
\* built again.  Its requests are still delivered, and nobody waits for their
\* answers.
Restart(i) ==
    /\ restarts < MaxRestarts
    /\ restarts' = restarts + 1
    /\ \/ ExpireTasks(i) /\ UNCHANGED << log, store_vars >>
       \/ role[i] \in Running /\ DieAdopting(i)
       \/ role[i] \in Running /\ DieFollowing(i)
    /\ Rebuild(i)

\* Steps that touch memory only: a candidate's new term and its vote for itself
\* among them.
MemoryStep(i) ==
    \/ EnterFollower(i) \/ EnterCandidate(i) \/ EnterLeader(i) \/ Stop(i)
    \/ LeaveRole(i) \/ ReceiveShutdown(i)
    \/ FollowerTimeout(i) \/ CandidateTimeout(i) \/ RetryTimeout(i) \/ WinElection(i)
    \/ HeartbeatTimeout(i) \/ SendVoteRequest(i) \/ SendHeartbeats(i)

StoreStep(i) ==
    \/ HandleRequestVote(i) /\ StoreAdoption(i)
    \/ HandleHeartbeat(i) /\ StoreHeartbeat(i)
    \/ ClientRequest(i) /\ StoreClientRequest(i)
    \/ CollectVote(i) /\ StoreStepDown(i)
    \/ CollectHeartbeat(i) /\ store_current_term(i, current_term'[i]) /\ UNCHANGED stored_vote

RecoveryNext ==
    \/ \E i \in Node : MemoryStep(i) /\ UNCHANGED << store_vars, restarts >>
    \/ \E i \in Node : StoreStep(i) /\ UNCHANGED restarts
    \/ \E i \in Node : Restart(i)
    \/ (LoseVoteRequest \/ LoseHeartbeat) /\ UNCHANGED << store_vars, restarts >>

RecoverySpec == RecoveryInit /\ [][RecoveryNext]_recovery_vars

-----------------------------------------------------------------------------
(***************************************************************************)
(* Properties.  LeaderHasQuorum and ImplementsLeadership of Election are   *)
(* asked again of a cluster that restarts.                                 *)
(***************************************************************************)

RecoveryTypeOK ==
    /\ TypeOK
    /\ stored_term \in [Node -> Nat]
    /\ stored_vote \in [Node -> Node \cup {None}]
    /\ restarts \in 0 .. MaxRestarts

\* A vote for another node is on disk before anybody can see it, and stays
\* there: only the votes for itself that a candidate keeps in memory are
\* forgotten by a restart.
OnlyOwnVotesAreLost ==
    \A i \in Node : voted_for[i] # i => stored_vote[i] = voted_for[i]

=============================================================================
