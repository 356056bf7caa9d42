------------------------------ MODULE Handlers ------------------------------
(***************************************************************************)
(* One node on a multi-threaded runtime, with one step per access to a     *)
(* shared cell.  Its main task answers RPCs (src/zeroraft/src/role/        *)
(* common.rs), campaigns and leads; the collectors it has spawned step     *)
(* down on their own, in parallel, and may be cancelled by their timeout   *)
(* wherever they await a lock.  The process may die before any access and  *)
(* be built again from its State.  In Election, which Recovery extends,    *)
(* each of these is one step.                                              *)
(*                                                                         *)
(* The other nodes are an environment that may send any term and answer    *)
(* anything.  Logs are left out: the completeness check goes either way.   *)
(* So are leader_id and last_heard_from_leader, which nothing here reads.  *)
(* A handler whose answer cannot be sent ends the main task for good, so   *)
(* that it adds no step to those before it.                                *)
(***************************************************************************)
EXTENDS Naturals

CONSTANTS
    Self,       \* the node
    Peer,       \* its peers
    None,       \* Option::None
    Task,       \* collectors that may exist at once
    RpcTerms,   \* terms that peers send
    MaxTerm     \* bound on terms

ASSUME HandlersAssumption ==
    /\ Self \notin Peer
    /\ None \notin Peer \cup {Self}
    /\ RpcTerms \subseteq 0 .. MaxTerm - 1
    /\ MaxTerm \in Nat

VARIABLES
    current_term,   \* RaftNodeInner.current_term
    voted_for,      \* RaftNodeInner.voted_for
    current_state,  \* RaftNodeInner.current_state
    stored_term,    \* State::load_current_term
    stored_vote,    \* State::load_voted_for
    role,           \* the role function the main task runs
    pc,             \* the access the main task is about to make
    request,        \* the RPC it is answering, or None
    vote_result,    \* Granted waits in the channel of the current session
    tasks,          \* the collectors
    votes           \* auxiliary: the votes given since the term last went down

cells == << current_term, voted_for, current_state, stored_term, stored_vote >>
vars == << cells, role, pc, request, vote_result, tasks, votes >>

-----------------------------------------------------------------------------

Rpc == [kind : {"RequestVote", "AppendEntries"}, term : RpcTerms, from : Peer]

\* A collector waits for answers or is about to write the term of one of them to
\* the State, to write it to memory, or to step down.  kind: what it collects,
\* "Old" for the votes of a session that is over.
NoTask == [pc |-> "None", kind |-> "Old", term |-> 0]

Collector ==
    [pc : {"None", "Waiting", "StoreTerm", "SetTerm", "StepDown"},
     kind : {"Vote", "Heartbeat", "Old"}, term : Nat]

Vote == [term : Nat, candidate : Peer \cup {Self}]

Init ==
    /\ current_term = 0
    /\ voted_for = None
    /\ current_state = "Follower"
    /\ stored_term = 0
    /\ stored_vote = None
    /\ role = "Follower"
    /\ pc = "Dispatch"
    /\ request = None
    /\ vote_result = FALSE
    /\ tasks = [c \in Task |-> NoTask]
    /\ votes = {}

-----------------------------------------------------------------------------
(***************************************************************************)
(* The main task: dispatch, the top of the loop, campaigns                 *)
(***************************************************************************)

At(here, next) == pc = here /\ pc' = next

\* A collector is spawned; the sender of an older session's leads nowhere.
Spawn(kind, ts) ==
    \E c \in Task :
        /\ ts[c].pc = "None"
        /\ tasks' = [ts EXCEPT ![c] = [pc |-> "Waiting", kind |-> kind, term |-> 0]]

\* RaftNode::start reads the state.  A candidate begins with a vote session, a
\* leader with a round of heartbeats.
Dispatch ==
    /\ At("Dispatch", IF current_state = "Candidate" THEN "Increment" ELSE "Loop")
    /\ role' = current_state
    /\ IF current_state = "Leader" THEN Spawn("Heartbeat", tasks) ELSE UNCHANGED tasks
    /\ UNCHANGED << cells, request, vote_result, votes >>

\* The top of the loop.
CheckState ==
    /\ At("Loop", IF current_state = role THEN "Select" ELSE "Dispatch")
    /\ UNCHANGED << cells, role, request, vote_result, tasks, votes >>

\* The votes that still count when the term becomes t.
VotesUpTo(t) == IF t < current_term THEN {} ELSE votes

\* VoteSession::initialize: increment_term, then vote_for_self.
Increment ==
    /\ At("Increment", "VoteSelf")
    /\ current_term' = current_term + 1
    /\ votes' = votes \cup {[term |-> current_term + 1, candidate |-> Self]}
    /\ UNCHANGED << voted_for, current_state, stored_term, stored_vote,
                    role, request, vote_result, tasks >>

VoteSelf ==
    /\ At("VoteSelf", "Loop")
    /\ voted_for' = Self
    /\ vote_result' = FALSE
    /\ Spawn("Vote", [c \in Task |-> IF tasks[c].kind = "Vote"
                                     THEN [tasks[c] EXCEPT !.kind = "Old"] ELSE tasks[c]])
    /\ UNCHANGED << current_term, current_state, stored_term, stored_vote,
                    role, request, votes >>

\* The election timer of a follower.
FollowerTimeout ==
    /\ At("Select", "Loop") /\ role = "Follower"
    /\ current_term < MaxTerm
    /\ current_state' = "Candidate"
    /\ UNCHANGED << current_term, voted_for, stored_term, stored_vote,
                    role, request, vote_result, tasks, votes >>

\* The election timer of a candidate.
CandidateTimeout ==
    /\ At("Select", "Increment") /\ role = "Candidate"
    /\ current_term < MaxTerm
    /\ UNCHANGED << cells, role, request, vote_result, tasks, votes >>

\* The retry timer of a candidate, the heartbeat timer of a leader.
SpawnTimeout ==
    /\ At("Select", "Loop")
    /\ \/ role = "Candidate" /\ Spawn("Vote", tasks)
       \/ role = "Leader" /\ Spawn("Heartbeat", tasks)
    /\ UNCHANGED << cells, role, request, vote_result, votes >>

\* The vote_result_rx branch.
WinElection ==
    /\ At("Select", "Loop") /\ role = "Candidate" /\ vote_result
    /\ current_state' = "Leader"
    /\ vote_result' = FALSE
    /\ UNCHANGED << current_term, voted_for, stored_term, stored_vote,
                    role, request, tasks, votes >>

-----------------------------------------------------------------------------
(***************************************************************************)
(* The main task: respond_to_request_vote and respond_to_append_entries    *)
(***************************************************************************)

\* Mutant: a vote given in the candidate's term is not asked for.
Receive_VotesAgain ==
    /\ \E r \in Rpc :
          \/ /\ current_term > r.term
             /\ At("Select", "Loop") /\ UNCHANGED request
          \/ /\ current_term <= r.term
             /\ At("Select", "StoreTerm") /\ request' = r
    /\ UNCHANGED << cells, role, vote_result, tasks, votes >>

\* our_term is read once.  What was decided on it holds for the whole handler,
\* whatever the collectors write to current_term in the meantime.
Receive ==
    /\ \E r \in Rpc :
          \/ /\ current_term > r.term
             /\ At("Select", "Loop") /\ UNCHANGED request
          \/ /\ current_term = r.term /\ r.kind = "RequestVote"
             /\ At("Select", "CheckVote") /\ request' = r
          \/ /\ current_term < r.term \/ (current_term = r.term /\ r.kind = "AppendEntries")
             /\ At("Select", "StoreTerm") /\ request' = r
    /\ UNCHANGED << cells, role, vote_result, tasks, votes >>

\* get_voted_for().await.is_some(): AlreadyVoted.
CheckVote ==
    /\ \/ voted_for # None /\ At("CheckVote", "Loop") /\ request' = None
       \/ voted_for = None /\ At("CheckVote", "StoreTerm") /\ UNCHANGED request
    /\ UNCHANGED << cells, role, vote_result, tasks, votes >>

\* Mutant: the vote is not persisted.
StoreTerm_NoVote ==
    /\ At("StoreTerm", "SetTerm")
    /\ stored_term' = request.term
    /\ UNCHANGED << current_term, voted_for, current_state, stored_vote,
                    role, request, vote_result, tasks, votes >>

\* update_current_term, update_current_term_and_voted_for.
StoreTerm ==
    /\ At("StoreTerm", IF request.kind = "RequestVote" THEN "StoreVote" ELSE "SetTerm")
    /\ stored_term' = request.term
    /\ UNCHANGED << current_term, voted_for, current_state, stored_vote,
                    role, request, vote_result, tasks, votes >>

StoreVote ==
    /\ At("StoreVote", "SetTerm")
    /\ stored_vote' = request.from
    /\ UNCHANGED << current_term, voted_for, current_state, stored_term,
                    role, request, vote_result, tasks, votes >>

SetTerm ==
    /\ At("SetTerm", IF request.kind = "RequestVote" THEN "SetVote" ELSE "Follow")
    /\ current_term' = request.term
    /\ votes' = VotesUpTo(request.term) \cup
          (IF request.kind = "RequestVote"
           THEN {[term |-> request.term, candidate |-> request.from]} ELSE {})
    /\ UNCHANGED << voted_for, current_state, stored_term, stored_vote,
                    role, request, vote_result, tasks >>

SetVote ==
    /\ At("SetVote", "Follow")
    /\ voted_for' = request.from
    /\ UNCHANGED << current_term, current_state, stored_term, stored_vote,
                    role, request, vote_result, tasks, votes >>

\* Mutant: a granted vote does not end the role.
Follow_Stays ==
    /\ At("Follow", "Loop")
    /\ request' = None
    /\ UNCHANGED << cells, role, vote_result, tasks, votes >>

\* change_to_follower_state.  The checks of the log and the answer that follow
\* change none of the cells.
Follow ==
    /\ At("Follow", "Loop")
    /\ current_state' = "Follower"
    /\ request' = None
    /\ UNCHANGED << current_term, voted_for, stored_term, stored_vote,
                    role, vote_result, tasks, votes >>

-----------------------------------------------------------------------------
(***************************************************************************)
(* Collectors                                                              *)
(***************************************************************************)

TaskAt(c, here, next) ==
    /\ tasks[c].pc = here
    /\ tasks' = [tasks EXCEPT ![c].pc = next]

TaskEnds(c, here) ==
    /\ tasks[c].pc = here
    /\ tasks' = [tasks EXCEPT ![c] = NoTask]

\* Enough votes.  The answers that decide nothing are not seen here.
Grant(c) ==
    /\ TaskEnds(c, "Waiting")
    /\ tasks[c].kind # "Heartbeat"
    /\ vote_result' = (vote_result \/ tasks[c].kind = "Vote")
    /\ UNCHANGED << cells, role, pc, request, votes >>

\* A StaleTerm or an IncompleteLog answer.
ReceiveStaleTerm(c) ==
    /\ tasks[c].pc = "Waiting"
    /\ \E t \in RpcTerms :
          tasks' = [tasks EXCEPT ![c].pc = "StoreTerm", ![c].term = t]
    /\ UNCHANGED << cells, role, pc, request, vote_result, votes >>

CollectorStoresTerm(c) ==
    /\ TaskAt(c, "StoreTerm", "SetTerm")
    /\ stored_term' = tasks[c].term
    /\ UNCHANGED << current_term, voted_for, current_state, stored_vote,
                    role, pc, request, vote_result, votes >>

CollectorSetsTerm(c) ==
    /\ TaskAt(c, "SetTerm", "StepDown")
    /\ current_term' = tasks[c].term
    /\ votes' = VotesUpTo(tasks[c].term)
    /\ UNCHANGED << voted_for, current_state, stored_term, stored_vote,
                    role, pc, request, vote_result >>

CollectorStepsDown(c) ==
    /\ TaskEnds(c, "StepDown")
    /\ current_state' = "Follower"
    /\ UNCHANGED << current_term, voted_for, stored_term, stored_vote,
                    role, pc, request, vote_result, votes >>

\* The timeout.  A task that is not awaiting anything cannot be cancelled: the
\* term goes to memory in the same poll in which the State has it.
Cancel(c) ==
    /\ \E here \in {"Waiting", "StoreTerm", "StepDown"} : TaskEnds(c, here)
    /\ UNCHANGED << cells, role, pc, request, vote_result, votes >>

-----------------------------------------------------------------------------

\* The process dies, before whatever access, and RaftNodeBuilder::build loads the
\* term and the vote.  The vote for itself is only in memory and does not count
\* any more.
Restart ==
    /\ current_term' = stored_term
    /\ voted_for' = stored_vote
    /\ current_state' = "Follower"
    /\ role' = "Follower"
    /\ pc' = "Dispatch"
    /\ request' = None
    /\ vote_result' = FALSE
    /\ tasks' = [c \in Task |-> NoTask]
    /\ votes' = {v \in VotesUpTo(stored_term) : v.candidate # Self}
    /\ UNCHANGED << stored_term, stored_vote >>

-----------------------------------------------------------------------------

Campaign ==
    \/ Increment \/ VoteSelf \/ FollowerTimeout \/ CandidateTimeout
    \/ SpawnTimeout \/ WinElection

Respond ==
    \/ Receive \/ CheckVote \/ StoreTerm \/ StoreVote \/ SetTerm \/ SetVote \/ Follow

Collect(c) ==
    \/ Grant(c) \/ ReceiveStaleTerm(c) \/ CollectorStoresTerm(c)
    \/ CollectorSetsTerm(c) \/ CollectorStepsDown(c) \/ Cancel(c)

Next ==
    \/ Dispatch \/ CheckState \/ Campaign \/ Respond \/ Restart
    \/ \E c \in Task : Collect(c)

Spec == Init /\ [][Next]_vars

-----------------------------------------------------------------------------
(***************************************************************************)
(* Properties                                                              *)
(***************************************************************************)

TypeOK ==
    /\ current_term \in Nat
    /\ voted_for \in Peer \cup {Self, None}
    /\ current_state \in {"Follower", "Candidate", "Leader"}
    /\ stored_term \in Nat
    /\ stored_vote \in Peer \cup {Self, None}
    /\ role \in {"Follower", "Candidate", "Leader"}
    /\ pc \in {"Dispatch", "Loop", "Select", "Increment", "VoteSelf", "CheckVote",
               "StoreTerm", "StoreVote", "SetTerm", "SetVote", "Follow"}
    /\ request \in Rpc \cup {None}
    /\ vote_result \in BOOLEAN
    /\ tasks \in [Task -> Collector]
    /\ votes \subseteq Vote

\* Whatever its collectors do in between, a candidate or a leader that waits for
\* the next event holds its own vote: the vote and the end of the role are several
\* steps apart in respond_to_request_vote, and the main task sees neither before
\* both are done.
OwnVoteAtSelect ==
    pc = "Select" /\ role \in {"Candidate", "Leader"} => voted_for = Self

\* Between two events only the node's vote for itself may be missing in the State:
\* unlike terms, votes have one writer.
VotesAreStored ==
    pc = "Select" => voted_for \in {stored_vote, Self}

\* As long as its term does not go down, a node votes for one candidate in a term,
\* although the term it decides on may be out of date when the vote is written: a
\* collector may raise it meanwhile, to the candidate's term among others.  A
\* restart between any two accesses forgets no vote but one for the node itself.
OneVotePerTerm == \A v, w \in votes : v.term = w.term => v = w

Disk == INSTANCE WriteAhead WITH Candidate <- Peer, disk <- stored_vote, memory <- voted_for

\* Access by access, whatever the collectors do to the term in between, a vote is
\* on the disk before it is in memory and no other is written before it is.
VotesWriteAhead == Disk!WriteAheadSpec

\* The handlers' steps, from the first that has a request to the last.
Answering == {"CheckVote", "StoreTerm", "StoreVote", "SetTerm", "SetVote", "Follow"}

\* The inductive invariant behind OwnVoteAtSelect: when the main task has last read
\* the state, what the collectors may have done to it since, and whose vote it is.
RoleInv ==
    /\ pc \in {"Loop", "Dispatch"} /\ current_state = "Leader" => voted_for = Self
    /\ pc = "Loop" /\ role = "Candidate" /\ current_state = "Candidate" => voted_for = Self
    /\ pc \in ({"Select"} \cup Answering) \ {"Follow"} =>
          IF role = "Follower" THEN current_state = "Follower" ELSE voted_for = Self

\* The one behind VotesAreStored: the vote is in the State before it is in memory.
StoredVoteInv ==
    /\ pc \in Answering => request \in Rpc
    /\ pc \in {"StoreVote", "SetVote"} => request.kind = "RequestVote"
    /\ IF pc \in {"SetTerm", "SetVote"} /\ request.kind = "RequestVote"
       THEN stored_vote = request.from
       ELSE voted_for \in {stored_vote, Self}

\* The one behind OneVotePerTerm: the votes are of terms up to the current one, and
\* of terms before that of the vote that is being given.
VotesInv ==
    /\ \A v \in votes : v.term <= current_term
    /\ voted_for = None /\ pc \notin {"VoteSelf", "SetVote"} => votes = {}
    /\ stored_vote = None => \A v \in votes : v.candidate = Self
    /\ pc \in {"StoreTerm", "StoreVote", "SetTerm"} /\ request.kind = "RequestVote"
          => \A v \in votes : v.term < request.term
    /\ OneVotePerTerm

=============================================================================
