---------------------------- MODULE Replication ----------------------------
(***************************************************************************)
(* The replication session of one leader                                   *)
(* (src/zeroraft/src/role/role_leader.rs), from the entry of               *)
(* LeaderRole::start to the end of the tasks it spawned, with the log side *)
(* of the peers that answer it.                                            *)
(*                                                                         *)
(* Four kinds of task share the session's map `peers` behind a RwLock: the *)
(* main loop, the task that sends a round of heartbeats and collects the   *)
(* answers, the standby task, and one update task per stale peer.  No task *)
(* but the standby task awaits anything that waits for `peers` while it    *)
(* holds the lock, so the critical sections of the others are single steps *)
(* and only the standby task can be seen as its writer.                    *)
(*                                                                         *)
(* A node that accepts a request removes entries, appends entries and      *)
(* writes its commit index in three calls, each with a lock of its own.    *)
(* Until the last of them its main task takes nothing else.                *)
(*                                                                         *)
(* The rest of the cluster is one rival, which may ask any node for its    *)
(* vote or lead it.  Time is abstracted as in Election.                    *)
(***************************************************************************)
EXTENDS Responders, Integers, FiniteSets

CONSTANTS
    Leader,          \* the node whose session this is
    Peer,            \* the other members of its membership map
    SessionTerm,     \* the term in which it was elected
    MaxTerm,         \* bound on terms (u64::MAX in the code)
    StoredLogs,      \* logs the nodes may hold when the session begins
    StoredCommits,   \* commit indexes they may hold then
    MaxLog,          \* bound on the length of the leader's log
    MaxRpcs,         \* bound on requests in flight at once
    MaxAnswers,      \* bound on answers queued for the standby task
    U64Max,          \* u64::MAX
    OverflowChecks   \* the build profile: arithmetic overflow panics or wraps

Node == Peer \cup {Leader}

ASSUME ClusterAssumption ==
    /\ Leader \notin Peer
    /\ IsFiniteSet(Peer)

ASSUME BoundAssumption ==
    /\ SessionTerm \in Nat
    /\ MaxTerm \in Nat
    /\ MaxLog \in Nat
    /\ MaxRpcs \in Nat
    /\ MaxAnswers \in Nat
    /\ U64Max \in Nat
    /\ U64Max > MaxLog + 1
    /\ OverflowChecks \in BOOLEAN
    /\ StoredLogs \subseteq {l \in Log : Len(l) <= MaxLog}
    /\ StoredCommits \subseteq 0 .. MaxLog

\* An absent match_index and a free lock are neither an index nor a task.
ASSUME NoneAssumption == None \notin Int \cup {"standby"}

VARIABLES
    current_term,   \* of every node
    log,            \* of every node: the entries of its State
    commit_index,   \* of every node: its State's commit index
    current_state,  \* the leader's shared cell
    role,           \* whether the leader's main task is still in LeaderRole
    next_index,     \* ReplicationSessionInner.peers, first component
    match_index,    \* ReplicationSessionInner.peers, second component
    peers_writer,   \* task that holds the write lock on peers across an await
    heartbeat,      \* the current send_heartbeats task
    standby,        \* the start_standby_update task
    update,         \* the update task of each peer
    append_rpcs,    \* AppendEntries requests in flight, or being stored
    append_resps,   \* their answers, in flight to a task that waits for them
    update_resps    \* the channel from the update tasks to the standby task

node_vars == << current_term, log, commit_index, current_state, role >>
session_vars == << next_index, match_index, peers_writer >>
task_vars == << heartbeat, standby, update >>
net_vars == << append_rpcs, append_resps, update_resps >>
vars == << node_vars, session_vars, task_vars, net_vars >>

-----------------------------------------------------------------------------

Index == 0 .. U64Max

\* stage: whether the receiver has accepted the request, and how far it is.
AppendEntriesRequest ==
    [task : {"heartbeat", "update"}, to : Node, term : Nat, last_commit_index : Nat,
     prev_log_index : Nat, prev_log_term : Nat, entries : Log, live : BOOLEAN,
     stage : {"Sent", "Removed", "Appended"}]

AppendEntriesResponse ==
    [task : {"heartbeat", "update"}, from : Peer, term : Nat, len : Nat,
     reason : {"StaleTerm", "LogMismatch", "Ok"}]

-----------------------------------------------------------------------------
(***************************************************************************)
(* u64 arithmetic                                                          *)
(***************************************************************************)

Panics(x) == OverflowChecks /\ x \notin Index

Wrapped(x) == x % (U64Max + 1)

\* `next_index -= 1`.  A wrapped index is out of reach of any log for the next
\* 2^63 answers; it is kept at the maximum.
Decremented(x) == IF x = U64Max THEN x ELSE Wrapped(x - 1)

min(a, b) == IF a <= b THEN a ELSE b

-----------------------------------------------------------------------------
(***************************************************************************)
(* Init: ReplicationSession::initialize, and the two tasks the leader      *)
(* spawns before its loop.                                                 *)
(***************************************************************************)

initialize(commit) ==
    /\ next_index = [p \in Peer |-> commit + 1]
    /\ match_index = [p \in Peer |-> None]

Init ==
    /\ current_term = [n \in Node |-> SessionTerm]
    /\ log \in [Node -> StoredLogs]
    /\ commit_index \in [Node -> StoredCommits]
    /\ \A n \in Node : commit_index[n] <= Len(log[n])
    /\ \A n \in Node : \A k \in 1 .. Len(log[n]) : log[n][k] <= SessionTerm
    /\ current_state = "Leader"
    /\ role = "Leader"
    /\ initialize(commit_index[Leader])
    /\ peers_writer = None
    /\ heartbeat = "Due"
    /\ standby = "Starting"
    /\ update = [p \in Peer |-> "None"]
    /\ append_rpcs = {}
    /\ append_resps = {}
    /\ update_resps = << >>

-----------------------------------------------------------------------------
(***************************************************************************)
(* The shared state                                                        *)
(***************************************************************************)

update_current_term(n, term) == current_term' = [current_term EXCEPT ![n] = term]

\* peers.read() or peers.write() is granted to a task other than the writer;
\* the lock is not reentrant, so not to the writer either.
LockFree == peers_writer = None

\* The main task of n is not in the middle of a request.
Idle(n) == \A m \in append_rpcs : m.to = n => m.stage = "Sent"

InFlight(rpcs) == {m \in rpcs : m.stage = "Sent"}

\* The leader learns of a later term: update_current_term and
\* change_to_follower_state.
StepDown(term) ==
    /\ update_current_term(Leader, term)
    /\ current_state' = "Follower"

-----------------------------------------------------------------------------
(***************************************************************************)
(* Heartbeats                                                              *)
(***************************************************************************)

Orphan(m) == [m EXCEPT !.live = FALSE]

\* The heartbeat task ends: nobody waits for its answers any more.
DropHeartbeatAnswers ==
    /\ append_rpcs' = {m \in append_rpcs : m.task # "heartbeat"}
          \cup {Orphan(m) : m \in {r \in append_rpcs : r.task = "heartbeat"}}
    /\ append_resps' = {m \in append_resps : m.task # "heartbeat"}

\* The heartbeat timer fires: the previous heartbeat task has timed out and a
\* new one is spawned.
HeartbeatTimeout ==
    /\ role = "Leader" /\ Idle(Leader)
    /\ heartbeat' = "Due"
    /\ DropHeartbeatAnswers
    /\ UNCHANGED << node_vars, session_vars, standby, update, update_resps >>

Heartbeat(p) ==
    [task |-> "heartbeat", to |-> p, term |-> current_term[Leader],
     last_commit_index |-> commit_index[Leader], prev_log_index |-> 0,
     prev_log_term |-> 0, entries |-> << >>, live |-> TRUE, stage |-> "Sent"]

\* Mutant: waits for the update tasks before it asks for the lock.
SendHeartbeats_AfterUpdates ==
    /\ heartbeat = "Due"
    /\ LockFree
    /\ \A p \in Peer : update[p] # "Calling"
    /\ heartbeat' = "Collecting"
    /\ append_rpcs' = append_rpcs \cup {Heartbeat(p) : p \in Peer}
    /\ Cardinality(InFlight(append_rpcs')) <= MaxRpcs
    /\ UNCHANGED << node_vars, session_vars, standby, update, append_resps, update_resps >>

\* send_heartbeat_to_peers
SendHeartbeats ==
    /\ heartbeat = "Due"
    /\ LockFree
    /\ heartbeat' = "Collecting"
    /\ append_rpcs' = append_rpcs \cup {Heartbeat(p) : p \in Peer}
    /\ Cardinality(InFlight(append_rpcs')) <= MaxRpcs
    /\ UNCHANGED << node_vars, session_vars, standby, update, append_resps, update_resps >>

\* Mutant: a signed index, which the build profile does not check.
CollectMismatch_Signed(m) ==
    /\ m.reason = "LogMismatch"
    /\ next_index' = [next_index EXCEPT ![m.from] = @ - 1]
    /\ append_resps' = append_resps \ {m}
    /\ UNCHANGED << current_term, current_state, heartbeat, append_rpcs >>

\* One turn of the heartbeat task's loop over the answers.
CollectMismatch(m) ==
    /\ m.reason = "LogMismatch"
    /\ IF Panics(next_index[m.from] - 1)
       THEN /\ heartbeat' = "Ended"
            /\ DropHeartbeatAnswers
            /\ UNCHANGED next_index
       ELSE /\ next_index' = [next_index EXCEPT ![m.from] = Decremented(@)]
            /\ append_resps' = append_resps \ {m}
            /\ UNCHANGED << heartbeat, append_rpcs >>
    /\ UNCHANGED << current_term, current_state >>

CollectStaleTerm(m) ==
    /\ m.reason = "StaleTerm"
    /\ StepDown(m.term)
    /\ heartbeat' = "Ended"
    /\ DropHeartbeatAnswers
    /\ UNCHANGED next_index

CollectOk(m) ==
    /\ m.reason = "Ok"
    /\ append_resps' = append_resps \ {m}
    /\ UNCHANGED << current_term, current_state, next_index, heartbeat, append_rpcs >>

CollectHeartbeat ==
    /\ LockFree
    /\ \E m \in append_resps :
          /\ m.task = "heartbeat"
          /\ CollectMismatch(m) \/ CollectStaleTerm(m) \/ CollectOk(m)
    /\ UNCHANGED << log, commit_index, role, match_index, peers_writer, standby,
                    update, update_resps >>

-----------------------------------------------------------------------------
(***************************************************************************)
(* Update tasks                                                            *)
(***************************************************************************)

get_stale_peers == {p \in Peer : next_index[p] <= commit_index[Leader]}

\* start_standby_update_for_peers.  Without stale peers every sender of the
\* channel is gone and the standby task ends.
StartUpdates ==
    /\ standby = "Starting"
    /\ LockFree
    /\ update' = [p \in Peer |-> IF p \in get_stale_peers THEN "Checking" ELSE "None"]
    /\ standby' = IF get_stale_peers = {} THEN "Ended" ELSE "Receiving"
    /\ UNCHANGED << node_vars, session_vars, heartbeat, net_vars >>

peer_matches(p) == match_index[p] = commit_index[Leader]

\* The top of an update task's loop.
CheckPeer(p) ==
    /\ update[p] = "Checking"
    /\ LockFree
    /\ update' = [update EXCEPT ![p] = IF peer_matches(p) THEN "Ended" ELSE "Composing"]
    /\ UNCHANGED << node_vars, session_vars, heartbeat, standby, net_vars >>

\* get_entries(start, None) counts from 0 whatever get_entry does.
get_entries(l, start) == SubSeq(l, start + 1, Len(l))

compose_append_entries_request(p) ==
    LET prev == next_index[p] - 1
    IN  [task |-> "update", to |-> p, term |-> current_term[Leader],
         last_commit_index |-> commit_index[Leader], prev_log_index |-> prev,
         prev_log_term |-> get_entry(log[Leader], prev),
         entries |-> get_entries(log[Leader], next_index[p]), live |-> TRUE,
         stage |-> "Sent"]

\* Composing fails where next_index is 0 (underflow, or no entry at u64::MAX)
\* and where the leader has no entry at next_index - 1: unwrap on None.
CannotCompose(p) == next_index[p] = 0 \/ ~ has_entry(log[Leader], next_index[p] - 1)

\* Mutant: the call is spawned and the task goes on.
SendUpdate_NoWait(p) ==
    /\ update[p] = "Composing"
    /\ LockFree
    /\ update' = [update EXCEPT ![p] = "Pausing"]
    /\ IF CannotCompose(p)
       THEN UNCHANGED append_rpcs
       ELSE append_rpcs' = append_rpcs \cup {compose_append_entries_request(p)}
    /\ Cardinality(InFlight(append_rpcs')) <= MaxRpcs
    /\ UNCHANGED << node_vars, session_vars, heartbeat, standby, append_resps, update_resps >>

SendUpdate(p) ==
    /\ update[p] = "Composing"
    /\ LockFree
    /\ IF CannotCompose(p)
       THEN /\ update' = [update EXCEPT ![p] = "Panicked"]
            /\ UNCHANGED append_rpcs
       ELSE /\ update' = [update EXCEPT ![p] = "Calling"]
            /\ append_rpcs' = append_rpcs \cup {compose_append_entries_request(p)}
            /\ Cardinality(InFlight(append_rpcs')) <= MaxRpcs
    /\ UNCHANGED << node_vars, session_vars, heartbeat, standby, append_resps, update_resps >>

\* send_append_entries_rpc has its answer and passes it on; if the standby
\* task has ended, the send fails and the update task returns the error.
PassAnswer(p) ==
    /\ update[p] = "Calling"
    /\ \E m \in append_resps :
          /\ m.task = "update" /\ m.from = p
          /\ append_resps' = append_resps \ {m}
          /\ \/ /\ standby = "Ended"
                /\ update' = [update EXCEPT ![p] = "Ended"]
                /\ UNCHANGED update_resps
             \/ /\ standby # "Ended"
                /\ update' = [update EXCEPT ![p] = "Pausing"]
                /\ Len(update_resps) < MaxAnswers
                /\ update_resps' = Append(update_resps, m)
    /\ UNCHANGED << node_vars, session_vars, heartbeat, standby, append_rpcs >>

\* A millisecond passes without the stop signal.
EndPause(p) ==
    /\ update[p] = "Pausing"
    /\ update' = [update EXCEPT ![p] = "Checking"]
    /\ UNCHANGED << node_vars, session_vars, heartbeat, standby, net_vars >>

-----------------------------------------------------------------------------
(***************************************************************************)
(* The standby task                                                        *)
(***************************************************************************)

\* The median of the match indexes that are known, rounded up.
MedianMatch(match) ==
    LET known == {p \in Peer : match[p] # None}
        below(p) == {q \in known : match[q] < match[p]}
        up_to(p) == {q \in known : match[q] <= match[p]}
    IN  match[CHOOSE p \in known :
                 /\ Cardinality(below(p)) <= Cardinality(known) \div 2
                 /\ Cardinality(up_to(p)) > Cardinality(known) \div 2]

\* calculate_last_commit_index returns Some(index).
CanCommit(match, l, term) ==
    /\ \E p \in Peer : match[p] # None
    /\ has_entry(l, MedianMatch(match))
    /\ get_entry(l, MedianMatch(match)) = term

EndStandby == standby' = "Ended" /\ update_resps' = << >>

StandbyMismatch(m) ==
    /\ m.reason = "LogMismatch"
    /\ IF Panics(next_index[m.from] - 1)
       THEN EndStandby /\ UNCHANGED next_index
       ELSE /\ next_index' = [next_index EXCEPT ![m.from] = Decremented(@)]
            /\ update_resps' = Tail(update_resps)
            /\ UNCHANGED standby
    /\ UNCHANGED << current_term, current_state, match_index, peers_writer >>

StandbyStaleTerm(m) ==
    /\ m.reason = "StaleTerm"
    /\ StepDown(m.term)
    /\ EndStandby
    /\ UNCHANGED << next_index, match_index, peers_writer >>

\* Mutant: match_index is taken for the index of the next entry.
StandbyOk_OffByOne(m) ==
    LET next == next_index[m.from] + m.len
    IN  /\ m.reason = "Ok"
        /\ match_index' = [match_index EXCEPT ![m.from] = Wrapped(next)]
        /\ next_index' = [next_index EXCEPT ![m.from] = Wrapped(@ + next)]
        /\ update_resps' = Tail(update_resps)
        /\ standby' = "Calculating"
        /\ peers_writer' = "standby"
        /\ UNCHANGED << current_term, current_state >>

\* The write guard on peers stays alive to the end of the turn.  next_index is
\* increased by the new index, not set to it.
StandbyOk(m) ==
    LET next == next_index[m.from] + m.len
    IN  /\ m.reason = "Ok"
        /\ IF Panics(next - 1)
           THEN EndStandby /\ UNCHANGED << next_index, match_index, peers_writer >>
           ELSE /\ match_index' = [match_index EXCEPT ![m.from] = Wrapped(next - 1)]
                /\ next_index' = [next_index EXCEPT ![m.from] = Wrapped(@ + next)]
                /\ update_resps' = Tail(update_resps)
                /\ standby' = "Calculating"
                /\ peers_writer' = "standby"
        /\ UNCHANGED << current_term, current_state >>

StandbyReceive ==
    /\ standby = "Receiving"
    /\ LockFree
    /\ update_resps # << >>
    /\ LET m == Head(update_resps)
       IN  StandbyMismatch(m) \/ StandbyStaleTerm(m) \/ StandbyOk(m)
    /\ UNCHANGED << log, commit_index, role, heartbeat, update, append_rpcs, append_resps >>

\* The rest of the turn: calculate_last_commit_index asks for the read lock.
StandbyCommit ==
    /\ standby = "Calculating"
    /\ IF LockFree
       THEN /\ standby' = "Receiving"
            /\ peers_writer' = None
            /\ commit_index' =
                  IF /\ CanCommit(match_index, log[Leader], current_term[Leader])
                     /\ commit_index[Leader] < MedianMatch(match_index)
                  THEN [commit_index EXCEPT ![Leader] = MedianMatch(match_index)]
                  ELSE commit_index
       ELSE /\ standby' = "Blocked"
            /\ UNCHANGED << peers_writer, commit_index >>
    /\ UNCHANGED << current_term, log, current_state, role, next_index, match_index,
                    heartbeat, update, net_vars >>

-----------------------------------------------------------------------------
(***************************************************************************)
(* The leader's main loop                                                  *)
(***************************************************************************)

\* The client's command is appended in the current term; the sender of the
\* client's answer is dropped.
ClientRequest ==
    /\ role = "Leader" /\ Idle(Leader)
    /\ Len(log[Leader]) < MaxLog
    /\ log' = [log EXCEPT ![Leader] = append_entries(@, << current_term[Leader] >>)]
    /\ UNCHANGED << current_term, commit_index, current_state, role, session_vars,
                    task_vars, net_vars >>

\* notify_waiters wakes the update tasks that pause at this moment, no others.
LeaveRole ==
    /\ role = "Leader" /\ current_state # "Leader" /\ Idle(Leader)
    /\ role' = "Left"
    /\ update' = [p \in Peer |-> IF update[p] = "Pausing" THEN "Ended" ELSE update[p]]
    /\ UNCHANGED << current_term, log, commit_index, current_state, session_vars,
                    heartbeat, standby, net_vars >>

-----------------------------------------------------------------------------
(***************************************************************************)
(* respond_to_append_entries                                               *)
(***************************************************************************)

\* The answer carries the term read on entry.  (Where the node has moved on since,
\* the reason is Ok, and nobody looks at the term of such an answer.)
AnswerTo(p, m, reason) ==
    IF m.live
    THEN {[task |-> m.task, from |-> p, term |-> current_term[p], reason |-> reason,
           len |-> IF reason = "Ok" THEN Len(m.entries) ELSE 0]}
    ELSE {}

\* Request m goes on to its next stage.
MoveTo(m, stage) == (append_rpcs \ {m}) \cup {[m EXCEPT !.stage = stage]}

Refuse(p, m, reason) ==
    /\ \/ reason = "StaleTerm" /\ UNCHANGED current_term
       \/ reason = "LogMismatch" /\ update_current_term(p, m.term)
    /\ append_rpcs' = append_rpcs \ {m}
    /\ append_resps' = append_resps \cup AnswerTo(p, m, reason)
    /\ UNCHANGED log

\* Up to remove_entries_after.
Accept(n, m, reason) ==
    /\ reason = "Ok"
    /\ update_current_term(n, m.term)
    /\ log' = [log EXCEPT ![n] = remove_entries_after(@, m.prev_log_index)]
    /\ append_rpcs' = MoveTo(m, "Removed")
    /\ UNCHANGED append_resps

\* A peer takes a request of the session, in whatever role it is.
HandleAppendEntries(p) ==
    /\ Idle(p)
    /\ \E m \in append_rpcs :
          LET reason == AppendEntriesReason(current_term[p], log[p], m)
          IN  m.to = p /\ (Refuse(p, m, reason) \/ Accept(p, m, reason))
    /\ UNCHANGED << commit_index, current_state, role, session_vars, task_vars, update_resps >>

\* append_entries
StoreEntries(n) ==
    /\ \E m \in append_rpcs :
          /\ m.to = n /\ m.stage = "Removed"
          /\ log' = [log EXCEPT ![n] = append_entries(@, m.entries)]
          /\ append_rpcs' = MoveTo(m, "Appended")
    /\ UNCHANGED << current_term, commit_index, current_state, role, session_vars,
                    task_vars, append_resps, update_resps >>

\* Mutant: the commit index of the leader, whatever the log holds.
StoreCommitIndex_LeaderCommit(n) ==
    /\ \E m \in append_rpcs :
          /\ m.to = n /\ m.stage = "Appended"
          /\ commit_index' = [commit_index EXCEPT ![n] = m.last_commit_index]
          /\ append_rpcs' = append_rpcs \ {m}
          /\ append_resps' = append_resps \cup AnswerTo(n, m, "Ok")
    /\ UNCHANGED << current_term, log, current_state, role, session_vars, task_vars,
                    update_resps >>

\* set_last_commit_index, with the last index read after the entries were stored,
\* and the answer.
StoreCommitIndex(n) ==
    /\ \E m \in append_rpcs :
          /\ m.to = n /\ m.stage = "Appended"
          /\ commit_index' = [commit_index EXCEPT
                                ![n] = min(m.last_commit_index, get_last_index(log[n]))]
          /\ append_rpcs' = append_rpcs \ {m}
          /\ append_resps' = append_resps \cup AnswerTo(n, m, "Ok")
    /\ UNCHANGED << current_term, log, current_state, role, session_vars, task_vars,
                    update_resps >>

\* The commit index it carries does not matter to a log that it empties.
RivalHeartbeat(n, term) ==
    [task |-> "heartbeat", to |-> n, term |-> term, last_commit_index |-> 0,
     prev_log_index |-> 0, prev_log_term |-> 0, entries |-> << >>, live |-> FALSE,
     stage |-> "Sent"]

\* A node answers another node's request for its vote, or its heartbeat.  Requests of
\* earlier terms it refuses, and nothing changes.  The rival is a leader without a
\* committed entry, which sends no updates.
HearRival(n) ==
    /\ Idle(n)
    /\ \E term \in SessionTerm .. MaxTerm :
          LET m == RivalHeartbeat(n, term)
              reason == AppendEntriesReason(current_term[n], log[n], m)
          IN  \/ /\ term > current_term[n] \/ reason = "LogMismatch"
                 /\ update_current_term(n, term)
                 /\ UNCHANGED << log, append_rpcs, append_resps >>
              \/ Accept(n, m, reason)
    /\ current_state' = IF n = Leader THEN "Follower" ELSE current_state
    /\ UNCHANGED << commit_index, role, session_vars, task_vars, update_resps >>

\* The transport drops a request or an answer; an update task that waits for it
\* waits on, or finds its channel closed and panics.
LoseMessage ==
    \/ \E m \in InFlight(append_rpcs) :
          /\ append_rpcs' = append_rpcs \ {m}
          /\ \/ UNCHANGED update
             \/ m.task = "update" /\ update' = [update EXCEPT ![m.to] = "Panicked"]
          /\ UNCHANGED << node_vars, session_vars, heartbeat, standby, append_resps,
                          update_resps >>
    \/ \E m \in append_resps :
          /\ append_resps' = append_resps \ {m}
          /\ \/ UNCHANGED update
             \/ m.task = "update" /\ update' = [update EXCEPT ![m.from] = "Panicked"]
          /\ UNCHANGED << node_vars, session_vars, heartbeat, standby, append_rpcs,
                          update_resps >>

-----------------------------------------------------------------------------

MainTask == HeartbeatTimeout \/ ClientRequest \/ LeaveRole

StandbyTask == StartUpdates \/ StandbyReceive \/ StandbyCommit

UpdateTask(p) == CheckPeer(p) \/ SendUpdate(p) \/ PassAnswer(p) \/ EndPause(p)

Next ==
    \/ MainTask
    \/ SendHeartbeats \/ CollectHeartbeat
    \/ StandbyTask
    \/ \E p \in Peer : UpdateTask(p) \/ HandleAppendEntries(p)
    \/ \E n \in Node : HearRival(n) \/ StoreEntries(n) \/ StoreCommitIndex(n)
    \/ LoseMessage

Spec == Init /\ [][Next]_vars

\* Tokio runs every task that can go on, and peers get to the requests they have
\* received, whatever they hear from others: their channels are queues.  Nothing is
\* assumed of timers, clients or the rival.
FairSpec ==
    /\ Spec
    /\ WF_vars(LeaveRole)
    /\ WF_vars(SendHeartbeats)
    /\ WF_vars(CollectHeartbeat)
    /\ WF_vars(StandbyTask)
    /\ \A p \in Peer : WF_vars(UpdateTask(p)) /\ SF_vars(HandleAppendEntries(p))
    /\ \A n \in Node : WF_vars(StoreEntries(n)) /\ WF_vars(StoreCommitIndex(n))

-----------------------------------------------------------------------------
(***************************************************************************)
(* Properties                                                              *)
(***************************************************************************)

\* Every variable holds values of its Rust type.
TypeOK ==
    /\ current_term \in [Node -> Nat]
    /\ log \in [Node -> Log]
    /\ commit_index \in [Node -> Nat]
    /\ current_state \in {"Leader", "Follower"}
    /\ role \in {"Leader", "Left"}
    /\ next_index \in [Peer -> Index]
    /\ match_index \in [Peer -> Index \cup {None}]
    /\ peers_writer \in {None, "standby"}
    /\ heartbeat \in {"Due", "Collecting", "Ended"}
    /\ standby \in {"Starting", "Receiving", "Calculating", "Blocked", "Ended"}
    /\ update \in [Peer -> {"None", "Checking", "Composing", "Calling", "Pausing",
                            "Ended", "Panicked"}]
    /\ append_rpcs \subseteq AppendEntriesRequest
    /\ append_resps \subseteq AppendEntriesResponse
    /\ update_resps \in Seq(AppendEntriesResponse)

\* The receiver of a request has removed entries and not yet appended the request's.
Truncated(p) == \E m \in append_rpcs : m.task = "update" /\ m.to = p /\ m.stage = "Removed"

\* A leader never takes a peer for further than the peer's log got, whatever
\* heartbeats change next_index while an update is under way.  The peer's log may be
\* shorter for a while: a later update removes entries before it brings them again.
MatchIndexReplicated ==
    \A p \in Peer :
        match_index[p] # None /\ current_term[p] = SessionTerm /\ ~ Truncated(p)
            => match_index[p] <= get_last_index(log[p])

\* An update task that outlives its leader, or hears of a mismatch, does not
\* send before it has its answer: no peer has two updates to handle.
OneUpdateAtATime ==
    \A m, r \in append_rpcs : m.task = "update" /\ r.task = "update" /\ m.to = r.to => m = r

\* With the State of the repository a node loses entries only to an update of
\* a term it does not refuse, and one that knew the entry the log is cut at:
\* heartbeats erase nothing.
LogsShrinkByUpdatesOnly ==
    [][\A n \in Node :
          Len(log'[n]) < Len(log[n])
              => \E m \in append_rpcs :
                    /\ m.task = "update" /\ m.to = n
                    /\ current_term[n] <= m.term
                    /\ has_entry(log[n], m.prev_log_index)
                    /\ get_entry(log[n], m.prev_log_index) = m.prev_log_term]_vars

\* Between two requests the commit index of a State points into its log, although
\* requests truncate logs, the leader's commit index may be beyond them, and entries
\* and commit index are written in different calls.
CommitIndexIsInLog ==
    \A n \in Node : Idle(n) => commit_index[n] <= get_last_index(log[n])

\* A heartbeat that is due goes out, unless the standby task has blocked itself
\* and with it everybody who needs the map of peers.
HeartbeatGoesOut == heartbeat = "Due" ~> heartbeat # "Due" \/ standby = "Blocked"

-----------------------------------------------------------------------------
(***************************************************************************)
(* Claims of the repository that the code does not keep.                   *)
(***************************************************************************)

\* By the leader's books a majority has entry k, an entry of its term.
MajorityHas(k) ==
    /\ current_state = "Leader"
    /\ k <= Len(log[Leader]) /\ log[Leader][k] = SessionTerm
    /\ 2 * (1 + Cardinality({p \in Peer : match_index[p] # None /\ match_index[p] >= k}))
          > Cardinality(Node)

\* tests/test_replication.rs: "When majority replicates an entry. Leaders
\* commit index is updated".
MajorityCommits ==
    \A k \in 1 .. MaxLog : MajorityHas(k) ~> commit_index[Leader] >= k \/ current_state # "Leader"

\* role_leader.rs: the standby task is there "to update the peers continuously";
\* tests/test_replication.rs: "Follower with log mismatch.  Leader decrements next
\* index until match is reached.  Leader sends entries".
MismatchIsResolved ==
    \A p \in Peer :
        next_index[p] \in 1 .. commit_index[Leader]
            ~> update[p] = "Calling" \/ current_state # "Leader"

\* state.rs: get_last_commit_index is "the index of the last committed log
\* entry", which is there for good.
CommittedEntriesStay ==
    [][\A n \in Node : Idle(n)' => commit_index[n] <= Len(log'[n])]_vars

-----------------------------------------------------------------------------
(***************************************************************************)
(* How far those claims are from what the code does.  These are theorems   *)
(* about every cluster, not properties it should have.                     *)
(***************************************************************************)

\* Whatever its peers replicate, a leader never commits an entry: the standby
\* task blocks itself before it gets to the commit index.
LeaderNeverCommits == [][commit_index'[Leader] <= commit_index[Leader]]_vars

\* A leader that starts without a committed entry never sends an entry to
\* anyone: a peer that becomes stale all the same makes its update task panic.
HeartbeatsOnly == \A m \in append_rpcs : m.task = "heartbeat" /\ m.entries = << >>

\* Once an update has been counted the session falls silent: neither a heartbeat
\* nor an update is sent again, whatever becomes stale or due.
SilentAfterUpdate ==
    [][(\E p \in Peer : match_index[p] # None)
          => \A m \in append_rpcs' \ append_rpcs : m.live => m.stage # "Sent"]_vars

-----------------------------------------------------------------------------
(***************************************************************************)
(* The inductive invariants behind the theorems of ReplicationProofs.      *)
(***************************************************************************)

\* A standby task on its way to the commit index holds the lock it will ask for.
LockInv == standby \in {"Calculating", "Blocked"} => peers_writer = "standby"

\* Nobody but the rival sends the leader anything.
RivalInv ==
    \A m \in append_rpcs :
        m.to = Leader
            => /\ m.task = "heartbeat" /\ ~ m.live
               /\ m.last_commit_index = 0 /\ m.entries = << >>

\* Without a committed entry, next_index starts at 1 and leaves the range of
\* the leader's log before its peer can become stale.
FreshInv ==
    /\ commit_index[Leader] = 0
    /\ Len(log[Leader]) <= MaxLog
    /\ \A p \in Peer : next_index[p] \in {0, 1, U64Max}
    /\ \A p \in Peer : update[p] \in {"Checking", "Composing", "Calling", "Pausing"}
                          => next_index[p] # 1
    /\ \A m \in append_resps : m.task = "heartbeat"
    /\ update_resps = << >>
    /\ HeartbeatsOnly

Queued == {update_resps[k] : k \in DOMAIN update_resps}

\* Terms are positive, and so are the entries in logs and requests.
PositiveTerms ==
    /\ \A n \in Node : current_term[n] # 0 /\ log[n] \in Seq(Nat \ {0})
    /\ \A m \in append_rpcs : m.entries \in Seq(Nat \ {0})
    /\ \A m \in append_resps \cup Queued : m.term # 0

\* Heartbeats claim to follow entry 0 of term 0.
HeartbeatsAreEmpty ==
    \A m \in append_rpcs :
        m.task = "heartbeat"
            => m.prev_log_index = 0 /\ m.prev_log_term = 0 /\ m.entries = << >>

\* A node stores one request at a time, and nothing else changes its log meanwhile.
StageInv ==
    /\ \A m, r \in append_rpcs :
          m.to = r.to /\ m.stage # "Sent" /\ r.stage # "Sent" => m = r
    /\ \A m \in append_rpcs :
          /\ m.stage = "Removed" => Len(log[m.to]) = m.prev_log_index
          /\ m.stage = "Appended" => Len(log[m.to]) = m.prev_log_index + Len(m.entries)

Updates(p) == {m \in append_rpcs : m.task = "update" /\ m.to = p}

UpdateAnswers(p) == {m \in append_resps : m.task = "update" /\ m.from = p}

\* Counting an update takes the lock.
MatchedInv == LockFree => \A p \in Peer : match_index[p] = None

\* An update task waits for the one request or answer of its that is under way.
OneUpdateInv ==
    \A p \in Peer :
        /\ standby = "Starting" => update[p] = "None"
        /\ update[p] # "Calling" => Updates(p) = {} /\ UpdateAnswers(p) = {}
        /\ \A m, r \in Updates(p) : m = r
        /\ \A m, r \in UpdateAnswers(p) : m = r
        /\ Updates(p) = {} \/ UpdateAnswers(p) = {}

\* The answers that will be counted.
Accepted(p) ==
    {m \in UpdateAnswers(p) \cup {r \in Queued : r.from = p} : m.reason = "Ok"}

LastSent(m) == m.prev_log_index + Len(m.entries)

\* What the standby task would count for an answer or a request under way is
\* in the log of the peer, or about to be, and no later request takes it away.
UncountedInv(p) ==
    /\ \A m \in Accepted(p) :
          /\ next_index[p] + m.len <= Len(log[Leader])
          /\ next_index[p] + m.len <= Len(log[p]) + 1 \/ Truncated(p)
          /\ \A r \in Updates(p) : next_index[p] + m.len <= LastSent(r) + 1
    /\ \A r \in Updates(p) :
          /\ next_index[p] <= r.prev_log_index + 1
          /\ next_index[p] + Len(r.entries) <= Len(log[Leader])

\* What it has counted stays in the peer's log.
CountedInv(p) ==
    match_index[p] # None =>
        /\ match_index[p] <= Len(log[p]) \/ Truncated(p)
        /\ \A r \in Updates(p) : match_index[p] <= LastSent(r)

\* The lock, once taken, is never free again, and nothing is sent or counted
\* under it.
ProgressInv == \A p \in Peer : (LockFree => UncountedInv(p)) /\ CountedInv(p)

\* Where get_entry counts from 1 nobody refuses entry 0 of term 0: no next_index
\* is ever lowered, no peer becomes stale and nothing is counted.
OneBasedInv ==
    /\ HeartbeatsOnly
    /\ \A m \in append_rpcs : m.prev_log_index = 0
    /\ \A m \in append_resps : m.task = "heartbeat" /\ m.reason # "LogMismatch"
    /\ update_resps = << >>
    /\ \A p \in Peer : /\ update[p] = "None"
                        /\ match_index[p] = None
                        /\ next_index[p] > commit_index[Leader]

=============================================================================
