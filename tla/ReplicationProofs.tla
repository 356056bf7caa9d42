------------------------- MODULE ReplicationProofs -------------------------
(***************************************************************************)
(* What holds of a leader's replication session for every number of peers, *)
(* every log, every width of u64 and both build profiles.                  *)
(***************************************************************************)
EXTENDS Replication, SequenceTheorems, TLAPS

USE DEF Log

-----------------------------------------------------------------------------
(***************************************************************************)
(* The operators                                                           *)
(***************************************************************************)

\* A truncated log and a log with entries appended are logs.
LEMMA LogOperators ==
    ASSUME NEW l \in Log, NEW e \in Log, NEW k \in Nat
    PROVE  /\ get_last_index(l) \in Nat
           /\ append_entries(l, e) \in Log
           /\ Len(append_entries(l, e)) = Len(l) + Len(e)
           /\ remove_entries_after(l, k) \in Log
           /\ k <= Len(l) => Len(remove_entries_after(l, k)) = k
           /\ get_entries(l, k) \in Log
           /\ has_entry(l, k) => get_entry(l, k) \in Nat
<1>1. get_last_index(l) \in Nat /\ append_entries(l, e) \in Log
  BY DEF get_last_index, append_entries
<1>2. Len(append_entries(l, e)) = Len(l) + Len(e)
  BY DEF append_entries
<1>3. /\ remove_entries_after(l, k) \in Log
      /\ k <= Len(l) => Len(remove_entries_after(l, k)) = k
  BY DEF remove_entries_after
<1>4. get_entries(l, k) \in Log
  BY DEF get_entries
<1>5. has_entry(l, k) => get_entry(l, k) \in Nat
  BY FirstEntryIndexAssumption DEF has_entry, get_entry
<1>6. QED
  BY <1>1, <1>2, <1>3, <1>4, <1>5

\* u64 arithmetic stays within u64.
LEMMA U64 ==
    ASSUME NEW x \in Int
    PROVE  Wrapped(x) \in Index
BY BoundAssumption DEF Wrapped, Index

\* So does a decrement, which does not move on from the maximum.
LEMMA DecrementType ==
    ASSUME NEW x \in Index
    PROVE  /\ Decremented(x) \in Index
           /\ x = 1 => Decremented(x) = 0
           /\ x = 0 => Decremented(x) = U64Max
<1>1. x \in Int /\ U64Max \in Nat /\ U64Max > 1
  BY BoundAssumption DEF Index
<1>2. Wrapped(x - 1) \in Index
  BY <1>1, U64
<1>3. Wrapped(0) = 0 /\ Wrapped(-1) = U64Max
  BY <1>1 DEF Wrapped
<1>4. QED
  BY <1>1, <1>2, <1>3 DEF Decremented

\* Two records of one request: r may be abandoned, or further on its way.
SameRequest(r, m) ==
    /\ r.task = m.task
    /\ r.to = m.to
    /\ r.term = m.term
    /\ r.last_commit_index = m.last_commit_index
    /\ r.prev_log_index = m.prev_log_index
    /\ r.prev_log_term = m.prev_log_term
    /\ r.entries = m.entries
    /\ r.live => m.live

\* An abandoned request, or one that has moved on, is the same request.
LEMMA RequestTravels ==
    ASSUME NEW m \in AppendEntriesRequest, NEW stage \in {"Sent", "Removed", "Appended"}
    PROVE  /\ SameRequest(m, m)
           /\ Orphan(m) \in AppendEntriesRequest
           /\ SameRequest(Orphan(m), m)
           /\ Orphan(m).stage = m.stage
           /\ [m EXCEPT !.stage = stage] \in AppendEntriesRequest
           /\ SameRequest([m EXCEPT !.stage = stage], m)
           /\ [m EXCEPT !.stage = stage].stage = stage
           /\ [m EXCEPT !.stage = stage].live = m.live
BY DEF Orphan, AppendEntriesRequest, SameRequest

\* The end of the heartbeat task leaves no message that was not there.
LEMMA DroppedHeartbeats ==
    ASSUME append_rpcs \subseteq AppendEntriesRequest,
           append_resps \subseteq AppendEntriesResponse,
           DropHeartbeatAnswers
    PROVE  /\ append_rpcs' \subseteq AppendEntriesRequest
           /\ append_resps' \subseteq append_resps
           /\ \A r \in append_rpcs' : \E m \in append_rpcs :
                 SameRequest(r, m) /\ r.stage = m.stage /\ (r.task # "heartbeat" => r = m)
<1>1. append_resps' \subseteq append_resps
  BY DEF DropHeartbeatAnswers
<1>2. ASSUME NEW r \in append_rpcs'
      PROVE  /\ r \in AppendEntriesRequest
             /\ \E m \in append_rpcs :
                   SameRequest(r, m) /\ r.stage = m.stage /\ (r.task # "heartbeat" => r = m)
  <2>1. CASE r \in append_rpcs
    BY <2>1, RequestTravels
  <2>2. ASSUME NEW m \in append_rpcs, m.task = "heartbeat", r = Orphan(m)
        PROVE  /\ r \in AppendEntriesRequest
               /\ SameRequest(r, m) /\ r.stage = m.stage /\ r.task = "heartbeat"
    <3>1. m \in AppendEntriesRequest
      OBVIOUS
    <3>2. QED
      BY <2>2, <3>1, RequestTravels DEF SameRequest
  <2>3. QED
    BY <2>1, <2>2 DEF DropHeartbeatAnswers
<1>3. QED
  BY <1>1, <1>2

\* The rival's heartbeat, accepted.
LEMMA RivalType ==
    ASSUME NEW n \in Node, NEW term \in SessionTerm .. MaxTerm
    PROVE  /\ RivalHeartbeat(n, term) \in AppendEntriesRequest
           /\ term \in Nat
BY BoundAssumption DEF RivalHeartbeat, AppendEntriesRequest, Log

-----------------------------------------------------------------------------
(***************************************************************************)
(* Type correctness                                                        *)
(***************************************************************************)

\* The requests a session sends are well typed.
LEMMA RequestTypes ==
    ASSUME TypeOK, NEW p \in Peer
    PROVE  /\ Heartbeat(p) \in AppendEntriesRequest
           /\ ~ CannotCompose(p) => compose_append_entries_request(p) \in AppendEntriesRequest
<1>1. /\ current_term[Leader] \in Nat /\ commit_index[Leader] \in Nat
      /\ log[Leader] \in Log /\ next_index[p] \in Nat
  BY BoundAssumption DEF TypeOK, Node, Index
<1>2. Heartbeat(p) \in AppendEntriesRequest
  BY <1>1 DEF Heartbeat, AppendEntriesRequest, Node
<1>3. ASSUME ~ CannotCompose(p)
      PROVE  compose_append_entries_request(p) \in AppendEntriesRequest
  <2>1. next_index[p] - 1 \in Nat
    BY <1>1, <1>3 DEF CannotCompose
  <2>2. /\ get_entry(log[Leader], next_index[p] - 1) \in Nat
        /\ get_entries(log[Leader], next_index[p]) \in Log
    BY <1>1, <1>3, <2>1, LogOperators DEF CannotCompose
  <2>3. QED
    BY <1>1, <2>1, <2>2 DEF compose_append_entries_request, AppendEntriesRequest, Node
<1>4. QED
  BY <1>2, <1>3

\* An answer has the type of answers.
LEMMA AnswerType ==
    ASSUME TypeOK, NEW p \in Node, NEW m \in AppendEntriesRequest,
           m.live => p \in Peer, NEW reason \in {"StaleTerm", "LogMismatch", "Ok"}
    PROVE  AnswerTo(p, m, reason) \subseteq AppendEntriesResponse
<1>1. m.task \in {"heartbeat", "update"} /\ Len(m.entries) \in Nat
  BY DEF AppendEntriesRequest
<1>2. current_term[p] \in Nat
  BY DEF TypeOK
<1>3. QED
  BY <1>1, <1>2 DEF AnswerTo, AppendEntriesResponse

\* A request that is refused leaves the network; one that is accepted stays in it.
LEMMA TakenRequestType ==
    ASSUME TypeOK, NEW n \in Node, NEW m \in AppendEntriesRequest,
           m.live => n \in Peer, NEW reason, Refuse(n, m, reason) \/ Accept(n, m, reason)
    PROVE  /\ current_term' \in [Node -> Nat]
           /\ log' \in [Node -> Log]
           /\ append_rpcs' \subseteq AppendEntriesRequest
           /\ append_resps' \subseteq AppendEntriesResponse
<1>1. m.term \in Nat /\ m.prev_log_index \in Nat
  BY DEF AppendEntriesRequest
<1>2. CASE Refuse(n, m, reason)
  <2>1. AnswerTo(n, m, reason) \subseteq AppendEntriesResponse
    BY <1>2, AnswerType DEF Refuse
  <2>2. current_term' \in [Node -> Nat]
    BY <1>1, <1>2 DEF Refuse, update_current_term, TypeOK
  <2>3. QED
    BY <1>2, <2>1, <2>2 DEF Refuse, TypeOK
<1>3. CASE Accept(n, m, reason)
  <2>1. current_term' \in [Node -> Nat]
    BY <1>1, <1>3 DEF Accept, update_current_term, TypeOK
  <2>2. remove_entries_after(log[n], m.prev_log_index) \in Log
    BY <1>1, LogOperators DEF TypeOK
  <2>3. log' \in [Node -> Log]
    BY <1>3, <2>2 DEF Accept, TypeOK
  <2>4. append_rpcs' \subseteq AppendEntriesRequest
    BY <1>3, RequestTravels DEF Accept, MoveTo, TypeOK
  <2>5. QED
    BY <1>3, <2>1, <2>3, <2>4 DEF Accept, TypeOK
<1>4. QED
  BY <1>2, <1>3

\* The main loop and the heartbeat task keep the types.
LEMMA LeaderTasksType ==
    ASSUME TypeOK, MainTask \/ SendHeartbeats \/ CollectHeartbeat
    PROVE  TypeOK'
<1> USE DEF node_vars, session_vars, task_vars, net_vars
<1>0. Leader \in Node
  BY DEF Node
<1>1. CASE HeartbeatTimeout
  <2>1. /\ append_rpcs' \subseteq AppendEntriesRequest
        /\ append_resps' \subseteq AppendEntriesResponse
    BY <1>1, DroppedHeartbeats DEF HeartbeatTimeout, TypeOK
  <2>2. QED
    BY <1>1, <2>1 DEF HeartbeatTimeout, TypeOK
<1>2. CASE ClientRequest
  <2>1. << current_term[Leader] >> \in Log
    BY <1>0 DEF TypeOK
  <2>2. append_entries(log[Leader], << current_term[Leader] >>) \in Log
    BY <1>0, <2>1, LogOperators DEF TypeOK
  <2>3. QED
    BY <1>0, <1>2, <2>2 DEF ClientRequest, TypeOK
<1>3. CASE LeaveRole
  BY <1>3 DEF LeaveRole, TypeOK
<1>4. CASE SendHeartbeats
  <2>1. append_rpcs' \subseteq AppendEntriesRequest
    BY <1>4, RequestTypes DEF SendHeartbeats, TypeOK
  <2>2. QED
    BY <1>4, <2>1 DEF SendHeartbeats, TypeOK
<1>5. CASE CollectHeartbeat
  <2>1. PICK m \in append_resps : CollectMismatch(m) \/ CollectStaleTerm(m) \/ CollectOk(m)
    BY <1>5 DEF CollectHeartbeat
  <2>2. m.from \in Peer /\ m.term \in Nat
    BY DEF TypeOK, AppendEntriesResponse
  <2>3. UNCHANGED << log, commit_index, role, match_index, peers_writer, standby,
                     update, update_resps >>
    BY <1>5 DEF CollectHeartbeat
  <2>4. CASE CollectMismatch(m)
    <3>1. next_index' \in [Peer -> Index]
      <4>1. next_index \in [Peer -> Index] /\ next_index[m.from] \in Index
        BY <2>2 DEF TypeOK
      <4>2. Decremented(next_index[m.from]) \in Index
        BY <4>1, DecrementType
      <4>3. \/ UNCHANGED next_index
            \/ next_index' = [next_index EXCEPT ![m.from] = Decremented(@)]
        BY <2>4 DEF CollectMismatch
      <4>4. QED
        BY <2>2, <4>1, <4>2, <4>3
    <3>2. /\ append_rpcs' \subseteq AppendEntriesRequest
          /\ append_resps' \subseteq AppendEntriesResponse
      <4>1. CASE DropHeartbeatAnswers
        BY <4>1, DroppedHeartbeats DEF TypeOK
      <4>2. CASE append_resps' = append_resps \ {m} /\ UNCHANGED append_rpcs
        BY <4>2 DEF TypeOK
      <4>3. QED
        BY <2>4, <4>1, <4>2 DEF CollectMismatch
    <3>3. QED
      BY <2>3, <2>4, <3>1, <3>2 DEF CollectMismatch, TypeOK
  <2>5. CASE CollectStaleTerm(m)
    <3>1. /\ append_rpcs' \subseteq AppendEntriesRequest
          /\ append_resps' \subseteq AppendEntriesResponse
      BY <2>5, DroppedHeartbeats DEF CollectStaleTerm, TypeOK
    <3>2. QED
      BY <1>0, <2>2, <2>3, <2>5, <3>1
      DEF CollectStaleTerm, StepDown, update_current_term, TypeOK
  <2>6. CASE CollectOk(m)
    BY <2>3, <2>6 DEF CollectOk, TypeOK
  <2>7. QED
    BY <2>1, <2>4, <2>5, <2>6
<1>6. QED
  BY <1>1, <1>2, <1>3, <1>4, <1>5 DEF MainTask

\* The standby task keeps the types: the median is never computed.
LEMMA StandbyType ==
    ASSUME TypeOK, LockInv, StandbyTask
    PROVE  TypeOK'
<1> USE DEF node_vars, session_vars, task_vars, net_vars
<1>0. Leader \in Node
  BY DEF Node
<1>1. CASE StartUpdates
  BY <1>1 DEF StartUpdates, TypeOK
<1>2. CASE StandbyReceive
  <2> DEFINE m == Head(update_resps)
  <2>1. StandbyMismatch(m) \/ StandbyStaleTerm(m) \/ StandbyOk(m)
    BY <1>2 DEF StandbyReceive
  <2>2. m \in AppendEntriesResponse /\ Tail(update_resps) \in Seq(AppendEntriesResponse)
    BY <1>2, HeadTailProperties DEF StandbyReceive, TypeOK
  <2> HIDE DEF m
  <2>2a. m.from \in Peer /\ m.term \in Nat /\ m.len \in Nat
    BY <2>2 DEF AppendEntriesResponse
  <2>2b. << >> \in Seq(AppendEntriesResponse)
    OBVIOUS
  <2>3. UNCHANGED << log, commit_index, role, heartbeat, update, append_rpcs, append_resps >>
    BY <1>2 DEF StandbyReceive
  <2>4. CASE StandbyMismatch(m)
    <3>1. next_index' \in [Peer -> Index]
      BY <2>2a, <2>4, DecrementType DEF StandbyMismatch, TypeOK
    <3>2. QED
      BY <2>2, <2>2b, <2>3, <2>4, <3>1 DEF StandbyMismatch, EndStandby, TypeOK
  <2>5. CASE StandbyStaleTerm(m)
    BY <1>0, <2>2a, <2>2b, <2>3, <2>5
    DEF StandbyStaleTerm, EndStandby, StepDown, update_current_term, TypeOK
  <2>6. CASE StandbyOk(m)
    <3> DEFINE next == next_index[m.from] + m.len
    <3>1. next_index[m.from] \in Int /\ next \in Int
      BY <2>2a, BoundAssumption DEF TypeOK, Index
    <3>2. Wrapped(next - 1) \in Index /\ Wrapped(next_index[m.from] + next) \in Index
      BY <3>1, U64
    <3>3. /\ next_index' \in [Peer -> Index]
          /\ match_index' \in [Peer -> Index \cup {None}]
          /\ peers_writer' \in {None, "standby"}
      BY <2>2a, <2>6, <3>2 DEF StandbyOk, TypeOK
    <3>4. /\ standby' \in {"Calculating", "Ended"}
          /\ update_resps' \in Seq(AppendEntriesResponse)
      BY <2>2, <2>2b, <2>6 DEF StandbyOk, EndStandby
    <3>5. UNCHANGED << current_term, current_state >>
      BY <2>6 DEF StandbyOk
    <3>6. QED
      BY <2>3, <3>3, <3>4, <3>5 DEF TypeOK
  <2>7. QED
    BY <2>1, <2>4, <2>5, <2>6
<1>3. CASE StandbyCommit
  <2>1. ~ LockFree
    BY <1>3, NoneAssumption DEF StandbyCommit, LockInv, LockFree
  <2>2. QED
    BY <1>3, <2>1 DEF StandbyCommit, TypeOK
<1>4. QED
  BY <1>1, <1>2, <1>3 DEF StandbyTask

\* So do the update tasks.
LEMMA UpdateType ==
    ASSUME TypeOK, NEW p \in Peer, UpdateTask(p)
    PROVE  TypeOK'
<1> USE DEF node_vars, session_vars, task_vars, net_vars
<1>1. CASE CheckPeer(p)
  BY <1>1 DEF CheckPeer, TypeOK
<1>2. CASE SendUpdate(p)
  <2>1. append_rpcs' \subseteq AppendEntriesRequest
    BY <1>2, RequestTypes DEF SendUpdate, TypeOK
  <2>2. QED
    BY <1>2, <2>1 DEF SendUpdate, TypeOK
<1>3. CASE PassAnswer(p)
  <2>1. PICK m \in append_resps :
           /\ append_resps' = append_resps \ {m}
           /\ \/ UNCHANGED update_resps
              \/ update_resps' = Append(update_resps, m)
           /\ \/ update' = [update EXCEPT ![p] = "Ended"]
              \/ update' = [update EXCEPT ![p] = "Pausing"]
    BY <1>3 DEF PassAnswer
  <2>2. update_resps' \in Seq(AppendEntriesResponse)
    <3>1. m \in AppendEntriesResponse /\ update_resps \in Seq(AppendEntriesResponse)
      BY DEF TypeOK
    <3>2. Append(update_resps, m) \in Seq(AppendEntriesResponse)
      BY <3>1
    <3>3. QED
      BY <2>1, <3>1, <3>2
  <2>3. update' \in [Peer -> {"None", "Checking", "Composing", "Calling", "Pausing",
                              "Ended", "Panicked"}]
    BY <2>1 DEF TypeOK
  <2>4. append_resps' \subseteq AppendEntriesResponse
    BY <2>1 DEF TypeOK
  <2>5. QED
    BY <1>3, <2>2, <2>3, <2>4 DEF PassAnswer, TypeOK
<1>4. CASE EndPause(p)
  BY <1>4 DEF EndPause, TypeOK
<1>5. QED
  BY <1>1, <1>2, <1>3, <1>4 DEF UpdateTask

\* The actions that take requests, and what they leave to others.
StoreTask(n) == StoreEntries(n) \/ StoreCommitIndex(n)

Cluster ==
    \/ \E p \in Peer : HandleAppendEntries(p)
    \/ \E n \in Node : HearRival(n) \/ StoreTask(n)
    \/ LoseMessage

Reasons == {"StaleTerm", "LogMismatch", "Ok"}

\* A peer takes a request: the facts most proofs need.
LEMMA PeerTakes ==
    ASSUME NEW p \in Peer, HandleAppendEntries(p)
    PROVE  /\ \E m \in append_rpcs, reason \in Reasons :
                 /\ m.to = p
                 /\ reason = AppendEntriesReason(current_term[p], log[p], m)
                 /\ Refuse(p, m, reason) \/ Accept(p, m, reason)
           /\ Idle(p)
           /\ UNCHANGED << commit_index, current_state, role, session_vars, task_vars,
                           update_resps >>
<1>1. \A m : AppendEntriesReason(current_term[p], log[p], m) \in Reasons
  BY DEF AppendEntriesReason, Reasons
<1>2. QED
  BY <1>1, Zenon DEF HandleAppendEntries

\* A node hears the rival: a later term, a log that does not match, or a heartbeat
\* that it accepts.
LEMMA NodeHears ==
    ASSUME NEW n \in Node, HearRival(n)
    PROVE  /\ Idle(n)
           /\ \E term \in SessionTerm .. MaxTerm, reason \in Reasons :
                 /\ reason = AppendEntriesReason(current_term[n], log[n],
                                                 RivalHeartbeat(n, term))
                 /\ \/ /\ term > current_term[n] \/ reason = "LogMismatch"
                       /\ update_current_term(n, term)
                       /\ UNCHANGED << log, append_rpcs, append_resps >>
                    \/ Accept(n, RivalHeartbeat(n, term), reason)
           /\ current_state' = IF n = Leader THEN "Follower" ELSE current_state
           /\ UNCHANGED << commit_index, role, session_vars, task_vars, update_resps >>
<1>1. \A m : AppendEntriesReason(current_term[n], log[n], m) \in Reasons
  BY DEF AppendEntriesReason, Reasons
<1>2. QED
  BY <1>1, Zenon DEF HearRival

\* So does the rest of the cluster.
LEMMA ClusterType ==
    ASSUME TypeOK, RivalInv, Cluster
    PROVE  TypeOK'
<1> USE DEF node_vars, session_vars, task_vars, net_vars
<1>1. ASSUME NEW p \in Peer, HandleAppendEntries(p) PROVE TypeOK'
  <2>1. PICK m \in append_rpcs, reason \in Reasons : Refuse(p, m, reason) \/ Accept(p, m, reason)
    BY <1>1, PeerTakes
  <2>2. m \in AppendEntriesRequest /\ p \in Node
    BY DEF TypeOK, Node
  <2>3. /\ current_term' \in [Node -> Nat]
        /\ log' \in [Node -> Log]
        /\ append_rpcs' \subseteq AppendEntriesRequest
        /\ append_resps' \subseteq AppendEntriesResponse
    BY <2>1, <2>2, TakenRequestType
  <2>4. UNCHANGED << commit_index, current_state, role, session_vars, task_vars, update_resps >>
    BY <1>1, PeerTakes
  <2>5. QED
    BY <2>3, <2>4 DEF TypeOK
<1>2. ASSUME NEW n \in Node, HearRival(n) PROVE TypeOK'
  <2>1. PICK term \in SessionTerm .. MaxTerm, reason \in Reasons :
           \/ /\ update_current_term(n, term)
              /\ UNCHANGED << log, append_rpcs, append_resps >>
           \/ Accept(n, RivalHeartbeat(n, term), reason)
    BY <1>2, NodeHears
  <2>2. /\ current_term' \in [Node -> Nat]
        /\ log' \in [Node -> Log]
        /\ append_rpcs' \subseteq AppendEntriesRequest
        /\ append_resps' \subseteq AppendEntriesResponse
    <3>1. CASE Accept(n, RivalHeartbeat(n, term), reason)
      <4>1. ~ RivalHeartbeat(n, term).live /\ RivalHeartbeat(n, term) \in AppendEntriesRequest
        BY RivalType DEF RivalHeartbeat
      <4>2. QED
        BY <3>1, <4>1, TakenRequestType
    <3>2. CASE update_current_term(n, term) /\ UNCHANGED << log, append_rpcs, append_resps >>
      BY <3>2, RivalType DEF update_current_term, TypeOK
    <3>3. QED
      BY <2>1, <3>1, <3>2
  <2>3. /\ current_state' \in {"Leader", "Follower"}
        /\ UNCHANGED << commit_index, role, session_vars, task_vars, update_resps >>
    BY <1>2, NodeHears DEF TypeOK
  <2>4. QED
    BY <2>2, <2>3 DEF TypeOK
<1>3. ASSUME NEW n \in Node, StoreEntries(n) PROVE TypeOK'
  <2>1. PICK m \in append_rpcs :
           /\ log' = [log EXCEPT ![n] = append_entries(@, m.entries)]
           /\ append_rpcs' = MoveTo(m, "Appended")
    BY <1>3 DEF StoreEntries
  <2>2. m \in AppendEntriesRequest /\ m.entries \in Log
    BY DEF TypeOK, AppendEntriesRequest
  <2>3. append_entries(log[n], m.entries) \in Log
    BY <2>2, LogOperators DEF TypeOK
  <2>4. log' \in [Node -> Log]
    BY <2>1, <2>3 DEF TypeOK
  <2>5. append_rpcs' \subseteq AppendEntriesRequest
    BY <2>1, <2>2, RequestTravels DEF MoveTo, TypeOK
  <2>6. QED
    BY <1>3, <2>4, <2>5 DEF StoreEntries, TypeOK
<1>4. ASSUME NEW n \in Node, StoreCommitIndex(n) PROVE TypeOK'
  <2>1. PICK m \in append_rpcs :
           /\ m.to = n
           /\ commit_index' = [commit_index EXCEPT
                                 ![n] = min(m.last_commit_index, get_last_index(log[n]))]
           /\ append_rpcs' = append_rpcs \ {m}
           /\ append_resps' = append_resps \cup AnswerTo(n, m, "Ok")
    BY <1>4 DEF StoreCommitIndex
  <2>2. m \in AppendEntriesRequest /\ m.last_commit_index \in Nat
    BY DEF TypeOK, AppendEntriesRequest
  <2>3. AnswerTo(n, m, "Ok") \subseteq AppendEntriesResponse
    <3>1. m.live => n \in Peer
      BY <2>1 DEF RivalInv, Node
    <3>2. QED
      BY <2>2, <3>1, AnswerType
  <2>4. min(m.last_commit_index, get_last_index(log[n])) \in Nat
    BY <2>2, LogOperators DEF min, TypeOK
  <2>5. commit_index' \in [Node -> Nat]
    BY <2>1, <2>4 DEF TypeOK
  <2>6. append_rpcs' \subseteq AppendEntriesRequest /\ append_resps' \subseteq AppendEntriesResponse
    BY <2>1, <2>3 DEF TypeOK
  <2>7. QED
    BY <1>4, <2>5, <2>6 DEF StoreCommitIndex, TypeOK
<1>5. CASE LoseMessage
  BY <1>5 DEF LoseMessage, InFlight, TypeOK
<1>6. QED
  BY <1>1, <1>2, <1>3, <1>4, <1>5 DEF Cluster, StoreTask

\* Where the requests of a step come from.
LEMMA RequestOrigin ==
    ASSUME TypeOK, [Next]_vars, NEW r \in append_rpcs'
    PROVE  \/ \E m \in append_rpcs : SameRequest(r, m)
           \/ SendHeartbeats /\ \E p \in Peer : r = Heartbeat(p)
           \/ \E p \in Peer : /\ SendUpdate(p) /\ ~ CannotCompose(p)
                              /\ r = compose_append_entries_request(p)
           \/ \E n \in Node, term \in SessionTerm .. MaxTerm :
                 /\ HearRival(n)
                 /\ Accept(n, RivalHeartbeat(n, term), "Ok")
                 /\ SameRequest(r, RivalHeartbeat(n, term))
<1> USE DEF node_vars, session_vars, task_vars, net_vars
<1> DEFINE Old == \E m \in append_rpcs : SameRequest(r, m)
<1>1. \A m \in append_rpcs : SameRequest(m, m)
  BY RequestTravels DEF TypeOK
<1>2. ASSUME append_rpcs' \subseteq append_rpcs PROVE Old
  BY <1>1, <1>2
<1>3. ASSUME DropHeartbeatAnswers PROVE Old
  BY <1>3, DroppedHeartbeats DEF TypeOK
<1>4. ASSUME NEW m \in append_rpcs, NEW stage \in {"Sent", "Removed", "Appended"},
             append_rpcs' = MoveTo(m, stage)
      PROVE  Old
  <2>1. m \in AppendEntriesRequest
    BY DEF TypeOK
  <2>2. r \in append_rpcs \/ r = [m EXCEPT !.stage = stage]
    BY <1>4 DEF MoveTo
  <2>3. SameRequest([m EXCEPT !.stage = stage], m)
    BY <2>1, RequestTravels
  <2>4. QED
    BY <1>1, <2>2, <2>3
<1> HIDE DEF Old
<1>5. ASSUME MainTask PROVE Old
  BY <1>2, <1>3, <1>5 DEF MainTask, HeartbeatTimeout, ClientRequest, LeaveRole
<1>6. CASE SendHeartbeats
  <2>1. r \in append_rpcs \/ \E p \in Peer : r = Heartbeat(p)
    BY <1>6 DEF SendHeartbeats
  <2>2. QED
    BY <1>1, <1>6, <2>1 DEF Old
<1>7. ASSUME CollectHeartbeat PROVE Old
  BY <1>2, <1>3, <1>7 DEF CollectHeartbeat, CollectMismatch, CollectStaleTerm, CollectOk
<1>8. ASSUME StandbyTask PROVE Old
  BY <1>2, <1>8 DEF StandbyTask, StartUpdates, StandbyReceive, StandbyCommit
<1>9. ASSUME NEW p \in Peer, UpdateTask(p)
      PROVE  Old \/ /\ SendUpdate(p) /\ ~ CannotCompose(p)
                    /\ r = compose_append_entries_request(p)
  <2>1. CASE SendUpdate(p)
    BY <1>1, <2>1 DEF SendUpdate, Old
  <2>2. CASE CheckPeer(p) \/ PassAnswer(p) \/ EndPause(p)
    BY <1>2, <2>2 DEF CheckPeer, PassAnswer, EndPause
  <2>3. QED
    BY <1>9, <2>1, <2>2 DEF UpdateTask
<1>10. ASSUME NEW p \in Peer, HandleAppendEntries(p) PROVE Old
  <2>1. PICK m \in append_rpcs, reason \in Reasons : Refuse(p, m, reason) \/ Accept(p, m, reason)
    BY <1>10, PeerTakes
  <2>2. CASE Refuse(p, m, reason)
    BY <1>2, <2>2 DEF Refuse
  <2>3. CASE Accept(p, m, reason)
    BY <1>4, <2>3 DEF Accept
  <2>4. QED
    BY <2>1, <2>2, <2>3
<1>11. ASSUME NEW n \in Node, HearRival(n)
       PROVE  Old \/ \E term \in SessionTerm .. MaxTerm :
                       /\ Accept(n, RivalHeartbeat(n, term), "Ok")
                       /\ SameRequest(r, RivalHeartbeat(n, term))
  <2>1. PICK term \in SessionTerm .. MaxTerm, reason \in Reasons :
           UNCHANGED append_rpcs \/ Accept(n, RivalHeartbeat(n, term), reason)
    BY <1>11, NodeHears
  <2>2. CASE UNCHANGED append_rpcs
    BY <1>2, <2>2
  <2>3. CASE Accept(n, RivalHeartbeat(n, term), reason)
    <3> DEFINE h == RivalHeartbeat(n, term)
    <3>1. h \in AppendEntriesRequest
      BY RivalType
    <3> HIDE DEF h
    <3>2. SameRequest([h EXCEPT !.stage = "Removed"], h)
      BY <3>1, RequestTravels
    <3>3. r \in append_rpcs \/ r = [h EXCEPT !.stage = "Removed"]
      BY <2>3 DEF Accept, MoveTo, h
    <3>4. reason = "Ok"
      BY <2>3 DEF Accept
    <3>5. QED
      BY <1>1, <2>3, <3>2, <3>3, <3>4 DEF h, Old
  <2>4. QED
    BY <2>1, <2>2, <2>3
<1>12. ASSUME NEW n \in Node, StoreEntries(n) \/ StoreCommitIndex(n) PROVE Old
  BY <1>2, <1>4, <1>12 DEF StoreEntries, StoreCommitIndex
<1>13. ASSUME LoseMessage PROVE Old
  BY <1>2, <1>13 DEF LoseMessage, InFlight
<1>14. ASSUME UNCHANGED vars PROVE Old
  BY <1>2, <1>14 DEF vars
<1>15. QED
  BY <1>5, <1>6, <1>7, <1>8, <1>9, <1>10, <1>11, <1>12, <1>13, <1>14 DEF Next, Old

\* The leader hears from the rival only.
LEMMA RivalStep ==
    ASSUME TypeOK, RivalInv, [Next]_vars
    PROVE  RivalInv'
<1>1. ASSUME NEW r \in append_rpcs', r.to = Leader
      PROVE  /\ r.task = "heartbeat" /\ ~ r.live
             /\ r.last_commit_index = 0 /\ r.entries = << >>
  <2>1. CASE \E m \in append_rpcs : SameRequest(r, m)
    BY <1>1, <2>1 DEF SameRequest, RivalInv
  <2>2. CASE \E p \in Peer : r = Heartbeat(p) \/ r = compose_append_entries_request(p)
    BY <1>1, <2>2, ClusterAssumption DEF Heartbeat, compose_append_entries_request
  <2>3. CASE \E n \in Node, term \in SessionTerm .. MaxTerm :
                SameRequest(r, RivalHeartbeat(n, term))
    BY <2>3 DEF SameRequest, RivalHeartbeat
  <2>4. QED
    BY <2>1, <2>2, <2>3, RequestOrigin
<1>2. QED
  BY <1>1 DEF RivalInv

\* The standby task gives its lock up only where it never gets.
LEMMA LockStep ==
    ASSUME LockInv, [Next]_vars
    PROVE  LockInv'
<1> USE DEF node_vars, session_vars, task_vars, net_vars
<1>1. CASE MainTask \/ SendHeartbeats
  BY <1>1 DEF MainTask, HeartbeatTimeout, ClientRequest, LeaveRole, SendHeartbeats, LockInv
<1>2. CASE CollectHeartbeat
  BY <1>2 DEF CollectHeartbeat, LockInv
<1>3. CASE StartUpdates
  BY <1>3 DEF StartUpdates, LockInv
<1>4. CASE StandbyReceive
  <2>1. PICK m : StandbyMismatch(m) \/ StandbyStaleTerm(m) \/ StandbyOk(m)
    BY <1>4 DEF StandbyReceive
  <2>2. standby = "Receiving"
    BY <1>4 DEF StandbyReceive
  <2>3. QED
    BY <2>1, <2>2 DEF StandbyMismatch, StandbyStaleTerm, StandbyOk, EndStandby, LockInv
<1>5. CASE StandbyCommit
  BY <1>5 DEF StandbyCommit, LockInv
<1>6. ASSUME NEW p \in Peer, UpdateTask(p) \/ HandleAppendEntries(p) PROVE LockInv'
  <2>1. UNCHANGED << standby, peers_writer >>
    BY <1>6, Zenon DEF UpdateTask, CheckPeer, SendUpdate, PassAnswer, EndPause,
                       HandleAppendEntries
  <2>2. QED
    BY <2>1 DEF LockInv
<1>7. ASSUME NEW n \in Node, HearRival(n) \/ StoreEntries(n) \/ StoreCommitIndex(n)
      PROVE  LockInv'
  <2>1. UNCHANGED << standby, peers_writer >>
    BY <1>7, Zenon DEF HearRival, StoreEntries, StoreCommitIndex
  <2>2. QED
    BY <2>1 DEF LockInv
<1>8. CASE LoseMessage
  BY <1>8 DEF LoseMessage, LockInv
<1>9. CASE UNCHANGED vars
  BY <1>9 DEF vars, LockInv
<1>10. QED
  BY <1>1, <1>2, <1>3, <1>4, <1>5, <1>6, <1>7, <1>8, <1>9 DEF Next, StandbyTask

\* Types, with what they rest on.
TypeInv == TypeOK /\ LockInv /\ RivalInv

\* The session begins with values of the right types and the lock free.
LEMMA TypeInit == Init => TypeInv
<1> SUFFICES ASSUME Init PROVE TypeInv
  OBVIOUS
<1>1. /\ log \in [Node -> Log]
      /\ commit_index \in [Node -> Nat]
      /\ commit_index[Leader] + 1 \in Index
  <2>1. StoredLogs \subseteq Log /\ StoredCommits \subseteq 0 .. MaxLog
    BY BoundAssumption
  <2>2. log \in [Node -> StoredLogs] /\ commit_index \in [Node -> StoredCommits]
    BY DEF Init
  <2>3. commit_index[Leader] \in 0 .. MaxLog
    BY <2>1, <2>2 DEF Node
  <2>4. commit_index[Leader] + 1 \in Index
    BY <2>3, BoundAssumption DEF Index
  <2>5. StoredCommits \subseteq Nat
    BY <2>1, BoundAssumption
  <2>6. log \in [Node -> Log] /\ commit_index \in [Node -> Nat]
    BY <2>1, <2>2, <2>5
  <2>7. QED
    BY <2>4, <2>6
<1>2. current_term \in [Node -> Nat]
  BY BoundAssumption DEF Init
<1>3. QED
  BY <1>1, <1>2 DEF Init, initialize, TypeInv, TypeOK, LockInv, RivalInv

\* Every step keeps types and lock.
LEMMA TypeStep ==
    ASSUME TypeInv, [Next]_vars
    PROVE  TypeInv'
<1> USE DEF TypeInv
<1>1. CASE UNCHANGED vars
  BY <1>1 DEF vars, node_vars, session_vars, task_vars, net_vars, TypeOK, LockInv, RivalInv
<1>2. TypeOK'
  BY <1>1, LeaderTasksType, StandbyType, UpdateType, ClusterType DEF Next, Cluster, StoreTask
<1>3. QED
  BY <1>2, LockStep, RivalStep

\* Types are kept, at the ends of u64 and in both build profiles.
THEOREM TypeCorrect == Spec => []TypeOK
<1>1. TypeInv /\ [Next]_vars => TypeInv'
  BY TypeStep
<1>2. TypeInv => TypeOK
  BY DEF TypeInv
<1>3. QED
  BY <1>1, <1>2, TypeInit, PTL DEF Spec

-----------------------------------------------------------------------------
(***************************************************************************)
(* Commit indexes                                                          *)
(***************************************************************************)

\* The steps that a node sees between two requests: nothing happens to it, a client
\* asks the leader for something, or the node gets to the end of a request.
LEMMA IdleStep ==
    ASSUME TypeOK, LockInv, [Next]_vars, NEW n \in Node, Idle(n)'
    PROVE  \/ Idle(n) /\ log'[n] = log[n] /\ commit_index'[n] = commit_index[n]
           \/ Idle(n) /\ ClientRequest
           \/ StoreCommitIndex(n)
<1> USE DEF node_vars, session_vars, task_vars, net_vars
<1> DEFINE Same == Idle(n) /\ log'[n] = log[n] /\ commit_index'[n] = commit_index[n]
<1>1. ASSUME UNCHANGED << log, commit_index >>,
             \A m \in append_rpcs : m.stage # "Sent" =>
                 \E r \in append_rpcs' : r.to = m.to /\ r.stage = m.stage
      PROVE  Same
  BY <1>1 DEF Idle
<1>2. ASSUME DropHeartbeatAnswers
      PROVE  \A m \in append_rpcs : \E r \in append_rpcs' : r.to = m.to /\ r.stage = m.stage
  <2>1. \A m \in append_rpcs : Orphan(m).to = m.to /\ Orphan(m).stage = m.stage
    BY RequestTravels DEF TypeOK, SameRequest
  <2>2. QED
    BY <1>2, <2>1 DEF DropHeartbeatAnswers
<1>3. ASSUME MainTask \/ SendHeartbeats PROVE Same \/ (Idle(n) /\ ClientRequest)
  <2>1. CASE HeartbeatTimeout
    BY <1>1, <1>2, <2>1 DEF HeartbeatTimeout
  <2>2. CASE ClientRequest
    BY <2>2 DEF ClientRequest, Idle
  <2>3. CASE LeaveRole \/ SendHeartbeats
    BY <1>1, <2>3 DEF LeaveRole, SendHeartbeats
  <2>4. QED
    BY <1>3, <2>1, <2>2, <2>3 DEF MainTask
<1>4. ASSUME CollectHeartbeat PROVE Same
  BY <1>1, <1>2, <1>4 DEF CollectHeartbeat, CollectMismatch, CollectStaleTerm, CollectOk
<1>5. ASSUME StandbyTask PROVE Same
  BY <1>1, <1>5, NoneAssumption
  DEF StandbyTask, StartUpdates, StandbyReceive, StandbyCommit, LockInv, LockFree
<1>6. ASSUME NEW p \in Peer, UpdateTask(p) PROVE Same
  BY <1>1, <1>6 DEF UpdateTask, CheckPeer, SendUpdate, PassAnswer, EndPause
<1>7. ASSUME NEW p \in Node, NEW m \in AppendEntriesRequest, m.to = p, m.stage = "Sent",
             NEW reason, Refuse(p, m, reason) \/ Accept(p, m, reason), UNCHANGED commit_index
      PROVE  Same
  <2>1. CASE Refuse(p, m, reason)
    BY <1>1, <1>7, <2>1 DEF Refuse
  <2>2. CASE Accept(p, m, reason)
    <3> DEFINE r == [m EXCEPT !.stage = "Removed"]
    <3>1. r.to = p /\ r.stage = "Removed"
      BY <1>7, RequestTravels DEF SameRequest
    <3> HIDE DEF r
    <3>2. append_rpcs' = (append_rpcs \ {m}) \cup {r}
      BY <2>2 DEF Accept, MoveTo, r
    <3>3. p # n
      BY <3>1, <3>2 DEF Idle
    <3>4. log'[n] = log[n]
      BY <2>2, <3>3 DEF Accept, TypeOK
    <3>5. Idle(n)
      BY <1>7, <3>2, <3>3 DEF Idle
    <3>6. QED
      BY <1>7, <3>4, <3>5
  <2>3. QED
    BY <1>7, <2>1, <2>2
<1>8. ASSUME NEW p \in Peer, HandleAppendEntries(p) PROVE Same
  <2>1. PICK m \in append_rpcs, reason \in Reasons :
           m.to = p /\ (Refuse(p, m, reason) \/ Accept(p, m, reason))
    BY <1>8, PeerTakes
  <2>2. m \in AppendEntriesRequest /\ m.stage = "Sent" /\ p \in Node
    BY <1>8, <2>1, PeerTakes DEF TypeOK, Idle, Node
  <2>3. UNCHANGED commit_index
    BY <1>8, PeerTakes
  <2>4. QED
    BY <1>7, <2>1, <2>2, <2>3
<1>9. ASSUME NEW q \in Node, HearRival(q) PROVE Same
  <2>1. PICK term \in SessionTerm .. MaxTerm, reason \in Reasons :
           UNCHANGED << log, append_rpcs >> \/ Accept(q, RivalHeartbeat(q, term), reason)
    BY <1>9, NodeHears
  <2>2. UNCHANGED commit_index
    BY <1>9, NodeHears
  <2>3. CASE UNCHANGED << log, append_rpcs >>
    BY <1>1, <2>2, <2>3
  <2>4. CASE Accept(q, RivalHeartbeat(q, term), reason)
    <3> DEFINE h == RivalHeartbeat(q, term)
    <3>1. h \in AppendEntriesRequest /\ h.to = q /\ h.stage = "Sent"
      BY RivalType DEF RivalHeartbeat
    <3> HIDE DEF h
    <3>2. Accept(q, h, reason)
      BY <2>4 DEF h
    <3>3. QED
      BY <1>7, <2>2, <3>1, <3>2
  <2>5. QED
    BY <2>1, <2>3, <2>4
<1>10. ASSUME NEW q \in Node, StoreEntries(q) PROVE Same
  <2>1. PICK m \in append_rpcs :
           /\ m.to = q
           /\ log' = [log EXCEPT ![q] = append_entries(@, m.entries)]
           /\ append_rpcs' = MoveTo(m, "Appended")
    BY <1>10 DEF StoreEntries
  <2> DEFINE r == [m EXCEPT !.stage = "Appended"]
  <2>2. r.to = q /\ r.stage = "Appended"
    BY <2>1, RequestTravels DEF SameRequest, TypeOK
  <2> HIDE DEF r
  <2>3. append_rpcs' = (append_rpcs \ {m}) \cup {r}
    BY <2>1 DEF MoveTo, r
  <2>4. q # n
    BY <2>2, <2>3 DEF Idle
  <2>5. log'[n] = log[n] /\ commit_index'[n] = commit_index[n]
    BY <1>10, <2>1, <2>4 DEF StoreEntries, TypeOK
  <2>6. Idle(n)
    BY <2>1, <2>3, <2>4 DEF Idle
  <2>7. QED
    BY <2>5, <2>6
<1>11. ASSUME NEW q \in Node, StoreCommitIndex(q), q # n PROVE Same
  <2>1. PICK m \in append_rpcs :
           /\ m.to = q
           /\ commit_index' = [commit_index EXCEPT
                                 ![q] = min(m.last_commit_index, get_last_index(log[q]))]
           /\ append_rpcs' = append_rpcs \ {m}
    BY <1>11 DEF StoreCommitIndex
  <2>2. log'[n] = log[n] /\ commit_index'[n] = commit_index[n]
    BY <1>11, <2>1 DEF StoreCommitIndex, TypeOK
  <2>3. Idle(n)
    BY <1>11, <2>1 DEF Idle
  <2>4. QED
    BY <2>2, <2>3
<1>12. ASSUME LoseMessage PROVE Same
  BY <1>1, <1>12 DEF LoseMessage, InFlight
<1>13. ASSUME UNCHANGED vars PROVE Same
  BY <1>1, <1>13 DEF vars
<1> HIDE DEF Same
<1>14. Same \/ (Idle(n) /\ ClientRequest) \/ StoreCommitIndex(n)
  BY <1>3, <1>4, <1>5, <1>6, <1>8, <1>9, <1>10, <1>11, <1>12, <1>13 DEF Next
<1>15. QED
  BY <1>14 DEF Same

\* No step raises the leader's commit index: the standby task never gets to it, and the
\* rival's heartbeats lower it.
LEMMA CommitStep ==
    ASSUME TypeInv, [Next]_vars
    PROVE  commit_index'[Leader] \in {0, commit_index[Leader]}
<1> USE DEF TypeInv, node_vars, session_vars, task_vars, net_vars
<1>1. CASE MainTask \/ SendHeartbeats
  BY <1>1 DEF MainTask, HeartbeatTimeout, ClientRequest, LeaveRole, SendHeartbeats
<1>2. CASE CollectHeartbeat
  BY <1>2 DEF CollectHeartbeat
<1>3. CASE StandbyTask
  BY <1>3, NoneAssumption
  DEF StandbyTask, StartUpdates, StandbyReceive, StandbyCommit, LockInv, LockFree
<1>4. ASSUME NEW p \in Peer, UpdateTask(p) PROVE UNCHANGED commit_index
  BY <1>4 DEF UpdateTask, CheckPeer, SendUpdate, PassAnswer, EndPause
<1>5. ASSUME NEW p \in Peer, HandleAppendEntries(p) PROVE UNCHANGED commit_index
  BY <1>5, PeerTakes
<1>6. ASSUME NEW n \in Node, HearRival(n) \/ StoreEntries(n) PROVE UNCHANGED commit_index
  BY <1>6, NodeHears DEF StoreEntries
<1>7. ASSUME NEW n \in Node, StoreCommitIndex(n)
      PROVE  commit_index'[Leader] \in {0, commit_index[Leader]}
  <2>1. PICK m \in append_rpcs :
           /\ m.to = n
           /\ commit_index' = [commit_index EXCEPT
                                 ![n] = min(m.last_commit_index, get_last_index(log[n]))]
    BY <1>7 DEF StoreCommitIndex
  <2>2. m.last_commit_index = 0 \/ n # Leader
    BY <2>1 DEF RivalInv
  <2>3. get_last_index(log[n]) \in Nat
    BY LogOperators DEF TypeOK
  <2>4. min(0, get_last_index(log[n])) = 0
    BY <2>3 DEF min
  <2>5. QED
    BY <2>1, <2>2, <2>4 DEF TypeOK, Node
<1>8. CASE LoseMessage
  BY <1>8 DEF LoseMessage
<1>9. CASE UNCHANGED vars
  BY <1>9 DEF vars
<1>10. QED
  BY <1>1, <1>2, <1>3, <1>4, <1>5, <1>6, <1>7, <1>8, <1>9 DEF Next

\* No leader of any cluster ever commits an entry.
THEOREM LeadersNeverCommit == Spec => LeaderNeverCommits
<1>1. TypeInv /\ [Next]_vars => TypeInv'
  BY TypeStep
<1>2. TypeInv /\ [Next]_vars
        => [commit_index'[Leader] <= commit_index[Leader]]_vars
  <2> SUFFICES ASSUME TypeInv, [Next]_vars
               PROVE  commit_index'[Leader] <= commit_index[Leader]
    OBVIOUS
  <2>1. commit_index[Leader] \in Nat
    BY DEF TypeInv, TypeOK, Node
  <2>2. QED
    BY <2>1, CommitStep
<1>3. QED
  BY <1>1, <1>2, TypeInit, PTL DEF Spec, LeaderNeverCommits

\* At the end of a request the commit index is within the log that the request left,
\* and between requests only a client changes a log.
LEMMA CommitStaysInLog ==
    ASSUME TypeInv, CommitIndexIsInLog, [Next]_vars
    PROVE  CommitIndexIsInLog'
<1> USE DEF TypeInv
<1> SUFFICES ASSUME NEW n \in Node, Idle(n)'
             PROVE  commit_index'[n] <= get_last_index(log'[n])
  BY DEF CommitIndexIsInLog
<1>1. commit_index[n] \in Nat /\ log[n] \in Log /\ get_last_index(log[n]) \in Nat
  BY LogOperators DEF TypeOK
<1>2. CASE Idle(n) /\ log'[n] = log[n] /\ commit_index'[n] = commit_index[n]
  BY <1>2 DEF CommitIndexIsInLog
<1>3. CASE Idle(n) /\ ClientRequest
  <2> DEFINE e == << current_term[Leader] >>
             l == append_entries(log[Leader], e)
  <2>1. e \in Log /\ Len(e) = 1 /\ log[Leader] \in Log
    BY DEF TypeOK, Node
  <2>2. log' = [log EXCEPT ![Leader] = l] /\ UNCHANGED commit_index
    BY <1>3 DEF ClientRequest
  <2> HIDE DEF e
  <2>3. Len(l) = Len(log[Leader]) + 1
    BY <2>1, LogOperators
  <2> HIDE DEF l
  <2>4. get_last_index(log'[n]) \in {get_last_index(log[n]), get_last_index(log[n]) + 1}
    BY <2>2, <2>3 DEF get_last_index, TypeOK
  <2>5. QED
    BY <1>1, <1>3, <2>2, <2>4 DEF CommitIndexIsInLog
<1>4. CASE StoreCommitIndex(n)
  <2>1. PICK c : /\ commit_index' = [commit_index EXCEPT ![n] = min(c, get_last_index(log[n]))]
                 /\ c \in Nat
                 /\ UNCHANGED log
    BY <1>4 DEF StoreCommitIndex, TypeOK, AppendEntriesRequest
  <2>2. min(c, get_last_index(log[n])) <= get_last_index(log[n])
    BY <1>1, <2>1 DEF min
  <2>3. QED
    BY <2>1, <2>2 DEF TypeOK
<1>5. QED
  BY <1>2, <1>3, <1>4, IdleStep

\* On every node the commit index is within the log whenever no request is being
\* stored, whatever requests truncate.
THEOREM CommitsStayInLogs == Spec => []CommitIndexIsInLog
<1>1. Init => CommitIndexIsInLog
  BY DEF Init, CommitIndexIsInLog, get_last_index
<1>2. TypeInv /\ CommitIndexIsInLog /\ [Next]_vars => TypeInv' /\ CommitIndexIsInLog'
  BY TypeStep, CommitStaysInLog
<1>3. QED
  BY <1>1, <1>2, TypeInit, PTL DEF Spec

-----------------------------------------------------------------------------
(***************************************************************************)
(* A leader without committed entries                                      *)
(***************************************************************************)

\* An index that has wrapped around is beyond the leader's log.
LEMMA NoEntryBeyondLog ==
    ASSUME TypeOK, FreshInv
    PROVE  ~ has_entry(log[Leader], U64Max - 1)
<1>1. Len(log[Leader]) \in Nat /\ Len(log[Leader]) <= MaxLog
  BY DEF TypeOK, FreshInv, Node
<1>2. QED
  BY <1>1, BoundAssumption, FirstEntryIndexAssumption DEF has_entry

\* A decrement takes next_index from 1 to 0 and from 0 to the maximum.
LEMMA FreshDecrement ==
    ASSUME NEW x \in {0, 1, U64Max}
    PROVE  Decremented(x) \in {0, U64Max}
<1>1. x \in Index
  BY BoundAssumption DEF Index
<1>2. Decremented(U64Max) = U64Max
  BY DEF Decremented
<1>3. QED
  BY <1>1, <1>2, DecrementType

\* Nobody sends anything but heartbeats: an update task cannot compose a request.
LEMMA FreshRequests ==
    ASSUME TypeOK, FreshInv, [Next]_vars
    PROVE  HeartbeatsOnly'
<1> SUFFICES ASSUME NEW r \in append_rpcs'
             PROVE  r.task = "heartbeat" /\ r.entries = << >>
  BY DEF HeartbeatsOnly
<1>1. CASE \E m \in append_rpcs : SameRequest(r, m)
  BY <1>1 DEF SameRequest, FreshInv, HeartbeatsOnly
<1>2. CASE \E p \in Peer : r = Heartbeat(p)
  BY <1>2 DEF Heartbeat
<1>3. ASSUME NEW p \in Peer, SendUpdate(p) PROVE CannotCompose(p)
  <2>1. next_index[p] \in {0, U64Max}
    BY <1>3 DEF SendUpdate, FreshInv
  <2>2. QED
    BY <2>1, NoEntryBeyondLog DEF CannotCompose
<1>4. CASE \E n \in Node, term \in SessionTerm .. MaxTerm :
              SameRequest(r, RivalHeartbeat(n, term))
  BY <1>4 DEF SameRequest, RivalHeartbeat
<1>5. QED
  BY <1>1, <1>2, <1>3, <1>4, RequestOrigin

\* The main loop and the heartbeat task send heartbeats and lower next_index.
LEMMA FreshLeaderTasks ==
    ASSUME TypeOK, FreshInv, HeartbeatsOnly', MainTask \/ SendHeartbeats \/ CollectHeartbeat
    PROVE  FreshInv'
<1> USE DEF node_vars, session_vars, task_vars, net_vars
<1>0. Leader \in Node /\ U64Max \in Nat /\ U64Max > 1
  BY BoundAssumption DEF Node
<1>1. CASE HeartbeatTimeout
  <2>1. append_resps' \subseteq append_resps
    BY <1>1, DroppedHeartbeats DEF HeartbeatTimeout, TypeOK
  <2>2. QED
    BY <1>1, <2>1 DEF HeartbeatTimeout, FreshInv
<1>2. CASE ClientRequest
  <2>1. << current_term[Leader] >> \in Log /\ Len(<< current_term[Leader] >>) = 1
    BY <1>0 DEF TypeOK
  <2>2. Len(append_entries(log[Leader], << current_term[Leader] >>)) = Len(log[Leader]) + 1
    BY <1>0, <2>1, LogOperators DEF TypeOK
  <2>3. Len(log[Leader]) \in Nat /\ Len(log[Leader]) < MaxLog /\ MaxLog \in Nat
    BY <1>0, <1>2, BoundAssumption DEF ClientRequest, TypeOK
  <2>4. Len(log'[Leader]) <= MaxLog
    BY <1>0, <1>2, <2>2, <2>3 DEF ClientRequest, TypeOK
  <2>5. QED
    BY <1>2, <2>4 DEF ClientRequest, FreshInv
<1>3. CASE LeaveRole
  BY <1>3 DEF LeaveRole, FreshInv
<1>4. CASE SendHeartbeats
  BY <1>4 DEF SendHeartbeats, FreshInv
<1>5. CASE CollectHeartbeat
  <2>1. PICK m \in append_resps : CollectMismatch(m) \/ CollectStaleTerm(m) \/ CollectOk(m)
    BY <1>5 DEF CollectHeartbeat
  <2>2. m.from \in Peer
    BY DEF TypeOK, AppendEntriesResponse
  <2>3. append_resps' \subseteq append_resps
    BY <2>1, DroppedHeartbeats DEF CollectMismatch, CollectStaleTerm, CollectOk, TypeOK
  <2>4. \/ UNCHANGED next_index
        \/ next_index' = [next_index EXCEPT ![m.from] = Decremented(next_index[m.from])]
    BY <2>1 DEF CollectMismatch, CollectStaleTerm, CollectOk
  <2>5. Decremented(next_index[m.from]) \in {0, U64Max}
    BY <2>2, FreshDecrement DEF FreshInv
  <2>6. \A p \in Peer : /\ next_index'[p] \in {0, 1, U64Max}
                        /\ next_index[p] # 1 => next_index'[p] # 1
    BY <1>0, <2>2, <2>4, <2>5 DEF FreshInv, TypeOK
  <2>7. QED
    BY <1>5, <2>3, <2>6 DEF CollectHeartbeat, FreshInv
<1>6. QED
  BY <1>1, <1>2, <1>3, <1>4, <1>5 DEF MainTask

\* The standby task has nothing to receive, and a peer it finds stale has a
\* next_index of 0.
LEMMA FreshStandby ==
    ASSUME TypeOK, LockInv, FreshInv, StandbyTask
    PROVE  FreshInv'
<1> USE DEF node_vars, session_vars, task_vars, net_vars
<1>1. CASE StartUpdates
  <2>1. \A p \in Peer : update'[p] # "None" => next_index[p] <= 0
    BY <1>1 DEF StartUpdates, get_stale_peers, FreshInv
  <2>2. UNCHANGED << node_vars, session_vars, net_vars >>
    BY <1>1 DEF StartUpdates
  <2>3. QED
    BY <2>1, <2>2 DEF FreshInv, HeartbeatsOnly
<1>2. CASE StandbyReceive
  BY <1>2 DEF StandbyReceive, FreshInv
<1>3. CASE StandbyCommit
  BY <1>3, NoneAssumption DEF StandbyCommit, LockInv, LockFree, FreshInv, HeartbeatsOnly
<1>4. QED
  BY <1>1, <1>2, <1>3 DEF StandbyTask

\* An update task never gets to wait for an answer.
LEMMA FreshUpdate ==
    ASSUME TypeOK, FreshInv, HeartbeatsOnly', NEW p \in Peer, UpdateTask(p)
    PROVE  FreshInv'
<1> USE DEF node_vars, session_vars, task_vars, net_vars
<1>1. CASE CheckPeer(p)
  BY <1>1 DEF CheckPeer, FreshInv, TypeOK
<1>2. CASE SendUpdate(p)
  <2>1. next_index[p] # 1
    BY <1>2 DEF SendUpdate, FreshInv
  <2>2. QED
    BY <1>2, <2>1 DEF SendUpdate, FreshInv, TypeOK
<1>3. CASE PassAnswer(p)
  BY <1>3 DEF PassAnswer, FreshInv
<1>4. CASE EndPause(p)
  BY <1>4 DEF EndPause, FreshInv, TypeOK
<1>5. QED
  BY <1>1, <1>2, <1>3, <1>4 DEF UpdateTask

\* What the leader hears from the rival does not make its log longer.
LEMMA RivalSparesLeader ==
    ASSUME TypeInv, Cluster
    PROVE  Len(log'[Leader]) <= Len(log[Leader])
<1> USE DEF TypeInv, node_vars, session_vars, task_vars, net_vars
<1>1. Len(log[Leader]) \in Nat /\ log[Leader] \in Log /\ Leader \in Node
  BY DEF TypeOK, Node
<1>2. ASSUME NEW n \in Node, NEW m, NEW reason, m.prev_log_index \in Nat,
             Refuse(n, m, reason) \/ Accept(n, m, reason)
      PROVE  Len(log'[Leader]) <= Len(log[Leader])
  <2>1. Len(remove_entries_after(log[Leader], m.prev_log_index)) <= Len(log[Leader])
    BY <1>1, <1>2 DEF remove_entries_after
  <2>2. log'[Leader] \in {log[Leader], remove_entries_after(log[Leader], m.prev_log_index)}
    BY <1>1, <1>2 DEF Refuse, Accept, TypeOK
  <2>3. QED
    BY <1>1, <2>1, <2>2
<1>3. ASSUME NEW p \in Peer, HandleAppendEntries(p) PROVE Len(log'[Leader]) <= Len(log[Leader])
  <2>1. PICK m \in append_rpcs, reason \in Reasons : Refuse(p, m, reason) \/ Accept(p, m, reason)
    BY <1>3, PeerTakes
  <2>2. m.prev_log_index \in Nat /\ p \in Node
    BY DEF TypeOK, AppendEntriesRequest, Node
  <2>3. QED
    BY <1>2, <2>1, <2>2
<1>4. ASSUME NEW n \in Node, HearRival(n) PROVE Len(log'[Leader]) <= Len(log[Leader])
  <2>1. PICK term \in SessionTerm .. MaxTerm, reason \in Reasons :
           UNCHANGED log \/ Accept(n, RivalHeartbeat(n, term), reason)
    BY <1>4, NodeHears
  <2>2. RivalHeartbeat(n, term).prev_log_index \in Nat
    BY DEF RivalHeartbeat
  <2>3. QED
    BY <1>1, <1>2, <2>1, <2>2
<1>5. ASSUME NEW n \in Node, StoreEntries(n) PROVE Len(log'[Leader]) <= Len(log[Leader])
  <2>1. PICK m \in append_rpcs :
           m.to = n /\ log' = [log EXCEPT ![n] = append_entries(@, m.entries)]
    BY <1>5 DEF StoreEntries
  <2>2. n # Leader \/ m.entries = << >>
    BY <2>1 DEF RivalInv
  <2>3. append_entries(log[Leader], << >>) = log[Leader]
    BY <1>1 DEF append_entries
  <2>4. QED
    BY <1>1, <2>1, <2>2, <2>3 DEF TypeOK
<1>6. CASE LoseMessage
  BY <1>1, <1>6 DEF LoseMessage
<1>7. ASSUME NEW n \in Node, StoreCommitIndex(n) PROVE Len(log'[Leader]) <= Len(log[Leader])
  BY <1>1, <1>7 DEF StoreCommitIndex
<1>8. QED
  BY <1>3, <1>4, <1>5, <1>6, <1>7 DEF Cluster, StoreTask

\* The cluster answers heartbeats with answers to heartbeats.
LEMMA FreshCluster ==
    ASSUME TypeInv, FreshInv, HeartbeatsOnly', Cluster
    PROVE  FreshInv'
<1> USE DEF TypeInv, node_vars, session_vars, task_vars, net_vars
<1>1. Len(log'[Leader]) <= MaxLog
  <2>1. Len(log[Leader]) \in Nat /\ Len(log'[Leader]) <= Len(log[Leader])
    BY RivalSparesLeader DEF TypeOK, Node
  <2>2. Len(log'[Leader]) \in Nat
    BY ClusterType DEF TypeOK, Node
  <2>3. QED
    BY <2>1, <2>2, BoundAssumption DEF FreshInv
<1>2. commit_index'[Leader] = 0
  BY CommitStep DEF FreshInv, Cluster, StoreTask, Next
<1>3. \A n \in Node, m \in append_rpcs, reason \in Reasons : \A r \in AnswerTo(n, m, reason) : r.task = "heartbeat"
  BY DEF AnswerTo, FreshInv, HeartbeatsOnly
<1>4. CASE LoseMessage
  <2>1. /\ append_resps' \subseteq append_resps
        /\ \A p \in Peer : update'[p] \in {update[p], "Panicked"}
        /\ UNCHANGED << session_vars, update_resps >>
    BY <1>4 DEF LoseMessage, TypeOK
  <2>2. QED
    BY <1>1, <1>2, <2>1 DEF FreshInv
<1>5. ASSUME \A m \in append_resps' : m.task = "heartbeat",
             UNCHANGED << session_vars, task_vars, update_resps >>
      PROVE  FreshInv'
  BY <1>1, <1>2, <1>5 DEF FreshInv
<1>6. ASSUME NEW p \in Peer, HandleAppendEntries(p) PROVE FreshInv'
  <2>1. PICK m \in append_rpcs, reason \in Reasons : Refuse(p, m, reason) \/ Accept(p, m, reason)
    BY <1>6, PeerTakes
  <2>2. \A r \in append_resps' : r.task = "heartbeat"
    BY <1>3, <2>1 DEF Refuse, Accept, FreshInv, Node
  <2>3. QED
    BY <1>5, <1>6, <2>2, PeerTakes
<1>7. ASSUME NEW n \in Node, HearRival(n) PROVE FreshInv'
  <2>1. UNCHANGED append_resps
    BY <1>7, NodeHears DEF Accept
  <2>2. QED
    BY <1>5, <1>7, <2>1, NodeHears DEF FreshInv
<1>8. ASSUME NEW n \in Node, StoreTask(n) PROVE FreshInv'
  <2>1. \A r \in append_resps' : r.task = "heartbeat"
    <3>1. CASE StoreEntries(n)
      BY <3>1 DEF StoreEntries, FreshInv
    <3>2. CASE StoreCommitIndex(n)
      BY <1>3, <3>2 DEF StoreCommitIndex, FreshInv, Reasons
    <3>3. QED
      BY <1>8, <3>1, <3>2 DEF StoreTask
  <2>2. UNCHANGED << session_vars, task_vars, update_resps >>
    BY <1>8 DEF StoreTask, StoreEntries, StoreCommitIndex
  <2>3. QED
    BY <1>5, <2>1, <2>2
<1>9. QED
  BY <1>4, <1>6, <1>7, <1>8 DEF Cluster

\* A leader that starts without a committed entry sends no entry to anyone.
THEOREM FreshLeadersSendHeartbeatsOnly ==
    ASSUME StoredCommits = {0}
    PROVE  Spec => []HeartbeatsOnly
<1> DEFINE I == TypeInv /\ FreshInv
<1>1. Init => I
  <2> SUFFICES ASSUME Init PROVE I
    OBVIOUS
  <2>1. commit_index[Leader] = 0 /\ next_index = [p \in Peer |-> 1]
    BY DEF Init, initialize, Node
  <2>2. Len(log[Leader]) <= MaxLog
    BY BoundAssumption DEF Init, Node
  <2>3. FreshInv
    BY <2>1, <2>2 DEF Init, FreshInv, HeartbeatsOnly
  <2>4. QED
    BY <2>3, TypeInit
<1>2. I /\ [Next]_vars => I'
  <2> SUFFICES ASSUME TypeInv, FreshInv, [Next]_vars PROVE I'
    OBVIOUS
  <2>1. TypeInv'
    BY TypeStep
  <2>2. CASE UNCHANGED vars
    BY <2>1, <2>2 DEF vars, node_vars, session_vars, task_vars, net_vars, FreshInv,
                      HeartbeatsOnly
  <2>3. TypeOK /\ LockInv /\ HeartbeatsOnly'
    BY FreshRequests DEF TypeInv
  <2>4. FreshInv'
    BY <2>2, <2>3, FreshLeaderTasks, FreshStandby, FreshUpdate, FreshCluster
    DEF Next, Cluster, StoreTask
  <2>5. QED
    BY <2>1, <2>4
<1>3. I => HeartbeatsOnly
  BY DEF FreshInv
<1>4. QED
  BY <1>1, <1>2, <1>3, PTL DEF Spec

=============================================================================
