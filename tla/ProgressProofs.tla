--------------------------- MODULE ProgressProofs ---------------------------
(***************************************************************************)
(* What a leader may believe about the progress of its peers, and what its *)
(* session still sends, for every number of peers and every log.           *)
(***************************************************************************)
EXTENDS ReplicationProofs

USE DEF Log

Terms == Nat \ {0}

-----------------------------------------------------------------------------
(***************************************************************************)
(* The operators                                                           *)
(***************************************************************************)

\* Taking from the queue of answers, adding to it and dropping it.
LEMMA Queues ==
    ASSUME TypeOK
    PROVE  /\ update_resps # << >> => Head(update_resps) \in Queued
           /\ update_resps # << >> /\ update_resps' = Tail(update_resps) => Queued' \subseteq Queued
           /\ update_resps' = << >> => Queued' = {}
           /\ update_resps' = update_resps => Queued' = Queued
           /\ \A m : update_resps' = Append(update_resps, m) => Queued' = Queued \cup {m}
<1> DEFINE q == update_resps
<1>0. q \in Seq(AppendEntriesResponse) /\ Len(q) \in Nat /\ DOMAIN q = 1 .. Len(q)
  BY DEF TypeOK
<1>1. q # << >> => Head(q) \in Queued
  <2>1. q # << >> => 1 \in DOMAIN q /\ Head(q) = q[1]
    BY <1>0, EmptySeq
  <2>2. QED
    BY <2>1 DEF Queued
<1>2. q # << >> /\ q' = Tail(q) => Queued' \subseteq Queued
  <2> SUFFICES ASSUME q # << >>, q' = Tail(q), NEW k \in DOMAIN q'
               PROVE  q'[k] \in Queued
    BY DEF Queued
  <2>1. k \in 1 .. (Len(q) - 1) /\ q'[k] = q[k + 1]
    BY <1>0, HeadTailProperties
  <2>2. k + 1 \in DOMAIN q
    BY <1>0, <2>1
  <2>3. QED
    BY <2>1, <2>2 DEF Queued
<1>3. q' = << >> => Queued' = {}
  BY DEF Queued
<1>4. q' = q => Queued' = Queued
  BY DEF Queued
<1>5. ASSUME NEW m, q' = Append(q, m) PROVE Queued' = Queued \cup {m}
  <2>1. /\ DOMAIN q' = 1 .. (Len(q) + 1)
        /\ \A k \in 1 .. Len(q) : q'[k] = q[k]
        /\ q'[Len(q) + 1] = m
    BY <1>0, <1>5
  <2>2. DOMAIN q' = DOMAIN q \cup {Len(q) + 1}
    BY <1>0, <2>1
  <2>3. QED
    BY <1>0, <2>1, <2>2 DEF Queued
<1>6. QED
  BY <1>1, <1>2, <1>3, <1>4, <1>5

\* A request is accepted by a log that is long enough.
LEMMA AcceptedKnown ==
    ASSUME NEW l \in Log, NEW t, NEW m, m.prev_log_index \in Nat,
           AppendEntriesReason(t, l, m) = "Ok"
    PROVE  /\ m.prev_log_index <= Len(l)
           /\ Len(remove_entries_after(l, m.prev_log_index)) = m.prev_log_index
<1>1. m.prev_log_index <= Len(l)
  BY DEF AppendEntriesReason, get_last_index
<1>2. QED
  BY <1>1, LogOperators

\* Where get_entry counts from 0, a node with entries refuses a heartbeat, and
\* one without has nothing to lose.
LEMMA HeartbeatSparesLog ==
    ASSUME FirstEntryIndex = 0, NEW l \in Seq(Terms), NEW t, NEW m,
           m.prev_log_index = 0, m.prev_log_term = 0,
           AppendEntriesReason(t, l, m) = "Ok"
    PROVE  remove_entries_after(l, m.prev_log_index) = l
<1>1. ~ (1 \in 1 .. Len(l) /\ l[1] # 0)
  BY DEF AppendEntriesReason, has_entry, get_entry
<1>2. Len(l) \in Nat /\ (Len(l) > 0 => l[1] # 0)
  BY DEF Terms
<1>3. Len(l) = 0
  BY <1>1, <1>2
<1>4. QED
  BY <1>3 DEF remove_entries_after

-----------------------------------------------------------------------------
(***************************************************************************)
(* Terms and heartbeats                                                    *)
(***************************************************************************)

\* Requests carry entries of positive terms, and heartbeats are what they claim.
LEMMA PositiveRequests ==
    ASSUME TypeOK, PositiveTerms, HeartbeatsAreEmpty, [Next]_vars
    PROVE  HeartbeatsAreEmpty' /\ \A r \in append_rpcs' : r.entries \in Seq(Terms)
<1> DEFINE Right(r) == /\ r.entries \in Seq(Terms)
                       /\ r.task = "heartbeat" => /\ r.prev_log_index = 0
                                                  /\ r.prev_log_term = 0
                                                  /\ r.entries = << >>
<1>0. << >> \in Seq(Terms)
  OBVIOUS
<1>1. ASSUME NEW r \in append_rpcs' PROVE Right(r)
  <2>1. ASSUME NEW m \in append_rpcs, SameRequest(r, m) PROVE Right(r)
    BY <2>1 DEF SameRequest, PositiveTerms, HeartbeatsAreEmpty, Terms
  <2>2. ASSUME NEW p \in Peer, r = Heartbeat(p) PROVE Right(r)
    BY <1>0, <2>2 DEF Heartbeat
  <2>3. ASSUME NEW p \in Peer, r = compose_append_entries_request(p) PROVE Right(r)
    <3>1. log[Leader] \in Seq(Terms) /\ next_index[p] \in Nat
      BY BoundAssumption DEF PositiveTerms, Terms, Node, TypeOK, Index
    <3>2. get_entries(log[Leader], next_index[p]) \in Seq(Terms)
      BY <3>1 DEF get_entries
    <3>3. QED
      BY <2>3, <3>2 DEF compose_append_entries_request
  <2>4. ASSUME NEW n \in Node, NEW term, SameRequest(r, RivalHeartbeat(n, term)) PROVE Right(r)
    BY <1>0, <2>4 DEF SameRequest, RivalHeartbeat
  <2> HIDE DEF Right
  <2>5. QED
    BY <2>1, <2>2, <2>3, <2>4, RequestOrigin
<1>2. QED
  BY <1>1 DEF HeartbeatsAreEmpty

\* What the leader learns from an answer is a positive term.
LEMMA LearntTerm ==
    ASSUME TypeOK, PositiveTerms, NEW m \in append_resps \cup Queued, StepDown(m.term)
    PROVE  \A n \in Node : current_term'[n] # 0
BY DEF StepDown, update_current_term, PositiveTerms, TypeOK

\* Terms of nodes and answers stay positive, and so do the terms of stored entries.
LEMMA PositiveNodes ==
    ASSUME TypeOK, PositiveTerms, MainTask \/ SendHeartbeats \/ CollectHeartbeat \/ StandbyTask
    PROVE  /\ \A n \in Node : current_term'[n] # 0 /\ log'[n] \in Seq(Terms)
           /\ \A a \in (append_resps \cup Queued)' : a.term # 0
<1> USE DEF node_vars, session_vars, task_vars, net_vars
<1> DEFINE Positive == /\ \A n \in Node : current_term'[n] # 0 /\ log'[n] \in Seq(Terms)
                       /\ \A a \in (append_resps \cup Queued)' : a.term # 0
<1>0. /\ Leader \in Node
      /\ \A n \in Node : current_term[n] \in Terms /\ log[n] \in Seq(Terms)
      /\ \A a \in append_resps \cup Queued : a.term # 0
  BY DEF PositiveTerms, Terms, Node, TypeOK
<1>1. ASSUME \A n \in Node : current_term'[n] # 0, UNCHANGED log,
             append_resps' \subseteq append_resps, Queued' \subseteq Queued
      PROVE  Positive
  BY <1>0, <1>1
<1>2. DropHeartbeatAnswers => append_resps' \subseteq append_resps
  BY DEF DropHeartbeatAnswers
<1>3. UNCHANGED update_resps => Queued' \subseteq Queued
  BY Queues
<1>4. UNCHANGED current_term => \A n \in Node : current_term'[n] # 0
  BY <1>0 DEF Terms
<1> HIDE DEF Positive
<1>5. ASSUME HeartbeatTimeout \/ LeaveRole \/ SendHeartbeats PROVE Positive
  BY <1>1, <1>2, <1>3, <1>4, <1>5 DEF HeartbeatTimeout, LeaveRole, SendHeartbeats
<1>6. ASSUME ClientRequest PROVE Positive
  <2>1. << current_term[Leader] >> \in Seq(Terms)
    BY <1>0
  <2>2. append_entries(log[Leader], << current_term[Leader] >>) \in Seq(Terms)
    BY <1>0, <2>1 DEF append_entries
  <2>3. \A n \in Node : log'[n] \in Seq(Terms)
    BY <1>0, <1>6, <2>2 DEF ClientRequest, TypeOK
  <2>4. QED
    BY <1>0, <1>3, <1>4, <1>6, <2>3 DEF ClientRequest, Positive
<1>7. ASSUME CollectHeartbeat PROVE Positive
  <2>1. PICK m \in append_resps : CollectMismatch(m) \/ CollectStaleTerm(m) \/ CollectOk(m)
    BY <1>7 DEF CollectHeartbeat
  <2>2. log' = log /\ update_resps' = update_resps
    BY <1>7 DEF CollectHeartbeat
  <2>3. \A n \in Node : current_term'[n] # 0
    BY <1>4, <2>1, LearntTerm DEF CollectMismatch, CollectStaleTerm, CollectOk
  <2>4. append_resps' \subseteq append_resps
    BY <1>2, <2>1 DEF CollectMismatch, CollectStaleTerm, CollectOk
  <2>5. QED
    BY <1>1, <1>3, <2>2, <2>3, <2>4
<1>8. ASSUME StartUpdates \/ StandbyCommit PROVE Positive
  BY <1>1, <1>3, <1>4, <1>8 DEF StartUpdates, StandbyCommit
<1>9. ASSUME StandbyReceive PROVE Positive
  <2> DEFINE m == Head(update_resps)
  <2>1. StandbyMismatch(m) \/ StandbyStaleTerm(m) \/ StandbyOk(m)
    BY <1>9 DEF StandbyReceive
  <2>2. m \in Queued /\ log' = log /\ append_resps' = append_resps /\ update_resps # << >>
    BY <1>9, Queues DEF StandbyReceive
  <2> HIDE DEF m
  <2>3. \A n \in Node : current_term'[n] # 0
    BY <1>4, <2>1, <2>2, LearntTerm DEF StandbyMismatch, StandbyStaleTerm, StandbyOk
  <2>4. Queued' \subseteq Queued
    BY <2>1, <2>2, Queues DEF StandbyMismatch, StandbyStaleTerm, StandbyOk, EndStandby
  <2>5. QED
    BY <1>1, <2>2, <2>3, <2>4
<1>10. QED
  BY <1>5, <1>6, <1>7, <1>8, <1>9 DEF MainTask, StandbyTask, Positive

\* The update tasks and the rest of the cluster keep them too.
LEMMA PositiveCluster ==
    ASSUME TypeOK, PositiveTerms, (\E p \in Peer : UpdateTask(p)) \/ Cluster
    PROVE  /\ \A n \in Node : current_term'[n] # 0 /\ log'[n] \in Seq(Terms)
           /\ \A a \in (append_resps \cup Queued)' : a.term # 0
<1> USE DEF node_vars, session_vars, task_vars, net_vars
<1> DEFINE Positive == /\ \A n \in Node : current_term'[n] # 0 /\ log'[n] \in Seq(Terms)
                       /\ \A a \in (append_resps \cup Queued)' : a.term # 0
<1>0. /\ \A n \in Node : current_term[n] \in Terms /\ log[n] \in Seq(Terms)
      /\ \A a \in append_resps \cup Queued : a.term # 0
  BY DEF PositiveTerms, Terms, TypeOK
<1>1. ASSUME UNCHANGED << current_term, log >>,
             \A a \in (append_resps \cup Queued)' : a.term # 0
      PROVE  Positive
  BY <1>0, <1>1 DEF Terms
<1>2. ASSUME UNCHANGED << current_term, log, update_resps >>,
             append_resps' \subseteq append_resps
      PROVE  Positive
  <2>1. Queued' = Queued
    BY <1>2, Queues
  <2>2. QED
    BY <1>0, <1>1, <1>2, <2>1
<1>3. ASSUME NEW n \in Node, NEW m, NEW reason, NEW a \in AnswerTo(n, m, reason)
      PROVE  a.term # 0
  BY <1>0, <1>3 DEF AnswerTo, Terms
<1>4. ASSUME NEW n \in Node, NEW m \in AppendEntriesRequest, NEW reason,
             reason = AppendEntriesReason(current_term[n], log[n], m),
             Refuse(n, m, reason) \/ Accept(n, m, reason), UNCHANGED update_resps
      PROVE  Positive
  <2>1. Queued' = Queued
    BY <1>4, Queues
  <2>2. \A a \in (append_resps \cup Queued)' : a.term # 0
    BY <1>0, <1>3, <1>4, <2>1 DEF Refuse, Accept
  <2>3. reason # "StaleTerm" => m.term # 0
    BY <1>0, <1>4 DEF AppendEntriesReason, AppendEntriesRequest, Terms
  <2>4. current_term' = current_term \/ (reason # "StaleTerm"
            /\ current_term' = [current_term EXCEPT ![n] = m.term])
    BY <1>4 DEF Refuse, Accept, update_current_term
  <2>5. \A k \in Node : current_term'[k] # 0
    BY <1>0, <2>3, <2>4 DEF Terms, TypeOK
  <2>6. remove_entries_after(log[n], m.prev_log_index) \in Seq(Terms)
    <3>1. m.prev_log_index \in Nat /\ log[n] \in Seq(Terms)
      BY <1>0 DEF AppendEntriesRequest
    <3>2. QED
      BY <3>1 DEF remove_entries_after
  <2>7. \A k \in Node : log'[k] \in Seq(Terms)
    BY <1>0, <1>4, <2>6 DEF Refuse, Accept, TypeOK
  <2>8. QED
    BY <2>2, <2>5, <2>7
<1> HIDE DEF Positive
<1>5. ASSUME NEW p \in Peer, UpdateTask(p) PROVE Positive
  <2>1. CASE CheckPeer(p) \/ EndPause(p) \/ SendUpdate(p)
    BY <1>2, <2>1 DEF CheckPeer, EndPause, SendUpdate
  <2>2. CASE PassAnswer(p)
    <3>1. PICK m \in append_resps :
             /\ append_resps' = append_resps \ {m}
             /\ update_resps' = update_resps \/ update_resps' = Append(update_resps, m)
      BY <2>2 DEF PassAnswer
    <3>2. Queued' \subseteq Queued \cup {m}
      BY <3>1, Queues
    <3>3. QED
      BY <1>0, <1>1, <2>2, <3>1, <3>2 DEF PassAnswer
  <2>3. QED
    BY <1>5, <2>1, <2>2 DEF UpdateTask
<1>6. ASSUME NEW p \in Peer, HandleAppendEntries(p) PROVE Positive
  <2>1. PICK m \in append_rpcs, reason \in Reasons :
           /\ reason = AppendEntriesReason(current_term[p], log[p], m)
           /\ Refuse(p, m, reason) \/ Accept(p, m, reason)
    BY <1>6, PeerTakes
  <2>2. m \in AppendEntriesRequest /\ p \in Node /\ UNCHANGED update_resps
    BY <1>6, PeerTakes DEF TypeOK, Node
  <2>3. QED
    BY <1>4, <2>1, <2>2
<1>7. ASSUME NEW n \in Node, HearRival(n) PROVE Positive
  <2>1. PICK term \in SessionTerm .. MaxTerm, reason \in Reasons :
           /\ reason = AppendEntriesReason(current_term[n], log[n], RivalHeartbeat(n, term))
           /\ \/ /\ term > current_term[n] \/ reason = "LogMismatch"
                 /\ update_current_term(n, term)
                 /\ UNCHANGED << log, append_rpcs, append_resps >>
              \/ Accept(n, RivalHeartbeat(n, term), reason)
    BY <1>7, NodeHears
  <2>2. UNCHANGED update_resps /\ RivalHeartbeat(n, term) \in AppendEntriesRequest
    BY <1>7, NodeHears, RivalType
  <2>3. CASE Accept(n, RivalHeartbeat(n, term), reason)
    BY <1>4, <2>1, <2>2, <2>3
  <2>4. CASE /\ term > current_term[n] \/ reason = "LogMismatch"
             /\ update_current_term(n, term)
             /\ UNCHANGED << log, append_rpcs, append_resps >>
    <3>1. RivalHeartbeat(n, term).term = term /\ term \in Nat
      BY RivalType DEF RivalHeartbeat
    <3>2. reason = "LogMismatch" => term >= current_term[n]
      BY <1>0, <2>1, <3>1 DEF AppendEntriesReason, Terms
    <3>3. term # 0
      BY <1>0, <2>4, <3>1, <3>2 DEF Terms
    <3>4. \A k \in Node : current_term'[k] # 0
      BY <1>0, <2>4, <3>3 DEF update_current_term, TypeOK, Terms
    <3>5. Queued' = Queued
      BY <2>2, Queues
    <3>6. QED
      BY <1>0, <2>4, <3>4, <3>5 DEF Positive
  <2>5. QED
    BY <2>1, <2>3, <2>4
<1>8. ASSUME NEW n \in Node, StoreEntries(n) PROVE Positive
  <2>1. PICK m \in append_rpcs : log' = [log EXCEPT ![n] = append_entries(@, m.entries)]
    BY <1>8 DEF StoreEntries
  <2>2. m.entries \in Seq(Terms) /\ log[n] \in Seq(Terms)
    BY <1>0 DEF PositiveTerms, Terms
  <2>3. append_entries(log[n], m.entries) \in Seq(Terms)
    BY <2>2 DEF append_entries
  <2>4. \A k \in Node : log'[k] \in Seq(Terms)
    BY <1>0, <2>1, <2>3 DEF TypeOK
  <2>5. UNCHANGED << current_term, append_resps, update_resps >>
    BY <1>8 DEF StoreEntries
  <2>6. Queued' = Queued
    BY <2>5, Queues
  <2>7. QED
    BY <1>0, <2>4, <2>5, <2>6 DEF Positive, Terms
<1>9. ASSUME NEW n \in Node, StoreCommitIndex(n) PROVE Positive
  <2>1. PICK m \in append_rpcs : append_resps' = append_resps \cup AnswerTo(n, m, "Ok")
    BY <1>9 DEF StoreCommitIndex
  <2>2. UNCHANGED << current_term, log, update_resps >>
    BY <1>9 DEF StoreCommitIndex
  <2>3. Queued' = Queued
    BY <2>2, Queues
  <2>4. QED
    BY <1>0, <1>1, <1>3, <2>1, <2>2, <2>3
<1>10. ASSUME LoseMessage PROVE Positive
  BY <1>2, <1>10 DEF LoseMessage
<1>11. QED
  BY <1>5, <1>6, <1>7, <1>8, <1>9, <1>10 DEF Cluster, StoreTask, Positive

\* A session of a positive term begins with positive terms.
LEMMA PositiveInit ==
    ASSUME Init, SessionTerm # 0, StoredLogs \subseteq Seq(Terms)
    PROVE  PositiveTerms /\ HeartbeatsAreEmpty
<1>1. \A n \in Node : current_term[n] # 0 /\ log[n] \in Seq(Terms)
  BY DEF Init
<1>2. Queued = {}
  BY DEF Init, Queued
<1>3. QED
  BY <1>1, <1>2 DEF Init, PositiveTerms, HeartbeatsAreEmpty, Terms

\* Every step keeps them.
LEMMA PositiveStep ==
    ASSUME TypeOK, PositiveTerms, HeartbeatsAreEmpty, [Next]_vars
    PROVE  PositiveTerms' /\ HeartbeatsAreEmpty'
<1>1. CASE UNCHANGED vars
  BY <1>1 DEF vars, node_vars, session_vars, task_vars, net_vars, PositiveTerms,
              HeartbeatsAreEmpty, Queued
<1>2. CASE Next
  <2>1. /\ \A n \in Node : current_term'[n] # 0 /\ log'[n] \in Seq(Terms)
        /\ \A a \in (append_resps \cup Queued)' : a.term # 0
    BY <1>2, PositiveNodes, PositiveCluster DEF Next, Cluster, StoreTask
  <2>2. QED
    BY <2>1, PositiveRequests DEF PositiveTerms, Terms
<1>3. QED
  BY <1>1, <1>2

-----------------------------------------------------------------------------
(***************************************************************************)
(* Storing a request                                                       *)
(***************************************************************************)

\* The requests that are being stored are those that were, or abandoned since, and
\* the logs they are stored in are left alone.
LEMMA StageKept ==
    ASSUME TypeOK, StageInv, append_rpcs' \subseteq append_rpcs \/ DropHeartbeatAnswers,
           \A m \in append_rpcs : m.stage # "Sent" => log'[m.to] = log[m.to]
    PROVE  StageInv'
<1>1. CASE append_rpcs' \subseteq append_rpcs
  BY <1>1 DEF StageInv
<1>2. CASE DropHeartbeatAnswers
  <2> DEFINE F(m) == IF m.task = "heartbeat" THEN Orphan(m) ELSE m
  <2>1. \A r \in append_rpcs' : \E m \in append_rpcs : r = F(m)
    BY <1>2 DEF DropHeartbeatAnswers
  <2>2. ASSUME NEW m \in append_rpcs
        PROVE  /\ F(m).to = m.to /\ F(m).stage = m.stage
               /\ F(m).prev_log_index = m.prev_log_index /\ F(m).entries = m.entries
    <3>1. m \in AppendEntriesRequest
      BY DEF TypeOK
    <3>2. SameRequest(Orphan(m), m) /\ Orphan(m).stage = m.stage
      BY <3>1, RequestTravels
    <3>3. QED
      BY <3>2 DEF SameRequest
  <2> HIDE DEF F
  <2>3. QED
    BY <2>1, <2>2 DEF StageInv
<1>3. QED
  BY <1>1, <1>2

\* One request moves on, and the length of its log is the one it should have.
LEMMA StageMoves ==
    ASSUME StageInv, NEW m \in AppendEntriesRequest, NEW stage \in {"Removed", "Appended"},
           append_rpcs' = MoveTo(m, stage),
           \A r \in append_rpcs : r.to = m.to /\ r.stage # "Sent" => r = m,
           \A r \in append_rpcs : r.to # m.to => log'[r.to] = log[r.to],
           Len(log'[m.to]) = m.prev_log_index + (IF stage = "Removed" THEN 0 ELSE Len(m.entries))
    PROVE  StageInv'
<1> DEFINE new == [m EXCEPT !.stage = stage]
<1>1. /\ new.to = m.to /\ new.stage = stage
      /\ new.prev_log_index = m.prev_log_index /\ new.entries = m.entries
  BY RequestTravels DEF SameRequest
<1>2. append_rpcs' = (append_rpcs \ {m}) \cup {new}
  BY DEF MoveTo
<1>3. m.prev_log_index \in Nat
  BY DEF AppendEntriesRequest
<1> HIDE DEF new
<1>4. \A r \in append_rpcs' : r.to = m.to /\ r.stage # "Sent" => r = new
  BY <1>2
<1>5. ASSUME NEW r \in append_rpcs', NEW s \in append_rpcs', r.to = s.to,
             r.stage # "Sent", s.stage # "Sent"
      PROVE  r = s
  <2>1. CASE r.to = m.to
    BY <1>4, <1>5, <2>1
  <2>2. CASE r.to # m.to
    <3>1. r \in append_rpcs /\ s \in append_rpcs
      BY <1>1, <1>2, <1>5, <2>2
    <3>2. QED
      BY <1>5, <3>1 DEF StageInv
  <2>3. QED
    BY <2>1, <2>2
<1>6. ASSUME NEW r \in append_rpcs'
      PROVE  /\ r.stage = "Removed" => Len(log'[r.to]) = r.prev_log_index
             /\ r.stage = "Appended" => Len(log'[r.to]) = r.prev_log_index + Len(r.entries)
  <2>1. CASE r = new
    BY <1>1, <1>3, <2>1
  <2>2. CASE r # new /\ r.to = m.to
    BY <1>4, <2>2
  <2>3. CASE r # new /\ r.to # m.to
    <3>1. r \in append_rpcs /\ log'[r.to] = log[r.to]
      BY <1>2, <2>3
    <3>2. QED
      BY <3>1 DEF StageInv
  <2>4. QED
    BY <2>1, <2>2, <2>3
<1>7. QED
  BY <1>5, <1>6 DEF StageInv

\* A node that accepts a request cuts its log where the request asks it to.
LEMMA StageAccept ==
    ASSUME TypeOK, StageInv, NEW n \in Node, Idle(n), NEW m \in AppendEntriesRequest, m.to = n,
           NEW reason, reason = AppendEntriesReason(current_term[n], log[n], m),
           Accept(n, m, reason)
    PROVE  StageInv' /\ Len(log'[n]) = m.prev_log_index
<1>1. log[n] \in Log /\ m.prev_log_index \in Nat
  BY DEF TypeOK, AppendEntriesRequest
<1>2. /\ log' = [log EXCEPT ![n] = remove_entries_after(@, m.prev_log_index)]
      /\ append_rpcs' = MoveTo(m, "Removed")
      /\ reason = "Ok"
  BY DEF Accept
<1>3. Len(remove_entries_after(log[n], m.prev_log_index)) = m.prev_log_index
  BY <1>1, <1>2, AcceptedKnown
<1>4. Len(log'[n]) = m.prev_log_index /\ \A k \in Node : k # n => log'[k] = log[k]
  BY <1>2, <1>3 DEF TypeOK
<1>5. \A r \in append_rpcs : r.to \in Node /\ (r.to = n => r.stage = "Sent")
  BY DEF Idle, TypeOK, AppendEntriesRequest
<1>6. StageInv'
  <2>1. \A r \in append_rpcs : r.to = m.to /\ r.stage # "Sent" => r = m
    BY <1>5
  <2>2. \A r \in append_rpcs : r.to # m.to => log'[r.to] = log[r.to]
    BY <1>4, <1>5
  <2>3. Len(log'[m.to]) = m.prev_log_index + 0
    BY <1>1, <1>4
  <2>4. QED
    BY <1>2, <2>1, <2>2, <2>3, StageMoves
<1>7. QED
  BY <1>4, <1>6

\* It appends the entries to what is left.
LEMMA StageAppend ==
    ASSUME TypeOK, StageInv, NEW n \in Node, NEW m \in append_rpcs, m.to = n,
           m.stage = "Removed",
           log' = [log EXCEPT ![n] = append_entries(@, m.entries)],
           append_rpcs' = MoveTo(m, "Appended")
    PROVE  StageInv' /\ Len(log'[n]) = LastSent(m)
<1>1. /\ log[n] \in Log /\ m \in AppendEntriesRequest
      /\ m.prev_log_index \in Nat /\ m.entries \in Log
      /\ Len(log[n]) = m.prev_log_index
  BY DEF TypeOK, AppendEntriesRequest, StageInv
<1>2. Len(append_entries(log[n], m.entries)) = LastSent(m)
  BY <1>1, LogOperators DEF LastSent
<1>3. Len(log'[n]) = LastSent(m) /\ \A k \in Node : k # n => log'[k] = log[k]
  BY <1>2 DEF TypeOK
<1>4. \A r \in append_rpcs : r.to \in Node /\ (r.to = n /\ r.stage # "Sent" => r = m)
  BY DEF StageInv, TypeOK, AppendEntriesRequest
<1>5. \A r \in append_rpcs : r.to # m.to => log'[r.to] = log[r.to]
  BY <1>3, <1>4
<1>6. Len(log'[m.to]) = m.prev_log_index + Len(m.entries)
  BY <1>3 DEF LastSent
<1>7. QED
  BY <1>1, <1>3, <1>4, <1>5, <1>6, StageMoves

\* No step changes the log of a node that stores a request, but the node itself.
LEMMA StageStep ==
    ASSUME TypeInv, StageInv, [Next]_vars
    PROVE  StageInv'
<1> USE DEF TypeInv, node_vars, session_vars, task_vars, net_vars
<1>1. ASSUME UNCHANGED log, append_rpcs' \subseteq append_rpcs \/ DropHeartbeatAnswers
      PROVE  StageInv'
  BY <1>1, StageKept
<1>2. ASSUME UNCHANGED log, \A r \in append_rpcs' : r \in append_rpcs \/ r.stage = "Sent"
      PROVE  StageInv'
  BY <1>2 DEF StageInv
<1>3. ASSUME HeartbeatTimeout \/ LeaveRole \/ CollectHeartbeat \/ StandbyTask \/ LoseMessage
             \/ UNCHANGED vars
      PROVE  StageInv'
  <2>1. UNCHANGED log
    BY <1>3 DEF HeartbeatTimeout, LeaveRole, CollectHeartbeat, StandbyTask, StartUpdates,
                StandbyReceive, StandbyCommit, LoseMessage, vars
  <2>2. append_rpcs' \subseteq append_rpcs \/ DropHeartbeatAnswers
    BY <1>3 DEF HeartbeatTimeout, LeaveRole, CollectHeartbeat, CollectMismatch, CollectStaleTerm,
                CollectOk, StandbyTask, StartUpdates, StandbyReceive, StandbyCommit, LoseMessage,
                vars
  <2>3. QED
    BY <1>1, <2>1, <2>2
<1>4. ASSUME ClientRequest PROVE StageInv'
  <2>1. /\ append_rpcs' = append_rpcs
        /\ \A n \in Node : n # Leader => log'[n] = log[n]
        /\ Idle(Leader)
    BY <1>4 DEF ClientRequest, TypeOK
  <2>2. \A m \in append_rpcs : m.to \in Node
    BY DEF TypeOK, AppendEntriesRequest
  <2>3. \A m \in append_rpcs : m.stage # "Sent" => log'[m.to] = log[m.to]
    BY <2>1, <2>2 DEF Idle
  <2>4. QED
    BY <2>1, <2>3, StageKept
<1>5. ASSUME SendHeartbeats PROVE StageInv'
  BY <1>2, <1>5 DEF SendHeartbeats, Heartbeat
<1>6. ASSUME NEW p \in Peer, UpdateTask(p) PROVE StageInv'
  <2>1. append_rpcs' \subseteq append_rpcs \cup {compose_append_entries_request(p)}
    BY <1>6 DEF UpdateTask, CheckPeer, SendUpdate, PassAnswer, EndPause
  <2>2. compose_append_entries_request(p).stage = "Sent"
    BY DEF compose_append_entries_request
  <2>3. UNCHANGED log
    BY <1>6 DEF UpdateTask, CheckPeer, SendUpdate, PassAnswer, EndPause
  <2>4. QED
    BY <1>2, <2>1, <2>2, <2>3
<1>7. ASSUME NEW p \in Peer, HandleAppendEntries(p) PROVE StageInv'
  <2>1. PICK m \in append_rpcs, reason \in Reasons :
           /\ m.to = p
           /\ reason = AppendEntriesReason(current_term[p], log[p], m)
           /\ Refuse(p, m, reason) \/ Accept(p, m, reason)
    BY <1>7, PeerTakes
  <2>2. m \in AppendEntriesRequest /\ p \in Node /\ Idle(p)
    BY <1>7, PeerTakes DEF TypeOK, Node
  <2>3. CASE Refuse(p, m, reason)
    BY <1>1, <2>3 DEF Refuse
  <2>4. CASE Accept(p, m, reason)
    BY <2>1, <2>2, <2>4, StageAccept
  <2>5. QED
    BY <2>1, <2>3, <2>4
<1>8. ASSUME NEW n \in Node, HearRival(n) PROVE StageInv'
  <2>1. PICK term \in SessionTerm .. MaxTerm, reason \in Reasons :
           /\ reason = AppendEntriesReason(current_term[n], log[n], RivalHeartbeat(n, term))
           /\ UNCHANGED << log, append_rpcs >> \/ Accept(n, RivalHeartbeat(n, term), reason)
    BY <1>8, NodeHears
  <2> DEFINE h == RivalHeartbeat(n, term)
  <2>2. h \in AppendEntriesRequest /\ h.to = n /\ Idle(n)
    BY <1>8, NodeHears, RivalType DEF RivalHeartbeat
  <2>3. reason = AppendEntriesReason(current_term[n], log[n], h)
    BY <2>1
  <2>4. UNCHANGED << log, append_rpcs >> \/ Accept(n, h, reason)
    BY <2>1
  <2> HIDE DEF h
  <2>5. QED
    BY <1>1, <2>2, <2>3, <2>4, StageAccept
<1>9. ASSUME NEW n \in Node, StoreEntries(n) PROVE StageInv'
  <2>1. PICK m \in append_rpcs :
           /\ m.to = n /\ m.stage = "Removed"
           /\ log' = [log EXCEPT ![n] = append_entries(@, m.entries)]
           /\ append_rpcs' = MoveTo(m, "Appended")
    BY <1>9 DEF StoreEntries
  <2>2. QED
    BY <2>1, StageAppend
<1>10. ASSUME NEW n \in Node, StoreCommitIndex(n) PROVE StageInv'
  BY <1>1, <1>10 DEF StoreCommitIndex
<1>11. QED
  BY <1>3, <1>4, <1>5, <1>6, <1>7, <1>8, <1>9, <1>10 DEF Next, MainTask

\* The invariants about requests, together.
RequestInv == TypeInv /\ StageInv /\ PositiveTerms /\ HeartbeatsAreEmpty

\* They hold of every session with a State whose terms are positive.
LEMMA RequestInvariant ==
    /\ Init /\ SessionTerm # 0 /\ StoredLogs \subseteq Seq(Terms) => RequestInv
    /\ RequestInv /\ [Next]_vars => RequestInv'
<1>1. ASSUME Init, SessionTerm # 0, StoredLogs \subseteq Seq(Terms) PROVE RequestInv
  <2>1. StageInv
    BY <1>1 DEF Init, StageInv
  <2>2. QED
    BY <1>1, <2>1, TypeInit, PositiveInit DEF RequestInv
<1>2. RequestInv /\ [Next]_vars => RequestInv'
  BY TypeStep, StageStep, PositiveStep DEF RequestInv, TypeInv
<1>3. QED
  BY <1>1, <1>2

-----------------------------------------------------------------------------
(***************************************************************************)
(* Logs, where get_entry counts from 0                                     *)
(***************************************************************************)

\* Accepting a heartbeat leaves the log alone.
LEMMA HeartbeatTaken ==
    ASSUME FirstEntryIndex = 0, RequestInv, NEW n \in Node, NEW m, NEW reason,
           m.prev_log_index = 0, m.prev_log_term = 0,
           reason = AppendEntriesReason(current_term[n], log[n], m), Accept(n, m, reason)
    PROVE  log' = log
<1>1. log[n] \in Seq(Terms) /\ log \in [Node -> Log]
  BY DEF RequestInv, PositiveTerms, Terms, TypeInv, TypeOK
<1>2. remove_entries_after(log[n], m.prev_log_index) = log[n]
  BY <1>1, HeartbeatSparesLog DEF Accept
<1>3. log' = [log EXCEPT ![n] = remove_entries_after(log[n], m.prev_log_index)]
  BY DEF Accept
<1>4. QED
  BY <1>1, <1>2, <1>3

\* Whatever the rival is heard to say, no log changes.
LEMMA RivalSparesLogs ==
    ASSUME FirstEntryIndex = 0, RequestInv, NEW n \in Node, HearRival(n)
    PROVE  log' = log
<1>1. PICK term \in SessionTerm .. MaxTerm, reason \in Reasons :
         /\ reason = AppendEntriesReason(current_term[n], log[n], RivalHeartbeat(n, term))
         /\ UNCHANGED log \/ Accept(n, RivalHeartbeat(n, term), reason)
  BY NodeHears
<1> DEFINE h == RivalHeartbeat(n, term)
<1>2. h.prev_log_index = 0 /\ h.prev_log_term = 0
  BY DEF RivalHeartbeat
<1>3. /\ reason = AppendEntriesReason(current_term[n], log[n], h)
      /\ UNCHANGED log \/ Accept(n, h, reason)
  BY <1>1
<1> HIDE DEF h
<1>4. QED
  BY <1>2, <1>3, HeartbeatTaken

\* Storing the entries of a heartbeat does not change the log either; those of an
\* update make it longer.
LEMMA EntriesStored ==
    ASSUME RequestInv, NEW n \in Node, NEW m \in append_rpcs, m.to = n,
           log' = [log EXCEPT ![n] = append_entries(@, m.entries)]
    PROVE  /\ m.task = "heartbeat" => log' = log
           /\ \A k \in Node : Len(log'[k]) >= Len(log[k])
           /\ \A k \in Node : k # n => log'[k] = log[k]
<1>1. /\ log \in [Node -> Log] /\ log[n] \in Log /\ m.entries \in Log
      /\ \A k \in Node : Len(log[k]) \in Nat
      /\ m.task = "heartbeat" => m.entries = << >>
  BY DEF RequestInv, TypeInv, TypeOK, AppendEntriesRequest, HeartbeatsAreEmpty
<1>2. append_entries(log[n], << >>) = log[n]
  BY <1>1 DEF append_entries
<1>3. Len(append_entries(log[n], m.entries)) >= Len(log[n])
  <2>1. Len(append_entries(log[n], m.entries)) = Len(log[n]) + Len(m.entries)
    BY <1>1, LogOperators
  <2>2. Len(m.entries) \in Nat
    BY <1>1
  <2>3. QED
    BY <1>1, <2>1, <2>2
<1>4. m.task = "heartbeat" => log' = log
  BY <1>1, <1>2
<1>5. \A k \in Node : Len(log'[k]) >= Len(log[k])
  BY <1>1, <1>3
<1>6. \A k \in Node : k # n => log'[k] = log[k]
  BY <1>1
<1>7. QED
  BY <1>4, <1>5, <1>6

\* A client's command makes the leader's log longer.
LEMMA CommandStored ==
    ASSUME TypeOK, ClientRequest
    PROVE  \A n \in Node : Len(log'[n]) >= Len(log[n])
<1>1. /\ Leader \in Node /\ log[Leader] \in Log
      /\ << current_term[Leader] >> \in Log /\ Len(<< current_term[Leader] >>) = 1
      /\ \A n \in Node : Len(log[n]) \in Nat
  BY DEF TypeOK, Node
<1>2. Len(append_entries(log[Leader], << current_term[Leader] >>)) = Len(log[Leader]) + 1
  BY <1>1, LogOperators
<1>3. \A n \in Node : Len(log'[n]) \in {Len(log[n]), Len(log[n]) + 1}
  BY <1>1, <1>2 DEF ClientRequest, TypeOK
<1>4. QED
  BY <1>1, <1>3

\* Request m is an update that node n does not refuse, and n knows the entry before
\* those that it brings.
Known(n, m) ==
    /\ m.task = "update" /\ m.to = n
    /\ current_term[n] <= m.term
    /\ has_entry(log[n], m.prev_log_index)
    /\ get_entry(log[n], m.prev_log_index) = m.prev_log_term

\* What cuts a log is an update that it knows the beginning of.
LEMMA CutsAreKnown ==
    ASSUME FirstEntryIndex = 0, RequestInv, NEW p \in Peer, HandleAppendEntries(p),
           NEW n \in Node, Len(log'[n]) < Len(log[n])
    PROVE  \E m \in append_rpcs : Known(n, m)
<1> USE DEF RequestInv, TypeInv
<1>1. PICK m \in append_rpcs, reason \in Reasons :
         /\ m.to = p
         /\ reason = AppendEntriesReason(current_term[p], log[p], m)
         /\ Refuse(p, m, reason) \/ Accept(p, m, reason)
  BY PeerTakes
<1>2. /\ p \in Node /\ log \in [Node -> Log] /\ log[n] \in Log /\ Len(log[n]) \in Nat
      /\ m.prev_log_index \in Nat /\ m.term \in Nat /\ current_term[p] \in Nat
      /\ m.task \in {"heartbeat", "update"}
  <2>1. p \in Node /\ log \in [Node -> Log] /\ m \in AppendEntriesRequest
    BY DEF Node, TypeOK
  <2>2. log[n] \in Log /\ Len(log[n]) \in Nat /\ current_term[p] \in Nat
    BY <2>1 DEF TypeOK
  <2>3. QED
    BY <2>1, <2>2 DEF AppendEntriesRequest
<1>3. Accept(p, m, reason)
  BY <1>1, <1>2 DEF Refuse
<1>4. n = p /\ log'[n] = remove_entries_after(log[p], m.prev_log_index) /\ reason = "Ok"
  BY <1>2, <1>3 DEF Accept
<1>5. m.task = "update"
  <2> SUFFICES ASSUME m.task = "heartbeat" PROVE FALSE
    BY <1>2
  <2>1. m.prev_log_index = 0 /\ m.prev_log_term = 0
    BY DEF HeartbeatsAreEmpty
  <2>2. log' = log
    BY <1>1, <1>2, <1>3, <2>1, HeartbeatTaken
  <2>3. QED
    BY <1>2, <2>2
<1>6. m.prev_log_index < Len(log[n])
  BY <1>2, <1>4 DEF remove_entries_after
<1>7. has_entry(log[n], m.prev_log_index)
  BY <1>2, <1>6 DEF has_entry
<1>8. AppendEntriesReason(current_term[n], log[n], m) = "Ok"
  BY <1>1, <1>4
<1>9. Known(n, m)
  BY <1>1, <1>2, <1>4, <1>5, <1>7, <1>8 DEF Known, AppendEntriesReason
<1>10. QED
  BY <1>9

\* Nothing else makes a log shorter.
LEMMA LogLengths ==
    ASSUME FirstEntryIndex = 0, RequestInv, [Next]_vars
    PROVE  \/ \E p \in Peer : HandleAppendEntries(p)
           \/ \A n \in Node : Len(log'[n]) >= Len(log[n])
<1> USE DEF RequestInv, TypeInv, node_vars, session_vars, task_vars, net_vars
<1> DEFINE Longer == \A n \in Node : Len(log'[n]) >= Len(log[n])
<1>0. \A n \in Node : Len(log[n]) \in Nat
  BY DEF TypeOK
<1>1. ASSUME UNCHANGED log PROVE Longer
  BY <1>0, <1>1
<1> HIDE DEF Longer
<1>2. ASSUME ClientRequest PROVE Longer
  BY <1>2, CommandStored DEF Longer
<1>3. ASSUME HeartbeatTimeout \/ LeaveRole \/ SendHeartbeats \/ CollectHeartbeat PROVE Longer
  BY <1>1, <1>3 DEF HeartbeatTimeout, LeaveRole, SendHeartbeats, CollectHeartbeat
<1>4. ASSUME StandbyTask PROVE Longer
  BY <1>1, <1>4 DEF StandbyTask, StartUpdates, StandbyReceive, StandbyCommit
<1>5. ASSUME NEW p \in Peer, UpdateTask(p) PROVE Longer
  BY <1>1, <1>5 DEF UpdateTask, CheckPeer, SendUpdate, PassAnswer, EndPause
<1>6. ASSUME NEW n \in Node, HearRival(n) PROVE Longer
  BY <1>1, <1>6, RivalSparesLogs
<1>7. ASSUME NEW n \in Node, StoreEntries(n) PROVE Longer
  <2>1. PICK m \in append_rpcs :
           m.to = n /\ log' = [log EXCEPT ![n] = append_entries(@, m.entries)]
    BY <1>7 DEF StoreEntries
  <2>2. QED
    BY <2>1, EntriesStored DEF Longer
<1>8. ASSUME NEW n \in Node, StoreCommitIndex(n) PROVE Longer
  BY <1>1, <1>8 DEF StoreCommitIndex
<1>9. ASSUME LoseMessage \/ UNCHANGED vars PROVE Longer
  BY <1>1, <1>9 DEF LoseMessage, vars
<1>10. QED
  BY <1>2, <1>3, <1>4, <1>5, <1>6, <1>7, <1>8, <1>9 DEF Next, MainTask, Longer

\* With the repository's State heartbeats erase nothing: what shortens a log is an
\* update of a current term that knew the entry it is cut at.
THEOREM HeartbeatsSpareLogs ==
    ASSUME FirstEntryIndex = 0, SessionTerm # 0, StoredLogs \subseteq Seq(Terms)
    PROVE  Spec => LogsShrinkByUpdatesOnly
<1> DEFINE A == \A n \in Node :
                   Len(log'[n]) < Len(log[n]) => \E m \in append_rpcs : Known(n, m)
<1>1. RequestInv /\ [Next]_vars => A
  <2> SUFFICES ASSUME RequestInv, [Next]_vars, NEW n \in Node, Len(log'[n]) < Len(log[n])
               PROVE  \E m \in append_rpcs : Known(n, m)
    OBVIOUS
  <2>1. Len(log[n]) \in Nat /\ Len(log'[n]) \in Nat
    BY TypeStep DEF RequestInv, TypeInv, TypeOK
  <2>2. PICK p \in Peer : HandleAppendEntries(p)
    BY <2>1, LogLengths
  <2>3. QED
    BY <2>2, CutsAreKnown
<1>2. [][A]_vars => LogsShrinkByUpdatesOnly
  BY PTL DEF LogsShrinkByUpdatesOnly, Known
<1>3. QED
  BY <1>1, <1>2, RequestInvariant, PTL DEF Spec

-----------------------------------------------------------------------------
(***************************************************************************)
(* One update at a time                                                    *)
(***************************************************************************)

\* Updates and their answers are left alone by whoever only ends heartbeats.
LEMMA HeartbeatsApart ==
    ASSUME append_rpcs \subseteq AppendEntriesRequest, DropHeartbeatAnswers, NEW p \in Peer
    PROVE  Updates(p)' = Updates(p) /\ UpdateAnswers(p)' = UpdateAnswers(p)
<1>1. \A m \in append_rpcs : Orphan(m).task = m.task
  BY RequestTravels DEF SameRequest
<1>2. QED
  BY <1>1 DEF DropHeartbeatAnswers, Updates, UpdateAnswers

\* A step that adds neither updates nor answers nor ends a call is harmless.
LEMMA OneUpdateKept ==
    ASSUME OneUpdateInv,
           \A p \in Peer : /\ Updates(p)' \subseteq Updates(p)
                           /\ UpdateAnswers(p)' \subseteq UpdateAnswers(p)
                           /\ standby' = "Starting" =>
                                 standby = "Starting" /\ (update[p] = "None" => update'[p] = "None")
                           /\ update'[p] # "Calling" =>
                                 \/ update[p] # "Calling"
                                 \/ Updates(p)' = {} /\ UpdateAnswers(p)' = {}
    PROVE  OneUpdateInv'
BY DEF OneUpdateInv

\* The leader's tasks leave the updates alone; the standby task starts them
\* before there are any.
LEMMA OneUpdateLeader ==
    ASSUME TypeOK, OneUpdateInv,
           MainTask \/ SendHeartbeats \/ CollectHeartbeat \/ StandbyTask
    PROVE  OneUpdateInv'
<1> USE DEF node_vars, session_vars, task_vars, net_vars
<1>1. ASSUME \/ append_rpcs' = append_rpcs /\ append_resps' \subseteq append_resps
             \/ DropHeartbeatAnswers,
             NEW p \in Peer
      PROVE  Updates(p)' \subseteq Updates(p) /\ UpdateAnswers(p)' \subseteq UpdateAnswers(p)
  BY <1>1, HeartbeatsApart DEF TypeOK, Updates, UpdateAnswers
<1>2. ASSUME \/ append_rpcs' = append_rpcs /\ append_resps' \subseteq append_resps
             \/ DropHeartbeatAnswers,
             update' = update,
             standby' = "Starting" => standby = "Starting"
      PROVE  OneUpdateInv'
  BY <1>1, <1>2, OneUpdateKept
<1>3. CASE HeartbeatTimeout \/ ClientRequest
  BY <1>2, <1>3 DEF HeartbeatTimeout, ClientRequest
<1>4. CASE LeaveRole
  <2>1. \A p \in Peer : /\ update'[p] # "Calling" => update[p] # "Calling"
                        /\ update[p] = "None" => update'[p] = "None"
    BY <1>4 DEF LeaveRole, TypeOK
  <2>2. QED
    BY <1>1, <1>4, <2>1, OneUpdateKept DEF LeaveRole
<1>5. CASE SendHeartbeats
  <2>1. \A p \in Peer : Updates(p)' \subseteq Updates(p)
    BY <1>5 DEF SendHeartbeats, Heartbeat, Updates
  <2>2. \A p \in Peer : UpdateAnswers(p)' \subseteq UpdateAnswers(p)
    BY <1>5 DEF SendHeartbeats, UpdateAnswers
  <2>3. QED
    BY <1>5, <2>1, <2>2, OneUpdateKept DEF SendHeartbeats
<1>6. CASE CollectHeartbeat
  <2>1. PICK m \in append_resps : CollectMismatch(m) \/ CollectStaleTerm(m) \/ CollectOk(m)
    BY <1>6 DEF CollectHeartbeat
  <2>2. update' = update /\ standby' = standby
    BY <1>6 DEF CollectHeartbeat
  <2>3. \/ append_rpcs' = append_rpcs /\ append_resps' \subseteq append_resps
        \/ DropHeartbeatAnswers
    BY <2>1 DEF CollectMismatch, CollectStaleTerm, CollectOk
  <2>4. QED
    BY <1>2, <2>2, <2>3
<1>7. CASE StartUpdates
  <2>1. \A p \in Peer : update[p] = "None" /\ Updates(p) = {} /\ UpdateAnswers(p) = {}
    BY <1>7 DEF StartUpdates, OneUpdateInv
  <2>2. \A p \in Peer : Updates(p)' = {} /\ UpdateAnswers(p)' = {}
    BY <1>7, <2>1 DEF StartUpdates, Updates, UpdateAnswers
  <2>3. standby' # "Starting"
    BY <1>7 DEF StartUpdates
  <2>4. QED
    BY <2>2, <2>3 DEF OneUpdateInv
<1>8. CASE StandbyReceive
  <2> DEFINE m == Head(update_resps)
  <2>1. StandbyMismatch(m) \/ StandbyStaleTerm(m) \/ StandbyOk(m)
    BY <1>8 DEF StandbyReceive
  <2> HIDE DEF m
  <2>2. /\ update' = update /\ standby = "Receiving"
        /\ append_rpcs' = append_rpcs /\ append_resps' = append_resps
    BY <1>8 DEF StandbyReceive
  <2>3. standby' # "Starting"
    BY <2>1, <2>2 DEF StandbyMismatch, StandbyStaleTerm, StandbyOk, EndStandby
  <2>4. QED
    BY <1>2, <2>2, <2>3
<1>9. CASE StandbyCommit
  BY <1>2, <1>9 DEF StandbyCommit
<1>10. QED
  BY <1>3, <1>4, <1>5, <1>6, <1>7, <1>8, <1>9 DEF MainTask, StandbyTask

\* An update task sends when it waits for nothing, and stops waiting when it has
\* its answer.
LEMMA OneUpdateTask ==
    ASSUME TypeOK, OneUpdateInv, NEW p \in Peer, UpdateTask(p)
    PROVE  OneUpdateInv'
<1> USE DEF node_vars, session_vars, task_vars, net_vars
<1>1. standby' = standby /\ (standby = "Starting" => update[p] = "None")
  BY DEF UpdateTask, CheckPeer, SendUpdate, PassAnswer, EndPause, OneUpdateInv
<1>2. standby # "Starting"
  BY <1>1 DEF UpdateTask, CheckPeer, SendUpdate, PassAnswer, EndPause
<1>3. CASE CheckPeer(p) \/ EndPause(p)
  <2>1. append_rpcs' = append_rpcs /\ append_resps' = append_resps
    BY <1>3 DEF CheckPeer, EndPause
  <2>2. \A q \in Peer : update'[q] # "Calling" => update[q] # "Calling"
    BY <1>3 DEF CheckPeer, EndPause, TypeOK
  <2>3. QED
    BY <1>1, <1>2, <2>1, <2>2, OneUpdateKept DEF Updates, UpdateAnswers
<1>4. CASE SendUpdate(p)
  <2>1. Updates(p) = {} /\ UpdateAnswers(p) = {}
    BY <1>4 DEF SendUpdate, OneUpdateInv
  <2>2. append_resps' = append_resps
    BY <1>4 DEF SendUpdate
  <2>3. CASE CannotCompose(p)
    <3>1. append_rpcs' = append_rpcs
      BY <1>4, <2>3 DEF SendUpdate
    <3>2. \A q \in Peer : update'[q] # "Calling" => update[q] # "Calling"
      BY <1>4, <2>3 DEF SendUpdate, TypeOK
    <3>3. QED
      BY <1>1, <1>2, <2>2, <3>1, <3>2, OneUpdateKept DEF Updates, UpdateAnswers
  <2>4. CASE ~ CannotCompose(p)
    <3> DEFINE new == compose_append_entries_request(p)
    <3>1. new.task = "update" /\ new.to = p
      BY DEF compose_append_entries_request
    <3>2. append_rpcs' = append_rpcs \cup {new} /\ update' = [update EXCEPT ![p] = "Calling"]
      BY <1>4, <2>4 DEF SendUpdate
    <3> HIDE DEF new
    <3>3. \A q \in Peer : UpdateAnswers(q)' = UpdateAnswers(q)
      BY <2>2 DEF UpdateAnswers
    <3>4. \A q \in Peer : Updates(q)' = IF q = p THEN {new} ELSE Updates(q)
      BY <2>1, <3>1, <3>2 DEF Updates
    <3>5. \A q \in Peer : update'[q] = IF q = p THEN "Calling" ELSE update[q]
      BY <3>2 DEF TypeOK
    <3>6. QED
      BY <1>1, <1>2, <2>1, <3>3, <3>4, <3>5 DEF OneUpdateInv
  <2>5. QED
    BY <2>3, <2>4
<1>5. CASE PassAnswer(p)
  <2>1. PICK m \in append_resps :
           m.task = "update" /\ m.from = p /\ append_resps' = append_resps \ {m}
    BY <1>5, Zenon DEF PassAnswer
  <2>2. append_rpcs' = append_rpcs
    BY <1>5 DEF PassAnswer
  <2>3. \E u : update' = [update EXCEPT ![p] = u]
    BY <1>5, Zenon DEF PassAnswer
  <2>4. m \in UpdateAnswers(p)
    BY <2>1 DEF UpdateAnswers
  <2>5. \A q \in Peer : /\ Updates(q)' = Updates(q)
                        /\ UpdateAnswers(q)' = UpdateAnswers(q) \ {m}
    BY <2>1, <2>2 DEF Updates, UpdateAnswers
  <2>6. Updates(p)' = {} /\ UpdateAnswers(p)' = {}
    BY <2>4, <2>5 DEF OneUpdateInv
  <2>7. QED
    BY <1>1, <1>2, <2>3, <2>5, <2>6, OneUpdateKept DEF TypeOK
<1>6. QED
  BY <1>3, <1>4, <1>5 DEF UpdateTask

\* An update that is accepted and stored is still the one update under way.
LEMMA OneUpdateMoved ==
    ASSUME OneUpdateInv, NEW m, NEW new, SameRequest(new, m),
           m.task = "update" => m \in append_rpcs,
           append_rpcs' = (append_rpcs \ {m}) \cup {new},
           UNCHANGED << standby, update, append_resps >>
    PROVE  OneUpdateInv'
<1> SUFFICES ASSUME NEW p \in Peer
             PROVE  /\ standby' = "Starting" => update'[p] = "None"
                    /\ update'[p] # "Calling" => Updates(p)' = {} /\ UpdateAnswers(p)' = {}
                    /\ \A r, s \in Updates(p)' : r = s
                    /\ \A r, s \in UpdateAnswers(p)' : r = s
                    /\ Updates(p)' = {} \/ UpdateAnswers(p)' = {}
  BY DEF OneUpdateInv
<1>1. UpdateAnswers(p)' = UpdateAnswers(p)
  BY DEF UpdateAnswers
<1>2. CASE m \in Updates(p)
  <2>1. Updates(p)' = (Updates(p) \ {m}) \cup {new}
    BY <1>2 DEF Updates, SameRequest
  <2>2. Updates(p)' = {new}
    BY <1>2, <2>1 DEF OneUpdateInv
  <2>3. QED
    BY <1>1, <1>2, <2>2 DEF OneUpdateInv
<1>3. CASE m \notin Updates(p)
  <2>1. Updates(p)' = Updates(p)
    BY <1>3 DEF Updates, SameRequest
  <2>2. QED
    BY <1>1, <2>1 DEF OneUpdateInv
<1>4. QED
  BY <1>2, <1>3

\* An answer takes the place of its update.
LEMMA OneUpdateAnswered ==
    ASSUME OneUpdateInv, NEW m \in append_rpcs, NEW reason,
           append_rpcs' = append_rpcs \ {m},
           append_resps' = append_resps \cup AnswerTo(m.to, m, reason),
           UNCHANGED << standby, update >>
    PROVE  OneUpdateInv'
<1> DEFINE p == m.to
           a == [task |-> m.task, from |-> p, term |-> current_term[p], reason |-> reason,
                 len |-> IF reason = "Ok" THEN Len(m.entries) ELSE 0]
<1>1. a.task = m.task /\ a.from = p
  OBVIOUS
<1>2. append_resps' \in {append_resps, append_resps \cup {a}}
  <2>1. AnswerTo(p, m, reason) = {a} \/ AnswerTo(p, m, reason) = {}
    BY DEF AnswerTo
  <2>2. append_resps' = append_resps \cup AnswerTo(p, m, reason)
    OBVIOUS
  <2> HIDE DEF a, p
  <2>3. QED
    BY <2>1, <2>2
<1> HIDE DEF a
<1>3. \A q \in Peer : Updates(q)' = Updates(q) \ {m}
  BY DEF Updates
<1>4. \A q \in Peer : \/ UpdateAnswers(q)' = UpdateAnswers(q)
                      \/ /\ m.task = "update" /\ q = p
                         /\ UpdateAnswers(q)' = UpdateAnswers(q) \cup {a}
  BY <1>1, <1>2 DEF UpdateAnswers
<1>5. m.task = "update" => \A q \in Peer : q = p => m \in Updates(q)
  BY DEF Updates
<1>6. QED
  BY <1>3, <1>4, <1>5 DEF OneUpdateInv

\* A peer turns the update into its answer; a lost message ends what it began.
LEMMA OneUpdateCluster ==
    ASSUME TypeOK, OneUpdateInv, Cluster
    PROVE  OneUpdateInv'
<1> USE DEF node_vars, session_vars, task_vars, net_vars
<1>0. ASSUME NEW n \in Node, NEW m \in AppendEntriesRequest, NEW reason, m.to = n,
             m.task = "update" => m \in append_rpcs,
             (Refuse(n, m, reason) /\ m \in append_rpcs) \/ Accept(n, m, reason),
             UNCHANGED << standby, update >>
      PROVE  OneUpdateInv'
  <2>1. CASE Refuse(n, m, reason) /\ m \in append_rpcs
    BY <1>0, <2>1, OneUpdateAnswered DEF Refuse
  <2>2. CASE Accept(n, m, reason)
    <3> DEFINE new == [m EXCEPT !.stage = "Removed"]
    <3>1. SameRequest(new, m)
      BY RequestTravels
    <3>2. append_rpcs' = (append_rpcs \ {m}) \cup {new} /\ append_resps' = append_resps
      BY <2>2 DEF Accept, MoveTo
    <3> HIDE DEF new
    <3>3. QED
      BY <1>0, <3>1, <3>2, OneUpdateMoved
  <2>3. QED
    BY <1>0, <2>1, <2>2
<1>1. ASSUME NEW p \in Peer, HandleAppendEntries(p) PROVE OneUpdateInv'
  <2>1. PICK m \in append_rpcs, reason \in Reasons :
           m.to = p /\ (Refuse(p, m, reason) \/ Accept(p, m, reason))
    BY <1>1, PeerTakes
  <2>2. m \in AppendEntriesRequest /\ p \in Node /\ UNCHANGED << standby, update >>
    BY <1>1, PeerTakes DEF TypeOK, Node
  <2>3. QED
    BY <1>0, <2>1, <2>2
<1>2. ASSUME NEW n \in Node, HearRival(n) PROVE OneUpdateInv'
  <2>1. PICK term \in SessionTerm .. MaxTerm, reason \in Reasons :
           \/ UNCHANGED << append_rpcs, append_resps >>
           \/ Accept(n, RivalHeartbeat(n, term), reason)
    BY <1>2, NodeHears
  <2> DEFINE h == RivalHeartbeat(n, term)
  <2>2. h \in AppendEntriesRequest /\ h.to = n /\ h.task = "heartbeat"
    BY RivalType DEF RivalHeartbeat
  <2>3. UNCHANGED << append_rpcs, append_resps >> \/ Accept(n, h, reason)
    BY <2>1
  <2>4. UNCHANGED << standby, update >>
    BY <1>2, NodeHears
  <2> HIDE DEF h
  <2>5. CASE UNCHANGED << append_rpcs, append_resps >>
    BY <2>4, <2>5, OneUpdateKept DEF Updates, UpdateAnswers
  <2>6. QED
    BY <1>0, <2>2, <2>3, <2>4, <2>5
<1>3. ASSUME NEW n \in Node, StoreEntries(n) PROVE OneUpdateInv'
  <2>1. PICK m \in append_rpcs : append_rpcs' = MoveTo(m, "Appended")
    BY <1>3 DEF StoreEntries
  <2> DEFINE new == [m EXCEPT !.stage = "Appended"]
  <2>2. m \in AppendEntriesRequest
    BY DEF TypeOK
  <2>3. SameRequest(new, m)
    BY <2>2, RequestTravels
  <2>4. append_rpcs' = (append_rpcs \ {m}) \cup {new}
    BY <2>1 DEF MoveTo
  <2>5. UNCHANGED << standby, update, append_resps >>
    BY <1>3 DEF StoreEntries
  <2> HIDE DEF new
  <2>6. QED
    BY <2>3, <2>4, <2>5, OneUpdateMoved
<1>4. ASSUME NEW n \in Node, StoreCommitIndex(n) PROVE OneUpdateInv'
  <2>1. PICK m \in append_rpcs : /\ m.to = n
                                 /\ append_rpcs' = append_rpcs \ {m}
                                 /\ append_resps' = append_resps \cup AnswerTo(n, m, "Ok")
    BY <1>4 DEF StoreCommitIndex
  <2>2. UNCHANGED << standby, update >>
    BY <1>4 DEF StoreCommitIndex
  <2>3. QED
    BY <2>1, <2>2, OneUpdateAnswered
<1>5. CASE LoseMessage
  <2>1. ASSUME NEW m \in append_rpcs, append_rpcs' = append_rpcs \ {m},
               \/ UNCHANGED update
               \/ m.task = "update" /\ update' = [update EXCEPT ![m.to] = "Panicked"],
               UNCHANGED << standby, append_resps >>
        PROVE  OneUpdateInv'
    <3>1. \A p \in Peer : /\ Updates(p)' = Updates(p) \ {m}
                          /\ UpdateAnswers(p)' = UpdateAnswers(p)
      BY <2>1 DEF Updates, UpdateAnswers
    <3>2. \A p \in Peer : update'[p] # update[p] => m \in Updates(p)
      BY <2>1 DEF TypeOK, Updates
    <3>3. \A p \in Peer : update'[p] # update[p] =>
                             /\ update[p] # "None"
                             /\ Updates(p)' = {} /\ UpdateAnswers(p)' = {}
      BY <3>1, <3>2 DEF OneUpdateInv
    <3>4. QED
      BY <2>1, <3>1, <3>3, OneUpdateKept
  <2>2. ASSUME NEW m \in append_resps, append_resps' = append_resps \ {m},
               \/ UNCHANGED update
               \/ m.task = "update" /\ update' = [update EXCEPT ![m.from] = "Panicked"],
               UNCHANGED << standby, append_rpcs >>
        PROVE  OneUpdateInv'
    <3>1. \A p \in Peer : /\ Updates(p)' = Updates(p)
                          /\ UpdateAnswers(p)' = UpdateAnswers(p) \ {m}
      BY <2>2 DEF Updates, UpdateAnswers
    <3>2. \A p \in Peer : update'[p] # update[p] => m \in UpdateAnswers(p)
      BY <2>2 DEF TypeOK, UpdateAnswers
    <3>3. \A p \in Peer : update'[p] # update[p] =>
                             /\ update[p] # "None"
                             /\ Updates(p)' = {} /\ UpdateAnswers(p)' = {}
      BY <3>1, <3>2 DEF OneUpdateInv
    <3>4. QED
      BY <2>2, <3>1, <3>3, OneUpdateKept
  <2>3. QED
    BY <1>5, <2>1, <2>2 DEF LoseMessage, InFlight
<1>6. QED
  BY <1>1, <1>2, <1>3, <1>4, <1>5 DEF Cluster, StoreTask

\* Every step keeps it, in every cluster and every build.
LEMMA OneUpdateStep ==
    ASSUME TypeOK, OneUpdateInv, [Next]_vars
    PROVE  OneUpdateInv'
<1>1. CASE UNCHANGED vars
  BY <1>1 DEF vars, node_vars, session_vars, task_vars, net_vars, OneUpdateInv, Updates,
              UpdateAnswers
<1>2. QED
  BY <1>1, OneUpdateLeader, OneUpdateTask, OneUpdateCluster DEF Next, Cluster, StoreTask

\* To a peer under way there is never more than one update of the session.
THEOREM UpdatesTakeTurns == Spec => []OneUpdateAtATime
<1>1. Init => OneUpdateInv
  BY DEF Init, OneUpdateInv, Updates, UpdateAnswers
<1>2. TypeInv /\ OneUpdateInv /\ [Next]_vars => TypeInv' /\ OneUpdateInv'
  BY TypeStep, OneUpdateStep DEF TypeInv
<1>3. TypeInv /\ OneUpdateInv => OneUpdateAtATime
  <2> SUFFICES ASSUME TypeInv, OneUpdateInv, NEW m \in append_rpcs, NEW r \in append_rpcs,
                      m.task = "update", r.task = "update", m.to = r.to
               PROVE  m = r
    BY DEF OneUpdateAtATime
  <2>1. m.to \in Peer
    BY ClusterAssumption DEF TypeInv, TypeOK, RivalInv, AppendEntriesRequest, Node
  <2>2. QED
    BY <2>1 DEF OneUpdateInv, Updates
<1>4. QED
  BY <1>1, <1>2, <1>3, TypeInit, PTL DEF Spec

-----------------------------------------------------------------------------
(***************************************************************************)
(* Silence                                                                 *)
(***************************************************************************)

\* The first answer that is counted takes the lock, and nobody gives it back.
LEMMA MatchedStep ==
    ASSUME LockInv, MatchedInv, [Next]_vars
    PROVE  MatchedInv' /\ (LockFree' => LockFree)
<1> USE DEF node_vars, session_vars, task_vars, net_vars
<1>1. ASSUME UNCHANGED << match_index, peers_writer >>
      PROVE  MatchedInv' /\ (LockFree' => LockFree)
  BY <1>1 DEF MatchedInv, LockFree
<1>2. CASE MainTask \/ SendHeartbeats \/ CollectHeartbeat
  BY <1>1, <1>2 DEF MainTask, HeartbeatTimeout, ClientRequest, LeaveRole, SendHeartbeats,
                    CollectHeartbeat
<1>3. CASE StartUpdates
  BY <1>1, <1>3 DEF StartUpdates
<1>4. CASE StandbyReceive
  <2> DEFINE m == Head(update_resps)
  <2>1. StandbyMismatch(m) \/ StandbyStaleTerm(m) \/ StandbyOk(m)
    BY <1>4 DEF StandbyReceive
  <2> HIDE DEF m
  <2>2. UNCHANGED << match_index, peers_writer >> \/ peers_writer' = "standby"
    BY <2>1 DEF StandbyMismatch, StandbyStaleTerm, StandbyOk
  <2>3. QED
    BY <1>1, <2>2, NoneAssumption DEF MatchedInv, LockFree
<1>5. CASE StandbyCommit
  <2>1. peers_writer = "standby"
    BY <1>5 DEF StandbyCommit, LockInv
  <2>2. QED
    BY <1>1, <1>5, <2>1, NoneAssumption DEF StandbyCommit, LockFree
<1>6. ASSUME NEW p \in Peer, UpdateTask(p) \/ HandleAppendEntries(p)
      PROVE  UNCHANGED << match_index, peers_writer >>
  BY <1>6, Zenon DEF UpdateTask, CheckPeer, SendUpdate, PassAnswer, EndPause,
                     HandleAppendEntries
<1>7. ASSUME NEW n \in Node, HearRival(n) \/ StoreEntries(n) \/ StoreCommitIndex(n)
      PROVE  UNCHANGED << match_index, peers_writer >>
  BY <1>7 DEF HearRival, StoreEntries, StoreCommitIndex
<1>8. CASE LoseMessage \/ UNCHANGED vars
  BY <1>1, <1>8 DEF LoseMessage, vars
<1>9. QED
  BY <1>1, <1>2, <1>3, <1>4, <1>5, <1>6, <1>7, <1>8 DEF Next, StandbyTask

\* While the map of peers is locked, nothing is sent.
LEMMA LockSilences ==
    ASSUME TypeOK, ~ LockFree, [Next]_vars
    PROVE  \A m \in append_rpcs' \ append_rpcs : m.live => m.stage # "Sent"
<1> USE DEF node_vars, session_vars, task_vars, net_vars
<1> DEFINE Silent == \A m \in append_rpcs' \ append_rpcs : m.live => m.stage # "Sent"
<1>1. ASSUME append_rpcs' \subseteq append_rpcs PROVE Silent
  BY <1>1
<1>2. ASSUME NEW m \in AppendEntriesRequest, NEW stage \in {"Removed", "Appended"},
             append_rpcs' = MoveTo(m, stage)
      PROVE  Silent
  <2>1. [m EXCEPT !.stage = stage].stage # "Sent"
    BY <1>2, RequestTravels
  <2>2. QED
    BY <1>2, <2>1 DEF MoveTo
<1> HIDE DEF Silent
<1>3. ASSUME HeartbeatTimeout PROVE Silent
  <2>1. \A m \in append_rpcs' \ append_rpcs : \E r \in append_rpcs : m = Orphan(r)
    BY <1>3 DEF HeartbeatTimeout, DropHeartbeatAnswers
  <2>2. \A r \in append_rpcs : ~ Orphan(r).live
    BY DEF Orphan, TypeOK, AppendEntriesRequest
  <2>3. QED
    BY <2>1, <2>2 DEF Silent
<1>4. ASSUME ClientRequest \/ LeaveRole \/ StandbyTask PROVE Silent
  BY <1>1, <1>4 DEF ClientRequest, LeaveRole, StandbyTask, StartUpdates, StandbyReceive,
                    StandbyCommit
<1>5. ASSUME SendHeartbeats \/ CollectHeartbeat PROVE Silent
  BY <1>5 DEF SendHeartbeats, CollectHeartbeat
<1>6. ASSUME NEW p \in Peer, UpdateTask(p) PROVE Silent
  BY <1>1, <1>6 DEF UpdateTask, CheckPeer, SendUpdate, PassAnswer, EndPause
<1>7. ASSUME NEW p \in Peer, HandleAppendEntries(p) PROVE Silent
  <2>1. PICK m \in append_rpcs, reason \in Reasons : Refuse(p, m, reason) \/ Accept(p, m, reason)
    BY <1>7, PeerTakes
  <2>2. m \in AppendEntriesRequest
    BY DEF TypeOK
  <2>3. QED
    BY <1>1, <1>2, <2>1, <2>2 DEF Refuse, Accept
<1>8. ASSUME NEW n \in Node, HearRival(n) PROVE Silent
  <2>1. PICK term \in SessionTerm .. MaxTerm, reason \in Reasons :
           UNCHANGED append_rpcs \/ Accept(n, RivalHeartbeat(n, term), reason)
    BY <1>8, NodeHears
  <2>2. QED
    BY <1>1, <1>2, <2>1, RivalType DEF Accept
<1>9. ASSUME NEW n \in Node, StoreEntries(n) PROVE Silent
  BY <1>2, <1>9 DEF StoreEntries, TypeOK
<1>10. ASSUME NEW n \in Node, StoreCommitIndex(n) PROVE Silent
  BY <1>1, <1>10 DEF StoreCommitIndex
<1>11. ASSUME LoseMessage \/ UNCHANGED vars PROVE Silent
  BY <1>1, <1>11 DEF LoseMessage, vars
<1>12. QED
  BY <1>3, <1>4, <1>5, <1>6, <1>7, <1>8, <1>9, <1>10, <1>11 DEF Next, MainTask, Silent

\* A session that has counted one update never sends anything again.
THEOREM CountingSilences == Spec => SilentAfterUpdate
<1>1. Init => TypeInv /\ MatchedInv
  BY TypeInit DEF Init, initialize, MatchedInv
<1>2. TypeInv /\ MatchedInv /\ [Next]_vars => TypeInv' /\ MatchedInv'
  BY TypeStep, MatchedStep DEF TypeInv
<1>3. TypeInv /\ MatchedInv /\ [Next]_vars
        => [(\E p \in Peer : match_index[p] # None)
               => \A m \in append_rpcs' \ append_rpcs : m.live => m.stage # "Sent"]_vars
  BY LockSilences DEF MatchedInv, TypeInv
<1>4. QED
  BY <1>1, <1>2, <1>3, PTL DEF Spec, SilentAfterUpdate

-----------------------------------------------------------------------------
(***************************************************************************)
(* Progress, where get_entry counts from 0                                 *)
(***************************************************************************)

\* Messages are well typed as far as their lengths go.
LEMMA Lengths ==
    ASSUME TypeOK, NEW p \in Peer
    PROVE  /\ Len(log[p]) \in Nat /\ Len(log[Leader]) \in Nat
           /\ next_index[p] \in Nat
           /\ match_index[p] # None => match_index[p] \in Nat
           /\ \A m \in Updates(p) : m.prev_log_index \in Nat /\ Len(m.entries) \in Nat
           /\ \A m \in Accepted(p) : m.len \in Nat
<1>1. p \in Node /\ Leader \in Node /\ Index \subseteq Nat
  BY BoundAssumption DEF Node, Index
<1>2. Updates(p) \subseteq AppendEntriesRequest /\ Accepted(p) \subseteq AppendEntriesResponse
  <2>1. Queued \subseteq AppendEntriesResponse
    <3>1. update_resps \in [1 .. Len(update_resps) -> AppendEntriesResponse]
      BY DEF TypeOK
    <3>2. QED
      BY <3>1 DEF Queued
  <2>2. QED
    BY <2>1 DEF TypeOK, Updates, UpdateAnswers, Accepted
<1>3. /\ Len(log[p]) \in Nat /\ Len(log[Leader]) \in Nat
      /\ next_index[p] \in Nat
      /\ match_index[p] # None => match_index[p] \in Nat
  <2>1. log[p] \in Log /\ log[Leader] \in Log
    BY <1>1 DEF TypeOK
  <2>2. next_index[p] \in Index /\ match_index[p] \in Index \cup {None}
    BY DEF TypeOK
  <2>3. Len(log[p]) \in Nat /\ Len(log[Leader]) \in Nat
    BY <2>1
  <2>4. next_index[p] \in Nat
    BY <1>1, <2>2
  <2>5. match_index[p] # None => match_index[p] \in Nat
    BY <1>1, <2>2
  <2>6. QED
    BY <2>3, <2>4, <2>5
<1>4. \A m \in AppendEntriesRequest : m.prev_log_index \in Nat /\ Len(m.entries) \in Nat
  BY DEF AppendEntriesRequest
<1>5. \A m \in AppendEntriesResponse : m.len \in Nat
  BY DEF AppendEntriesResponse
<1>6. QED
  BY <1>2, <1>3, <1>4, <1>5

\* The books about one peer stay right in a step that sends and counts nothing and
\* raises no index, if the peer's log keeps its length, is being cut, or has just
\* got all the entries of an update.
LEMMA PeerKept ==
    ASSUME TypeOK, TypeOK', ProgressInv, NEW p \in Peer,
           match_index'[p] = match_index[p],
           LockFree' => LockFree /\ next_index'[p] <= next_index[p],
           Len(log'[Leader]) >= Len(log[Leader]),
           \A r \in Updates(p)' : \E m \in Updates(p) : SameRequest(r, m),
           Accepted(p)' \subseteq Accepted(p),
           \/ Truncated(p)'
           \/ ~ Truncated(p) /\ Len(log'[p]) >= Len(log[p])
           \/ \E m \in Updates(p) : Len(log'[p]) = LastSent(m)
    PROVE  (LockFree' => UncountedInv(p)') /\ CountedInv(p)'
<1>1. /\ Len(log[p]) \in Nat /\ Len(log'[p]) \in Nat
      /\ Len(log[Leader]) \in Nat /\ Len(log'[Leader]) \in Nat
      /\ next_index[p] \in Nat /\ next_index'[p] \in Nat
      /\ match_index[p] # None => match_index[p] \in Nat
      /\ \A m \in Updates(p) : m.prev_log_index \in Nat /\ Len(m.entries) \in Nat
      /\ \A m \in Accepted(p) : m.len \in Nat
  <2>1. TypeOK' => /\ Len(log'[p]) \in Nat /\ Len(log'[Leader]) \in Nat
                   /\ next_index'[p] \in Nat
    BY BoundAssumption DEF TypeOK, Index, Node
  <2>2. QED
    BY <2>1, Lengths
<1>2. \A m \in Updates(p) : LastSent(m) \in Nat
  BY <1>1 DEF LastSent
<1>3. ASSUME NEW r \in Updates(p)'
      PROVE  \E m \in Updates(p) : /\ r.prev_log_index = m.prev_log_index
                                  /\ Len(r.entries) = Len(m.entries)
                                  /\ LastSent(r) = LastSent(m)
  BY DEF SameRequest, LastSent
<1>4. ASSUME NEW k \in Nat, k <= Len(log[p]) + 1 \/ Truncated(p),
             \A m \in Updates(p) : k <= LastSent(m) + 1
      PROVE  k <= Len(log'[p]) + 1 \/ Truncated(p)'
  <2>1. CASE ~ Truncated(p) /\ Len(log'[p]) >= Len(log[p])
    BY <1>1, <1>4, <2>1
  <2>2. CASE \E m \in Updates(p) : Len(log'[p]) = LastSent(m)
    BY <1>4, <2>2
  <2>3. QED
    BY <2>1, <2>2
<1>5. ASSUME UncountedInv(p), LockFree' PROVE UncountedInv(p)'
  <2>1. next_index'[p] <= next_index[p]
    BY <1>5
  <2>2. ASSUME NEW m \in Accepted(p)'
        PROVE  /\ next_index'[p] + m.len <= Len(log'[Leader])
               /\ next_index'[p] + m.len <= Len(log'[p]) + 1 \/ Truncated(p)'
               /\ \A r \in Updates(p)' : next_index'[p] + m.len <= LastSent(r) + 1
    <3>1. m \in Accepted(p) /\ m.len \in Nat
      BY <1>1
    <3> DEFINE k == next_index[p] + m.len
               l == next_index'[p] + m.len
    <3>2. /\ k <= Len(log[Leader])
          /\ k <= Len(log[p]) + 1 \/ Truncated(p)
          /\ \A r \in Updates(p) : k <= LastSent(r) + 1
      BY <1>5, <3>1 DEF UncountedInv
    <3>3. k \in Nat /\ l \in Nat /\ l <= k
      BY <1>1, <2>1, <3>1
    <3> HIDE DEF k, l
    <3>4. l <= Len(log'[Leader])
      BY <1>1, <3>2, <3>3
    <3>5. \A r \in Updates(p) : l <= LastSent(r) + 1
      BY <1>2, <3>2, <3>3
    <3>6. l <= Len(log[p]) + 1 \/ Truncated(p)
      BY <1>1, <3>2, <3>3
    <3>7. l <= Len(log'[p]) + 1 \/ Truncated(p)'
      BY <1>4, <3>3, <3>5, <3>6
    <3>8. \A r \in Updates(p)' : l <= LastSent(r) + 1
      BY <1>3, <3>5
    <3>9. QED
      BY <3>4, <3>7, <3>8 DEF l
  <2>3. ASSUME NEW r \in Updates(p)'
        PROVE  /\ next_index'[p] <= r.prev_log_index + 1
               /\ next_index'[p] + Len(r.entries) <= Len(log'[Leader])
    <3>1. PICK m \in Updates(p) : /\ r.prev_log_index = m.prev_log_index
                                  /\ Len(r.entries) = Len(m.entries)
      BY <1>3
    <3>2. /\ next_index[p] <= m.prev_log_index + 1
          /\ next_index[p] + Len(m.entries) <= Len(log[Leader])
      BY <1>5 DEF UncountedInv
    <3>3. m.prev_log_index \in Nat /\ Len(m.entries) \in Nat
      BY <1>1
    <3>4. next_index'[p] <= r.prev_log_index + 1
      BY <1>1, <2>1, <3>1, <3>2, <3>3
    <3>5. next_index'[p] + Len(m.entries) <= Len(log'[Leader])
      BY <1>1, <2>1, <3>2, <3>3
    <3>6. QED
      BY <3>1, <3>4, <3>5
  <2>4. QED
    BY <2>2, <2>3 DEF UncountedInv, LastSent
<1>6. ASSUME CountedInv(p) PROVE CountedInv(p)'
  <2> SUFFICES ASSUME match_index'[p] # None
               PROVE  /\ match_index'[p] <= Len(log'[p]) \/ Truncated(p)'
                      /\ \A r \in Updates(p)' : match_index'[p] <= LastSent(r)
    BY DEF CountedInv, LastSent
  <2> DEFINE k == match_index[p]
  <2>1. /\ k \in Nat
        /\ k <= Len(log[p]) \/ Truncated(p)
        /\ \A r \in Updates(p) : k <= LastSent(r)
    BY <1>1, <1>6 DEF CountedInv
  <2> HIDE DEF k
  <2>2. k + 1 \in Nat /\ (k + 1 <= Len(log[p]) + 1 \/ Truncated(p))
    BY <1>1, <2>1
  <2>3. \A r \in Updates(p) : k + 1 <= LastSent(r) + 1
    BY <1>2, <2>1
  <2>4. k + 1 <= Len(log'[p]) + 1 \/ Truncated(p)'
    BY <1>4, <2>2, <2>3
  <2>5. k <= Len(log'[p]) \/ Truncated(p)'
    BY <1>1, <2>1, <2>4
  <2>6. \A r \in Updates(p)' : k <= LastSent(r)
    BY <1>3, <2>1
  <2>7. QED
    BY <2>5, <2>6 DEF k
<1>7. QED
  BY <1>5, <1>6 DEF ProgressInv

\* Without a change of logs, locks and match indexes only messages and next
\* indexes matter.
LEMMA ProgressMessages ==
    ASSUME TypeOK, TypeOK', ProgressInv, log' = log,
           UNCHANGED << match_index, peers_writer >>,
           \A p \in Peer : /\ Updates(p)' \subseteq Updates(p)
                           /\ Truncated(p) => Truncated(p)'
                           /\ Accepted(p)' \subseteq Accepted(p)
                           /\ next_index'[p] <= next_index[p]
    PROVE  ProgressInv'
<1> SUFFICES ASSUME NEW p \in Peer
             PROVE  (LockFree' => UncountedInv(p)') /\ CountedInv(p)'
  BY DEF ProgressInv
<1>1. Len(log[p]) \in Nat /\ Len(log[Leader]) \in Nat
  BY Lengths
<1>2. \A r \in Updates(p)' : \E m \in Updates(p) : SameRequest(r, m)
  BY DEF SameRequest
<1>3. LockFree' => LockFree /\ next_index'[p] <= next_index[p]
  BY DEF LockFree
<1>4. QED
  BY <1>1, <1>2, <1>3, PeerKept

\* So it is where the updates stay as they are.
LEMMA ProgressQuiet ==
    ASSUME TypeOK, TypeOK', ProgressInv, log' = log,
           UNCHANGED << match_index, peers_writer >>,
           \A p \in Peer : /\ Updates(p)' = Updates(p)
                           /\ UpdateAnswers(p)' \subseteq UpdateAnswers(p)
                           /\ next_index'[p] <= next_index[p],
           Queued' \subseteq Queued
    PROVE  ProgressInv'
<1>1. \A p \in Peer : Truncated(p) => Truncated(p)'
  BY DEF Truncated, Updates
<1>2. \A p \in Peer : Accepted(p)' \subseteq Accepted(p)
  BY DEF Accepted
<1>3. QED
  BY <1>1, <1>2, ProgressMessages

\* With overflow checks a mismatch lowers an index or is not recorded.
LEMMA CheckedDecrement ==
    ASSUME OverflowChecks, NEW x \in Index, ~ Panics(x - 1)
    PROVE  Decremented(x) <= x
<1>1. x - 1 \in 0 .. U64Max /\ U64Max \in Nat
  BY BoundAssumption DEF Panics, Index
<1>2. QED
  BY <1>1 DEF Decremented, Wrapped, Index

\* The main loop and the heartbeat task send no updates; a client's request only
\* makes the leader's log longer.
LEMMA ProgressMain ==
    ASSUME OverflowChecks, TypeOK, TypeOK', ProgressInv,
           MainTask \/ SendHeartbeats \/ CollectHeartbeat
    PROVE  ProgressInv'
<1> USE DEF node_vars, session_vars, task_vars, net_vars
<1>0. /\ \A p \in Peer : next_index[p] \in Nat
      /\ update_resps' = update_resps => Queued' \subseteq Queued
  BY Lengths, Queues
<1>1. ASSUME \/ append_rpcs' = append_rpcs /\ append_resps' \subseteq append_resps
             \/ DropHeartbeatAnswers,
             NEW p \in Peer
      PROVE  Updates(p)' = Updates(p) /\ UpdateAnswers(p)' \subseteq UpdateAnswers(p)
  BY <1>1, HeartbeatsApart DEF TypeOK, Updates, UpdateAnswers
<1>2. CASE HeartbeatTimeout \/ LeaveRole
  <2>1. /\ \/ append_rpcs' = append_rpcs /\ append_resps' \subseteq append_resps
           \/ DropHeartbeatAnswers
        /\ UNCHANGED << update_resps, log, match_index, peers_writer, next_index >>
    BY <1>2 DEF HeartbeatTimeout, LeaveRole
  <2>2. \A p \in Peer : next_index'[p] <= next_index[p]
    BY <1>0, <2>1
  <2>3. QED
    BY <1>0, <1>1, <2>1, <2>2, ProgressQuiet
<1>3. CASE ClientRequest
  <2>1. UNCHANGED << append_rpcs, append_resps, update_resps, match_index, peers_writer,
                     next_index >>
    BY <1>3 DEF ClientRequest
  <2>2. \A n \in Node : Len(log'[n]) >= Len(log[n])
    BY <1>3, CommandStored
  <2>3. ASSUME NEW p \in Peer PROVE (LockFree' => UncountedInv(p)') /\ CountedInv(p)'
    <3>1. /\ Updates(p)' = Updates(p)
          /\ Accepted(p)' = Accepted(p)
          /\ Truncated(p)' = Truncated(p)
      BY <2>1 DEF Updates, UpdateAnswers, Accepted, Queued, Truncated
    <3>2. Len(log'[Leader]) >= Len(log[Leader]) /\ Len(log'[p]) >= Len(log[p])
      BY <2>2 DEF Node
    <3>3. \A r \in Updates(p)' : \E m \in Updates(p) : SameRequest(r, m)
      BY <3>1 DEF SameRequest
    <3>4. LockFree' => LockFree /\ next_index'[p] <= next_index[p]
      BY <1>0, <2>1 DEF LockFree
    <3>5. match_index'[p] = match_index[p] /\ Accepted(p)' \subseteq Accepted(p)
      BY <2>1, <3>1
    <3>6. Truncated(p)' \/ (~ Truncated(p) /\ Len(log'[p]) >= Len(log[p]))
      BY <3>1, <3>2
    <3>7. QED
      BY <3>2, <3>3, <3>4, <3>5, <3>6, PeerKept
  <2>4. QED
    BY <2>3 DEF ProgressInv
<1>4. CASE SendHeartbeats
  <2>1. \A p \in Peer : Updates(p)' = Updates(p)
    BY <1>4 DEF SendHeartbeats, Heartbeat, Updates
  <2>2. UNCHANGED << append_resps, update_resps, log, match_index, peers_writer, next_index >>
    BY <1>4 DEF SendHeartbeats
  <2>3. \A p \in Peer : /\ UpdateAnswers(p)' \subseteq UpdateAnswers(p)
                        /\ next_index'[p] <= next_index[p]
    BY <1>0, <2>2 DEF UpdateAnswers
  <2>4. QED
    BY <1>0, <2>1, <2>2, <2>3, ProgressQuiet
<1>5. CASE CollectHeartbeat
  <2>1. PICK m \in append_resps : CollectMismatch(m) \/ CollectStaleTerm(m) \/ CollectOk(m)
    BY <1>5 DEF CollectHeartbeat
  <2>2. UNCHANGED << update_resps, log, match_index, peers_writer >>
    BY <1>5 DEF CollectHeartbeat
  <2>3. \/ append_rpcs' = append_rpcs /\ append_resps' \subseteq append_resps
        \/ DropHeartbeatAnswers
    BY <2>1 DEF CollectMismatch, CollectStaleTerm, CollectOk
  <2>4. \/ UNCHANGED next_index
        \/ /\ ~ Panics(next_index[m.from] - 1)
           /\ next_index' = [next_index EXCEPT ![m.from] = Decremented(next_index[m.from])]
    BY <2>1 DEF CollectMismatch, CollectStaleTerm, CollectOk
  <2>5. m.from \in Peer /\ next_index[m.from] \in Index
    BY DEF TypeOK, AppendEntriesResponse
  <2>6. \A p \in Peer : next_index'[p] <= next_index[p]
    <3>1. CASE UNCHANGED next_index
      BY <1>0, <3>1
    <3>2. CASE /\ ~ Panics(next_index[m.from] - 1)
               /\ next_index' = [next_index EXCEPT ![m.from] = Decremented(next_index[m.from])]
      BY <1>0, <2>5, <3>2, CheckedDecrement DEF TypeOK
    <3>3. QED
      BY <2>4, <3>1, <3>2
  <2>7. QED
    BY <1>0, <1>1, <2>2, <2>3, <2>6, ProgressQuiet
<1>6. QED
  BY <1>2, <1>3, <1>4, <1>5 DEF MainTask

\* The standby task counts what the peer holds, and takes the lock.
LEMMA ProgressStandby ==
    ASSUME OverflowChecks, TypeOK, TypeOK', LockInv, MatchedInv, ProgressInv, StandbyTask
    PROVE  ProgressInv'
<1> USE DEF node_vars, session_vars, task_vars, net_vars
<1>0. /\ \A p \in Peer : next_index[p] \in Nat
      /\ update_resps' = update_resps => Queued' \subseteq Queued
  BY Lengths, Queues
<1>1. ASSUME UNCHANGED << append_rpcs, append_resps >>, NEW p \in Peer
      PROVE  Updates(p)' = Updates(p) /\ UpdateAnswers(p)' \subseteq UpdateAnswers(p)
  BY <1>1 DEF Updates, UpdateAnswers
<1>2. CASE StartUpdates
  <2>1. UNCHANGED << append_rpcs, append_resps, update_resps, log, match_index,
                     peers_writer, next_index >>
    BY <1>2 DEF StartUpdates
  <2>2. \A p \in Peer : next_index'[p] <= next_index[p]
    BY <1>0, <2>1
  <2>3. QED
    BY <1>0, <1>1, <2>1, <2>2, ProgressQuiet
<1>3. CASE StandbyReceive
  <2>1. PICK m \in Queued : StandbyMismatch(m) \/ StandbyStaleTerm(m) \/ StandbyOk(m)
    BY <1>3, Queues DEF StandbyReceive
  <2>2. UNCHANGED << log, append_rpcs, append_resps >> /\ LockFree /\ update_resps # << >>
    BY <1>3 DEF StandbyReceive
  <2>3. m \in AppendEntriesResponse
    <3>1. update_resps \in [1 .. Len(update_resps) -> AppendEntriesResponse]
      BY DEF TypeOK
    <3>2. QED
      BY <3>1 DEF Queued
  <2>4. m.from \in Peer /\ next_index[m.from] \in Index /\ m.len \in Nat
    BY <2>3 DEF TypeOK, AppendEntriesResponse
  <2>5. Queued' \subseteq Queued
    BY <2>1, <2>2, Queues DEF StandbyMismatch, StandbyStaleTerm, StandbyOk, EndStandby
  <2>6. CASE UNCHANGED << match_index, peers_writer >> /\ UNCHANGED next_index
    <3>1. \A p \in Peer : next_index'[p] <= next_index[p]
      BY <1>0, <2>6
    <3>2. QED
      BY <1>1, <2>2, <2>5, <2>6, <3>1, ProgressQuiet
  <2>7. CASE /\ UNCHANGED << match_index, peers_writer >>
             /\ ~ Panics(next_index[m.from] - 1)
             /\ next_index' = [next_index EXCEPT ![m.from] = Decremented(next_index[m.from])]
    <3>1. \A p \in Peer : next_index'[p] <= next_index[p]
      BY <1>0, <2>4, <2>7, CheckedDecrement DEF TypeOK
    <3>2. QED
      BY <1>1, <2>2, <2>5, <2>7, <3>1, ProgressQuiet
  <2>8. CASE StandbyOk(m) /\ ~ UNCHANGED << match_index, peers_writer >>
    <3> DEFINE q == m.from
               next == next_index[q] + m.len
    <3>1. /\ ~ Panics(next - 1) /\ m.reason = "Ok"
          /\ match_index' = [match_index EXCEPT ![q] = Wrapped(next - 1)]
          /\ peers_writer' = "standby"
      BY <2>8, Zenon DEF StandbyOk
    <3>2. Wrapped(next - 1) = next - 1 /\ next \in Nat
      <4>1. next \in Nat /\ next - 1 \in 0 .. U64Max /\ U64Max \in Nat
        BY <1>0, <2>4, <3>1, BoundAssumption DEF Panics, Index
      <4> HIDE DEF next
      <4>2. QED
        BY <4>1 DEF Wrapped
    <3>3. ~ LockFree' /\ q \in Peer
      BY <2>4, <3>1, NoneAssumption DEF LockFree
    <3>4. m \in Accepted(q)
      BY <3>1 DEF Accepted
    <3>5. UncountedInv(q)
      BY <2>2, <3>3 DEF ProgressInv
    <3>6. /\ next <= Len(log[q]) + 1 \/ Truncated(q)
          /\ \A r \in Updates(q) : next <= LastSent(r) + 1
      BY <3>4, <3>5 DEF UncountedInv
    <3>7. Len(log[q]) \in Nat /\ \A r \in Updates(q) : LastSent(r) \in Nat
      BY <3>3, Lengths DEF LastSent
    <3>8. Updates(q)' = Updates(q) /\ Truncated(q)' = Truncated(q)
      BY <2>2 DEF Updates, Truncated
    <3>9. match_index'[q] = next - 1
      BY <2>4, <3>1, <3>2 DEF TypeOK
    <3> HIDE DEF next, q
    <3>10. /\ next - 1 <= Len(log[q]) \/ Truncated(q)
           /\ \A r \in Updates(q) : next - 1 <= LastSent(r)
      BY <3>2, <3>6, <3>7
    <3>11. CountedInv(q)'
      BY <2>2, <3>8, <3>9, <3>10 DEF CountedInv, LastSent
    <3>12. ASSUME NEW p \in Peer, p # q PROVE CountedInv(p)'
      <4>1. match_index'[p] = match_index[p]
        BY <3>1, <3>12 DEF TypeOK
      <4>2. QED
        BY <2>2, <4>1 DEF CountedInv, LastSent, Updates, Truncated, ProgressInv
    <3>13. QED
      BY <3>3, <3>11, <3>12 DEF ProgressInv
  <2>9. CASE StandbyMismatch(m) \/ StandbyStaleTerm(m)
    BY <2>6, <2>7, <2>9 DEF StandbyMismatch, StandbyStaleTerm
  <2>10. CASE StandbyOk(m) /\ UNCHANGED << match_index, peers_writer >>
    <3>1. UNCHANGED next_index \/ peers_writer' = "standby"
      BY <2>10 DEF StandbyOk
    <3>2. peers_writer' = None
      BY <2>2, <2>10 DEF LockFree
    <3>3. QED
      BY <2>6, <2>10, <3>1, <3>2, NoneAssumption
  <2>11. QED
    BY <2>1, <2>8, <2>9, <2>10
<1>4. CASE StandbyCommit
  <2>1. peers_writer = "standby"
    BY <1>4 DEF StandbyCommit, LockInv
  <2>2. UNCHANGED << append_rpcs, append_resps, update_resps, log, match_index,
                     peers_writer, next_index >>
    BY <1>4, <2>1, NoneAssumption DEF StandbyCommit, LockFree
  <2>3. \A p \in Peer : next_index'[p] <= next_index[p]
    BY <1>0, <2>2
  <2>4. QED
    BY <1>0, <1>1, <2>2, <2>3, ProgressQuiet
<1>5. QED
  BY <1>2, <1>3, <1>4 DEF StandbyTask

\* Where get_entry counts from 0 an update ends with the leader's last entry but
\* one position early: one entry is skipped.
LEMMA ComposedUpdate ==
    ASSUME FirstEntryIndex = 0, TypeOK, NEW p \in Peer, ~ CannotCompose(p)
    PROVE  LET m == compose_append_entries_request(p)
           IN  /\ m.task = "update" /\ m.to = p
               /\ m.prev_log_index = next_index[p] - 1
               /\ next_index[p] + Len(m.entries) = Len(log[Leader])
               /\ Len(m.entries) \in Nat
<1>1. log[Leader] \in Log /\ next_index[p] \in Nat /\ next_index[p] # 0
  BY BoundAssumption DEF TypeOK, Node, Index, CannotCompose
<1>2. next_index[p] <= Len(log[Leader])
  <2>1. next_index[p] - 1 + 1 - 0 \in 1 .. Len(log[Leader])
    BY DEF CannotCompose, has_entry
  <2>2. QED
    BY <1>1, <2>1
<1>3. Len(get_entries(log[Leader], next_index[p])) = Len(log[Leader]) - next_index[p]
  BY <1>1, <1>2 DEF get_entries
<1>4. QED
  BY <1>1, <1>2, <1>3 DEF compose_append_entries_request

\* An update task sends beyond what is counted, and passes answers on.
LEMMA ProgressUpdate ==
    ASSUME FirstEntryIndex = 0, TypeOK, TypeOK', OneUpdateInv, MatchedInv, ProgressInv,
           NEW p \in Peer, UpdateTask(p)
    PROVE  ProgressInv'
<1> USE DEF node_vars, session_vars, task_vars, net_vars
<1>1. UNCHANGED << log, match_index, peers_writer, next_index >>
  BY DEF UpdateTask, CheckPeer, SendUpdate, PassAnswer, EndPause
<1>2. \A q \in Peer : next_index[q] \in Nat /\ next_index'[q] <= next_index[q]
  BY <1>1, Lengths
<1>3. ASSUME UNCHANGED << append_rpcs, append_resps, update_resps >> PROVE ProgressInv'
  <2>1. \A q \in Peer : /\ Updates(q)' = Updates(q)
                        /\ UpdateAnswers(q)' \subseteq UpdateAnswers(q)
    BY <1>3 DEF Updates, UpdateAnswers
  <2>2. Queued' \subseteq Queued
    BY <1>3 DEF Queued
  <2>3. QED
    BY <1>1, <1>2, <2>1, <2>2, ProgressQuiet
<1>4. CASE CheckPeer(p) \/ EndPause(p)
  BY <1>3, <1>4 DEF CheckPeer, EndPause
<1>5. CASE SendUpdate(p)
  <2>1. UNCHANGED << append_resps, update_resps >> /\ LockFree
    BY <1>5 DEF SendUpdate
  <2>2. CASE CannotCompose(p)
    BY <1>3, <1>5, <2>1, <2>2 DEF SendUpdate
  <2>3. CASE ~ CannotCompose(p)
    <3> DEFINE new == compose_append_entries_request(p)
    <3>1. append_rpcs' = append_rpcs \cup {new}
      BY <1>5, <2>3 DEF SendUpdate
    <3>2. /\ new.task = "update" /\ new.to = p /\ new.prev_log_index = next_index[p] - 1
          /\ next_index[p] + Len(new.entries) = Len(log[Leader])
          /\ Len(new.entries) \in Nat
      BY <2>3, ComposedUpdate
    <3> HIDE DEF new
    <3>3. \A q \in Peer : Accepted(q)' = Accepted(q) /\ (Truncated(q) => Truncated(q)')
      BY <2>1, <3>1 DEF UpdateAnswers, Accepted, Queued, Truncated
    <3>4. \A q \in Peer : Updates(q)' = IF q = p THEN Updates(q) \cup {new} ELSE Updates(q)
      BY <3>1, <3>2 DEF Updates
    <3>5. Updates(p)' = {new}
      BY <1>5, <3>4 DEF SendUpdate, OneUpdateInv
    <3>6. \A q \in Peer : match_index'[q] = None
      BY <1>1, <2>1 DEF MatchedInv
    <3>7. UncountedInv(p)'
      <4>1. UncountedInv(p)
        BY <2>1 DEF ProgressInv
      <4>2. ASSUME NEW m \in Accepted(p)
            PROVE  /\ next_index[p] + m.len <= Len(log[Leader])
                   /\ next_index[p] + m.len <= Len(log[p]) + 1 \/ Truncated(p)
                   /\ next_index[p] + m.len <= LastSent(new) + 1
        <5>1. /\ next_index[p] + m.len <= Len(log[Leader])
              /\ next_index[p] + m.len <= Len(log[p]) + 1 \/ Truncated(p)
          BY <4>1 DEF UncountedInv
        <5>2. LastSent(new) + 1 = Len(log[Leader])
          BY <1>2, <3>2 DEF LastSent
        <5>3. QED
          BY <5>1, <5>2
      <4>3. next_index[p] <= new.prev_log_index + 1
        BY <1>2, <3>2
      <4>4. next_index[p] + Len(new.entries) <= Len(log[Leader])
        BY <3>2, Lengths
      <4>5. ASSUME NEW m \in Accepted(p)'
            PROVE  /\ next_index'[p] + m.len <= Len(log'[Leader])
                   /\ next_index'[p] + m.len <= Len(log'[p]) + 1 \/ Truncated(p)'
                   /\ \A r \in Updates(p)' : next_index'[p] + m.len <= LastSent(r) + 1
        BY <1>1, <3>3, <3>5, <4>2
      <4>6. QED
        BY <1>1, <3>5, <4>3, <4>4, <4>5 DEF UncountedInv, LastSent
    <3>8. ASSUME NEW q \in Peer, q # p PROVE UncountedInv(q)'
      BY <1>1, <2>1, <3>3, <3>4, <3>8 DEF ProgressInv, UncountedInv, LastSent
    <3>9. QED
      BY <3>6, <3>7, <3>8 DEF ProgressInv, CountedInv
  <2>4. QED
    BY <2>2, <2>3
<1>6. CASE PassAnswer(p)
  <2>1. append_rpcs' = append_rpcs
    BY <1>6 DEF PassAnswer
  <2>2. PICK m \in append_resps :
           /\ m.task = "update" /\ m.from = p
           /\ append_resps' = append_resps \ {m}
           /\ update_resps' = update_resps \/ update_resps' = Append(update_resps, m)
    BY <1>6 DEF PassAnswer
  <2>3. Queued' \subseteq Queued \cup {m}
    BY <2>2, Queues
  <2>4. m \in UpdateAnswers(p)
    BY <2>2 DEF UpdateAnswers
  <2>5. \A q \in Peer : Accepted(q)' \subseteq Accepted(q)
    BY <2>2, <2>3, <2>4 DEF Accepted, UpdateAnswers
  <2>6. \A q \in Peer : Updates(q)' \subseteq Updates(q) /\ (Truncated(q) => Truncated(q)')
    BY <2>1 DEF Updates, Truncated
  <2>7. QED
    BY <1>1, <1>2, <2>5, <2>6, ProgressMessages
<1>7. QED
  BY <1>4, <1>5, <1>6 DEF UpdateTask

\* A request that is refused, or lost on its way, leaves nothing to count.
LEMMA ProgressDropped ==
    ASSUME TypeOK, TypeOK', ProgressInv, NEW m \in append_rpcs, m.stage = "Sent",
           append_rpcs' = append_rpcs \ {m}, log' = log,
           UNCHANGED << session_vars, update_resps >>,
           \A a \in append_resps' : a \in append_resps \/ a.reason # "Ok"
    PROVE  ProgressInv'
<1> USE DEF session_vars
<1>1. \A q \in Peer : /\ Updates(q)' \subseteq Updates(q)
                      /\ Truncated(q) => Truncated(q)'
                      /\ Accepted(q)' \subseteq Accepted(q)
  BY DEF Updates, Truncated, Accepted, UpdateAnswers, Queued
<1>2. \A q \in Peer : next_index'[q] <= next_index[q]
  BY Lengths
<1>3. QED
  BY <1>1, <1>2, ProgressMessages

\* An update that is accepted or stored leaves its peer's log cut, or with all the
\* update's entries.
LEMMA ProgressMoved ==
    ASSUME TypeOK, TypeOK', ProgressInv, NEW p \in Peer, NEW m \in Updates(p),
           NEW new, SameRequest(new, m),
           append_rpcs' = (append_rpcs \ {m}) \cup {new},
           new.stage = "Removed" \/ Len(log'[p]) = LastSent(m),
           \A n \in Node : n # p => log'[n] = log[n],
           UNCHANGED << session_vars, append_resps, update_resps >>
    PROVE  ProgressInv'
<1> USE DEF session_vars
<1>1. m.task = "update" /\ m.to = p /\ new.task = "update" /\ new.to = p
  BY DEF Updates, SameRequest
<1>2. p \in Node /\ Leader \in Node /\ p # Leader
  BY ClusterAssumption DEF Node
<1>3. ASSUME NEW q \in Peer PROVE (LockFree' => UncountedInv(q)') /\ CountedInv(q)'
  <2>1. /\ Accepted(q)' \subseteq Accepted(q)
        /\ match_index'[q] = match_index[q]
    BY DEF Accepted, UpdateAnswers, Queued
  <2>2. LockFree' => LockFree /\ next_index'[q] <= next_index[q]
    BY Lengths DEF LockFree
  <2>3. Len(log'[Leader]) >= Len(log[Leader])
    BY <1>2, Lengths
  <2>4. \A r \in Updates(q)' : \E s \in Updates(q) : SameRequest(r, s)
    BY <1>1 DEF Updates, SameRequest
  <2>5. \/ Truncated(q)'
        \/ ~ Truncated(q) /\ Len(log'[q]) >= Len(log[q])
        \/ \E s \in Updates(q) : Len(log'[q]) = LastSent(s)
    <3>1. CASE q = p
      BY <1>1, <3>1 DEF Truncated
    <3>2. CASE q # p
      <4>1. log'[q] = log[q] /\ Len(log[q]) \in Nat
        BY <3>2, Lengths DEF Node
      <4>2. Truncated(q) => Truncated(q)'
        BY <1>1, <3>2 DEF Truncated
      <4>3. QED
        BY <4>1, <4>2
    <3>3. QED
      BY <3>1, <3>2
  <2>6. QED
    BY <2>1, <2>2, <2>3, <2>4, <2>5, PeerKept
<1>4. QED
  BY <1>3 DEF ProgressInv

\* A heartbeat that goes on its way is nothing to the books.
LEMMA ProgressHeartbeat ==
    ASSUME TypeOK, TypeOK', ProgressInv, NEW m, NEW new, SameRequest(new, m),
           m.task = "heartbeat", log' = log,
           \/ append_rpcs' = (append_rpcs \ {m}) \cup {new}
           \/ append_rpcs' = append_rpcs \ {m}
           \/ append_rpcs' = append_rpcs,
           \A a \in append_resps' : a \in append_resps \/ a.task = "heartbeat",
           UNCHANGED << session_vars, update_resps >>
    PROVE  ProgressInv'
<1> USE DEF session_vars
<1>1. \A q \in Peer : Updates(q)' = Updates(q)
  BY DEF Updates, SameRequest
<1>2. \A q \in Peer : /\ UpdateAnswers(q)' \subseteq UpdateAnswers(q)
                      /\ next_index'[q] <= next_index[q]
  BY Lengths DEF UpdateAnswers
<1>3. Queued' \subseteq Queued
  BY DEF Queued
<1>4. QED
  BY <1>1, <1>2, <1>3, ProgressQuiet

\* A peer takes a request.
LEMMA ProgressHandling ==
    ASSUME FirstEntryIndex = 0, RequestInv, TypeOK', ProgressInv,
           NEW p \in Peer, HandleAppendEntries(p)
    PROVE  ProgressInv'
<1> USE DEF RequestInv, TypeInv
<1>1. PICK m \in append_rpcs, reason \in Reasons :
         /\ m.to = p
         /\ reason = AppendEntriesReason(current_term[p], log[p], m)
         /\ Refuse(p, m, reason) \/ Accept(p, m, reason)
  BY PeerTakes
<1>2. /\ m \in AppendEntriesRequest /\ p \in Node /\ m.stage = "Sent"
      /\ UNCHANGED << session_vars, update_resps >>
  BY <1>1, PeerTakes DEF TypeOK, Node, Idle
<1>3. CASE Refuse(p, m, reason)
  <2>1. \A a \in AnswerTo(p, m, reason) : a.reason # "Ok"
    BY <1>3 DEF AnswerTo, Refuse
  <2>2. QED
    BY <1>2, <1>3, <2>1, ProgressDropped DEF Refuse
<1>4. CASE Accept(p, m, reason)
  <2> DEFINE new == [m EXCEPT !.stage = "Removed"]
  <2>1. SameRequest(new, m) /\ new.stage = "Removed"
    BY <1>2, RequestTravels
  <2>2. append_rpcs' = (append_rpcs \ {m}) \cup {new} /\ append_resps' = append_resps
    BY <1>4 DEF Accept, MoveTo
  <2> HIDE DEF new
  <2>3. CASE m.task = "heartbeat"
    <3>1. m.prev_log_index = 0 /\ m.prev_log_term = 0
      BY <2>3 DEF HeartbeatsAreEmpty
    <3>2. log' = log
      BY <1>1, <1>2, <1>4, <3>1, HeartbeatTaken
    <3>3. QED
      BY <1>2, <2>1, <2>2, <2>3, <3>2, ProgressHeartbeat
  <2>4. CASE m.task = "update"
    <3>1. m \in Updates(p)
      BY <1>1, <2>4 DEF Updates
    <3>2. \A n \in Node : n # p => log'[n] = log[n]
      BY <1>2, <1>4 DEF Accept, TypeOK
    <3>3. QED
      BY <1>2, <2>1, <2>2, <3>1, <3>2, ProgressMoved
  <2>5. QED
    BY <1>2, <2>3, <2>4 DEF AppendEntriesRequest
<1>5. QED
  BY <1>1, <1>3, <1>4

\* It stores the entries.
LEMMA ProgressStored ==
    ASSUME FirstEntryIndex = 0, RequestInv, TypeOK', ProgressInv,
           NEW n \in Node, StoreEntries(n)
    PROVE  ProgressInv'
<1> USE DEF RequestInv, TypeInv
<1>1. PICK m \in append_rpcs :
         /\ m.to = n /\ m.stage = "Removed"
         /\ log' = [log EXCEPT ![n] = append_entries(@, m.entries)]
         /\ append_rpcs' = MoveTo(m, "Appended")
  BY DEF StoreEntries
<1>2. UNCHANGED << session_vars, append_resps, update_resps >>
  BY DEF StoreEntries
<1>3. m \in AppendEntriesRequest /\ m.task \in {"heartbeat", "update"}
  BY DEF TypeOK, AppendEntriesRequest
<1> DEFINE new == [m EXCEPT !.stage = "Appended"]
<1>4. SameRequest(new, m)
  BY <1>3, RequestTravels
<1>5. append_rpcs' = (append_rpcs \ {m}) \cup {new}
  BY <1>1 DEF MoveTo
<1> HIDE DEF new
<1>6. /\ m.task = "heartbeat" => log' = log
      /\ \A k \in Node : k # n => log'[k] = log[k]
  BY <1>1, EntriesStored
<1>7. CASE m.task = "heartbeat"
  BY <1>2, <1>4, <1>5, <1>6, <1>7, ProgressHeartbeat
<1>8. CASE m.task = "update"
  <2>1. n \in Peer /\ m \in Updates(n)
    BY <1>1, <1>8 DEF RivalInv, Node, Updates
  <2>2. Len(log'[n]) = LastSent(m)
    BY <1>1, StageAppend
  <2>3. QED
    BY <1>2, <1>4, <1>5, <1>6, <2>1, <2>2, ProgressMoved
<1>9. QED
  BY <1>3, <1>7, <1>8

\* It answers: the answer to an update will be counted for what its log holds.
LEMMA ProgressAnswered ==
    ASSUME RequestInv, TypeOK', OneUpdateInv, ProgressInv, NEW n \in Node, StoreCommitIndex(n)
    PROVE  ProgressInv'
<1> USE DEF RequestInv, TypeInv, session_vars
<1>1. PICK m \in append_rpcs :
         /\ m.to = n /\ m.stage = "Appended"
         /\ append_rpcs' = append_rpcs \ {m}
         /\ append_resps' = append_resps \cup AnswerTo(n, m, "Ok")
  BY DEF StoreCommitIndex
<1>2. UNCHANGED << log, session_vars, update_resps >>
  BY DEF StoreCommitIndex
<1>3. m \in AppendEntriesRequest /\ m.task \in {"heartbeat", "update"}
  BY DEF TypeOK, AppendEntriesRequest
<1> DEFINE a == [task |-> m.task, from |-> n, term |-> current_term[n], reason |-> "Ok",
                 len |-> Len(m.entries)]
<1>4. AnswerTo(n, m, "Ok") \subseteq {a}
  BY DEF AnswerTo
<1>5. a.task = m.task /\ a.from = n /\ a.reason = "Ok" /\ a.len = Len(m.entries)
  OBVIOUS
<1> HIDE DEF a
<1>6. CASE m.task = "heartbeat"
  <2>1. \A b \in append_resps' : b \in append_resps \/ b.task = "heartbeat"
    BY <1>1, <1>4, <1>5, <1>6
  <2>2. SameRequest(m, m)
    BY DEF SameRequest
  <2>3. QED
    BY <1>1, <1>2, <1>6, <2>1, <2>2, ProgressHeartbeat
<1>7. CASE m.task = "update"
  <2>1. n \in Peer /\ m \in Updates(n)
    BY <1>1, <1>7 DEF RivalInv, Node, Updates
  <2>2. \A q \in Peer : Updates(q)' = Updates(q) \ {m}
    BY <1>1 DEF Updates
  <2>3. Updates(n)' = {} /\ ~ Truncated(n)
    <3>1. Updates(n) = {m}
      BY <2>1 DEF OneUpdateInv
    <3>2. QED
      BY <1>1, <2>1, <2>2, <3>1 DEF Updates, Truncated
  <2>4. Len(log[n]) = LastSent(m)
    BY <1>1 DEF StageInv, LastSent
  <2>5. Accepted(n)' \subseteq Accepted(n) \cup {a}
    BY <1>1, <1>2, <1>4 DEF Accepted, UpdateAnswers, Queued
  <2>6. ASSUME NEW q \in Peer, q # n PROVE (LockFree' => UncountedInv(q)') /\ CountedInv(q)'
    <3>1. Updates(q)' \subseteq Updates(q)
      BY <2>2
    <3>2. Accepted(q)' \subseteq Accepted(q)
      BY <1>1, <1>2, <1>4, <1>5, <2>6 DEF Accepted, UpdateAnswers, Queued
    <3>3. Truncated(q) => Truncated(q)'
      BY <1>1, <2>6 DEF Truncated
    <3>4. (LockFree => UncountedInv(q)) /\ CountedInv(q)
      BY DEF ProgressInv
    <3>5. QED
      BY <1>2, <3>1, <3>2, <3>3, <3>4 DEF UncountedInv, CountedInv, LastSent, LockFree
  <2>7. CountedInv(n)'
    BY <1>2, <2>1, <2>3, <2>4 DEF CountedInv, ProgressInv
  <2>8. ASSUME LockFree' PROVE UncountedInv(n)'
    <3>1. UncountedInv(n)
      BY <1>2, <2>1, <2>8 DEF ProgressInv, LockFree
    <3>2. /\ next_index[n] <= m.prev_log_index + 1
          /\ next_index[n] + Len(m.entries) <= Len(log[Leader])
          /\ next_index[n] \in Nat /\ m.prev_log_index \in Nat /\ Len(m.entries) \in Nat
      BY <2>1, <3>1, Lengths DEF UncountedInv
    <3>3. /\ next_index[n] + a.len <= Len(log[Leader])
          /\ next_index[n] + a.len <= Len(log[n]) + 1
      BY <1>5, <2>4, <3>2 DEF LastSent
    <3>4. ASSUME NEW r \in Accepted(n)
          PROVE  /\ next_index[n] + r.len <= Len(log[Leader])
                 /\ next_index[n] + r.len <= Len(log[n]) + 1
      BY <2>3, <3>1 DEF UncountedInv
    <3>5. QED
      BY <1>2, <2>3, <2>5, <3>3, <3>4 DEF UncountedInv
  <2>9. QED
    BY <2>6, <2>7, <2>8 DEF ProgressInv
<1>8. QED
  BY <1>3, <1>6, <1>7

\* Every step keeps the leader's books within the peers' logs.
LEMMA ProgressStep ==
    ASSUME FirstEntryIndex = 0, OverflowChecks, RequestInv, OneUpdateInv, MatchedInv,
           ProgressInv, [Next]_vars
    PROVE  ProgressInv'
<1> USE DEF RequestInv, TypeInv, node_vars, task_vars, net_vars
<1>0. TypeOK'
  BY TypeStep
<1>1. CASE UNCHANGED vars
  BY <1>1 DEF vars, session_vars, ProgressInv, LockFree, UncountedInv, CountedInv, Truncated,
              LastSent, Updates, UpdateAnswers, Accepted, Queued
<1>2. ASSUME NEW n \in Node, HearRival(n) PROVE ProgressInv'
  <2>1. PICK term \in SessionTerm .. MaxTerm, reason \in Reasons :
           \/ UNCHANGED << append_rpcs, append_resps >>
           \/ Accept(n, RivalHeartbeat(n, term), reason)
    BY <1>2, NodeHears
  <2>2. UNCHANGED << session_vars, update_resps >> /\ log' = log
    BY <1>2, NodeHears, RivalSparesLogs
  <2> DEFINE h == RivalHeartbeat(n, term)
             new == [h EXCEPT !.stage = "Removed"]
  <2>3. h \in AppendEntriesRequest /\ h.task = "heartbeat"
    BY RivalType DEF RivalHeartbeat
  <2>4. \/ UNCHANGED << append_rpcs, append_resps >>
        \/ append_rpcs' = (append_rpcs \ {h}) \cup {new} /\ UNCHANGED append_resps
    BY <2>1 DEF Accept, MoveTo
  <2> HIDE DEF h
  <2>5. SameRequest(new, h)
    BY <2>3, RequestTravels
  <2> HIDE DEF new
  <2>6. QED
    BY <1>0, <2>2, <2>3, <2>4, <2>5, ProgressHeartbeat
<1>3. CASE LoseMessage
  <2>1. UNCHANGED << log, session_vars, update_resps >>
    BY <1>3 DEF LoseMessage
  <2>2. ASSUME NEW m \in append_rpcs, m.stage = "Sent", append_rpcs' = append_rpcs \ {m},
               UNCHANGED append_resps
        PROVE  ProgressInv'
    BY <1>0, <2>1, <2>2, ProgressDropped
  <2>3. ASSUME append_resps' \subseteq append_resps, UNCHANGED append_rpcs PROVE ProgressInv'
    <3>1. \A q \in Peer : /\ Updates(q)' = Updates(q)
                          /\ UpdateAnswers(q)' \subseteq UpdateAnswers(q)
                          /\ next_index'[q] <= next_index[q]
      BY <2>1, <2>3, Lengths DEF Updates, UpdateAnswers, session_vars
    <3>2. Queued' \subseteq Queued
      BY <2>1 DEF Queued
    <3>3. QED
      BY <1>0, <2>1, <3>1, <3>2, ProgressQuiet DEF session_vars
  <2>4. QED
    BY <1>3, <2>2, <2>3 DEF LoseMessage, InFlight
<1>4. QED
  BY <1>0, <1>1, <1>2, <1>3, ProgressMain, ProgressStandby, ProgressUpdate, ProgressHandling,
     ProgressStored, ProgressAnswered
  DEF Next

\* With the repository's State, in a build with overflow checks.
LEMMA ZeroBasedMatches ==
    ASSUME FirstEntryIndex = 0, OverflowChecks, SessionTerm # 0, StoredLogs \subseteq Seq(Terms)
    PROVE  Spec => []MatchIndexReplicated
<1> DEFINE I == RequestInv /\ OneUpdateInv /\ MatchedInv /\ ProgressInv
<1>1. Init => I
  <2> SUFFICES ASSUME Init PROVE I
    OBVIOUS
  <2>1. \A p \in Peer : match_index[p] = None /\ Updates(p) = {} /\ Accepted(p) = {}
                        /\ UpdateAnswers(p) = {}
    BY DEF Init, initialize, Updates, UpdateAnswers, Accepted, Queued
  <2>2. OneUpdateInv /\ MatchedInv /\ ProgressInv
    BY <2>1 DEF Init, OneUpdateInv, MatchedInv, ProgressInv, UncountedInv, CountedInv
  <2>3. QED
    BY <2>2, RequestInvariant
<1>2. I /\ [Next]_vars => I'
  BY RequestInvariant, OneUpdateStep, MatchedStep, ProgressStep DEF RequestInv, TypeInv
<1>3. I => MatchIndexReplicated
  BY DEF ProgressInv, CountedInv, MatchIndexReplicated, get_last_index
<1>4. QED
  BY <1>1, <1>2, <1>3, PTL DEF Spec

-----------------------------------------------------------------------------
(***************************************************************************)
(* Progress, where get_entry counts from 1                                 *)
(***************************************************************************)

\* Nobody refuses a heartbeat for its log.
LEMMA HeartbeatMatches ==
    ASSUME FirstEntryIndex = 1, NEW l \in Log, NEW t, NEW req, req.prev_log_index = 0
    PROVE  AppendEntriesReason(t, l, req) # "LogMismatch"
BY DEF AppendEntriesReason, get_last_index, has_entry

\* Requests stay heartbeats.
LEMMA OneBasedRequests ==
    ASSUME TypeInv, OneBasedInv, [Next]_vars
    PROVE  HeartbeatsOnly' /\ \A r \in append_rpcs' : r.prev_log_index = 0
<1> DEFINE Right(r) == r.task = "heartbeat" /\ r.entries = << >> /\ r.prev_log_index = 0
<1>1. ASSUME NEW r \in append_rpcs' PROVE Right(r)
  <2>1. ASSUME NEW m \in append_rpcs, SameRequest(r, m) PROVE Right(r)
    BY <2>1 DEF SameRequest, OneBasedInv, HeartbeatsOnly
  <2>2. ASSUME NEW p \in Peer, r = Heartbeat(p) PROVE Right(r)
    BY <2>2 DEF Heartbeat
  <2>3. ASSUME NEW p \in Peer, SendUpdate(p) PROVE FALSE
    BY <2>3 DEF SendUpdate, OneBasedInv
  <2>4. ASSUME NEW n \in Node, NEW term, SameRequest(r, RivalHeartbeat(n, term)) PROVE Right(r)
    BY <2>4 DEF SameRequest, RivalHeartbeat
  <2> HIDE DEF Right
  <2>5. QED
    BY <2>1, <2>2, <2>3, <2>4, RequestOrigin DEF TypeInv
<1>2. QED
  BY <1>1 DEF HeartbeatsOnly

\* No next_index is lowered, no update started and none counted.
LEMMA OneBasedStep ==
    ASSUME FirstEntryIndex = 1, TypeInv, OneBasedInv, [Next]_vars
    PROVE  OneBasedInv'
<1> USE DEF TypeInv, node_vars, session_vars, task_vars, net_vars
<1>0. /\ HeartbeatsOnly' /\ \A r \in append_rpcs' : r.prev_log_index = 0
      /\ \A p \in Peer : next_index[p] > commit_index'[Leader]
  <2>1. commit_index[Leader] \in Nat /\ \A p \in Peer : next_index[p] \in Nat
    BY Lengths DEF TypeOK, Node
  <2>2. commit_index'[Leader] \in Nat /\ commit_index'[Leader] <= commit_index[Leader]
    BY <2>1, CommitStep
  <2>3. QED
    BY <2>1, <2>2, OneBasedRequests DEF OneBasedInv
<1>1. ASSUME UNCHANGED << next_index, match_index, update, update_resps >>,
             \A a \in append_resps' :
                a \in append_resps \/ (a.task = "heartbeat" /\ a.reason # "LogMismatch")
      PROVE  OneBasedInv'
  BY <1>0, <1>1 DEF OneBasedInv
<1>2. CASE HeartbeatTimeout \/ ClientRequest
  BY <1>1, <1>2 DEF HeartbeatTimeout, ClientRequest, DropHeartbeatAnswers
<1>3. CASE LeaveRole
  <2>1. update' = update
    BY <1>3 DEF LeaveRole, TypeOK, OneBasedInv
  <2>2. QED
    BY <1>1, <1>3, <2>1 DEF LeaveRole
<1>4. CASE SendHeartbeats
  BY <1>1, <1>4 DEF SendHeartbeats
<1>5. CASE CollectHeartbeat
  <2>1. PICK m \in append_resps : CollectStaleTerm(m) \/ CollectOk(m)
    BY <1>5 DEF CollectHeartbeat, CollectMismatch, OneBasedInv
  <2>2. UNCHANGED << next_index, match_index, update, update_resps >>
    BY <1>5, <2>1 DEF CollectHeartbeat, CollectStaleTerm, CollectOk
  <2>3. append_resps' \subseteq append_resps
    BY <2>1 DEF CollectStaleTerm, CollectOk, DropHeartbeatAnswers
  <2>4. QED
    BY <1>1, <2>2, <2>3
<1>6. CASE StartUpdates
  <2>1. get_stale_peers = {}
    <3>1. commit_index[Leader] \in Nat /\ \A p \in Peer : next_index[p] \in Nat
      BY Lengths DEF TypeOK, Node
    <3>2. QED
      BY <3>1 DEF get_stale_peers, OneBasedInv
  <2>2. update' = update
    BY <1>6, <2>1 DEF StartUpdates, TypeOK, OneBasedInv
  <2>3. QED
    BY <1>1, <1>6, <2>2 DEF StartUpdates
<1>7. CASE StandbyReceive
  BY <1>7 DEF StandbyReceive, OneBasedInv
<1>8. CASE StandbyCommit
  BY <1>1, <1>8 DEF StandbyCommit
<1>9. ASSUME NEW p \in Peer, UpdateTask(p) PROVE FALSE
  BY <1>9 DEF UpdateTask, CheckPeer, SendUpdate, PassAnswer, EndPause, OneBasedInv
<1>10. ASSUME NEW p \in Peer, HandleAppendEntries(p) PROVE OneBasedInv'
  <2>1. PICK m \in append_rpcs, reason \in Reasons :
           /\ reason = AppendEntriesReason(current_term[p], log[p], m)
           /\ Refuse(p, m, reason) \/ Accept(p, m, reason)
    BY <1>10, PeerTakes
  <2>2. m.task = "heartbeat" /\ m.prev_log_index = 0 /\ log[p] \in Log
    BY DEF OneBasedInv, HeartbeatsOnly, TypeOK, Node
  <2>3. reason # "LogMismatch"
    BY <2>1, <2>2, HeartbeatMatches
  <2>4. \A a \in AnswerTo(p, m, reason) : a.task = "heartbeat" /\ a.reason # "LogMismatch"
    BY <2>2, <2>3 DEF AnswerTo
  <2>5. UNCHANGED << next_index, match_index, update, update_resps >>
    BY <1>10, PeerTakes
  <2>6. QED
    BY <1>1, <2>1, <2>4, <2>5 DEF Refuse, Accept
<1>11. ASSUME NEW n \in Node, HearRival(n) PROVE OneBasedInv'
  BY <1>1, <1>11 DEF HearRival, Accept
<1>12. ASSUME NEW n \in Node, StoreEntries(n) PROVE OneBasedInv'
  BY <1>1, <1>12 DEF StoreEntries
<1>13. ASSUME NEW n \in Node, StoreCommitIndex(n) PROVE OneBasedInv'
  <2>1. PICK m \in append_rpcs : append_resps' = append_resps \cup AnswerTo(n, m, "Ok")
    BY <1>13 DEF StoreCommitIndex
  <2>2. \A a \in AnswerTo(n, m, "Ok") : a.task = "heartbeat" /\ a.reason # "LogMismatch"
    BY DEF AnswerTo, OneBasedInv, HeartbeatsOnly
  <2>3. QED
    BY <1>1, <1>13, <2>1, <2>2 DEF StoreCommitIndex
<1>14. CASE LoseMessage
  <2>1. update' = update
    BY <1>14 DEF LoseMessage, OneBasedInv, HeartbeatsOnly, InFlight
  <2>2. QED
    BY <1>1, <1>14, <2>1 DEF LoseMessage
<1>15. CASE UNCHANGED vars
  BY <1>1, <1>15 DEF vars
<1>16. QED
  BY <1>2, <1>3, <1>4, <1>5, <1>6, <1>7, <1>8, <1>9, <1>10, <1>11, <1>12, <1>13, <1>14, <1>15
  DEF Next, MainTask, StandbyTask

\* The session begins without messages, and every next_index is beyond the
\* commit index.
LEMMA OneBasedInit == Init => OneBasedInv
<1> SUFFICES ASSUME Init PROVE OneBasedInv
  OBVIOUS
<1>1. commit_index[Leader] \in Nat /\ next_index = [p \in Peer |-> commit_index[Leader] + 1]
  BY TypeInit DEF TypeInv, TypeOK, Init, initialize, Node
<1>2. QED
  BY <1>1 DEF Init, initialize, OneBasedInv, HeartbeatsOnly

\* On a State that counts entries from 1, as the trait asks, a leader never sends
\* an entry to anyone, whatever is committed.
THEOREM OneBasedLeadersSendHeartbeatsOnly ==
    ASSUME FirstEntryIndex = 1
    PROVE  Spec => []HeartbeatsOnly
<1>1. TypeInv /\ OneBasedInv /\ [Next]_vars => TypeInv' /\ OneBasedInv'
  BY TypeStep, OneBasedStep
<1>2. OneBasedInv => HeartbeatsOnly
  BY DEF OneBasedInv
<1>3. QED
  BY <1>1, <1>2, TypeInit, OneBasedInit, PTL DEF Spec

\* For either State: what a leader in a build with overflow checks counts as
\* replicated is in the peer's log.
THEOREM MatchesAreReplicated ==
    ASSUME OverflowChecks, SessionTerm # 0, StoredLogs \subseteq Seq(Terms)
    PROVE  Spec => []MatchIndexReplicated
<1>1. ASSUME FirstEntryIndex = 1 PROVE Spec => []MatchIndexReplicated
  <2>1. TypeInv /\ OneBasedInv /\ [Next]_vars => TypeInv' /\ OneBasedInv'
    BY <1>1, TypeStep, OneBasedStep
  <2>2. OneBasedInv => MatchIndexReplicated
    BY DEF OneBasedInv, MatchIndexReplicated
  <2>3. QED
    BY <2>1, <2>2, TypeInit, OneBasedInit, PTL DEF Spec
<1>2. QED
  BY <1>1, ZeroBasedMatches, FirstEntryIndexAssumption

=============================================================================
