---------------------------- MODULE TimersProofs ----------------------------
(***************************************************************************)
(* Proofs about Timers, for every cluster and all durations.               *)
(***************************************************************************)
EXTENDS Timers, TLAPS

LEMMA FreshTimers ==
    /\ start(heartbeat_interval) \in Timeout
    /\ \A t \in start_range :
          t \in [elapsed : Nat, interval : Interval] /\ t.elapsed = 0 /\ ~ IsOverdue(t)
    /\ start(ElectionMin) \in start_range
BY TimersAssumption DEF start_range, start, Timeout, Interval, IsOverdue

LEMMA Broadcasts ==
    ASSUME NEW n \in Node, NEW kind \in {"AppendEntries", "RequestVote"}
    PROVE  Broadcast(n, kind) \subseteq [to : Node, kind : {kind}, age : {0}]
BY DEF Broadcast, RpcTo

-----------------------------------------------------------------------------

LEMMA InitTypes == Init => TypeOK
<1> SUFFICES ASSUME Init PROVE TypeOK
  OBVIOUS
<1>1. election \in [Node -> [elapsed : Nat, interval : Interval]]
  BY TimersAssumption DEF Init, Waiting
<1>2. heartbeat \in [Node -> Timeout]
  BY FreshTimers DEF Init
<1>3. rpcs \subseteq [to : Node, kind : {"AppendEntries", "RequestVote"}, age : Nat]
  BY Broadcasts, TimersAssumption DEF Init
<1> QED
  BY <1>1, <1>2, <1>3 DEF Init, TypeOK, Alive

LEMMA LoopTypes ==
    ASSUME TypeOK, NEW n \in Node, Loop(n) \/ Die(n)
    PROVE  TypeOK'
<1> USE DEF TypeOK
<1>1. ASSUME Begin(n) PROVE TypeOK'
  BY <1>1 DEF Begin
<1>2. ASSUME End(n) PROVE TypeOK'
  <2>1. /\ at' \in [Node -> {"Select", "AppendEntries", "RequestVote", "Client"}]
        /\ busy' \in [Node -> Nat]
        /\ rpcs' = rpcs
    BY <1>2 DEF End
  <2>2. CASE Continue(n)
    <3>1. PICK t \in ElectionAfter(n, at[n]) : election' = [election EXCEPT ![n] = t]
      BY <2>2 DEF Continue
    <3>2. t \in [elapsed : Nat, interval : Interval]
      BY <3>1, FreshTimers DEF ElectionAfter
    <3>3. role' \in [Node -> Alive \cup {"Panicked", "Dead"}]
      BY <2>2 DEF Continue
    <3>4. heartbeat' = heartbeat
      BY <2>2 DEF Continue
    <3> QED
      BY <2>1, <3>1, <3>2, <3>3, <3>4
  <2>3. CASE EnterFollower(n)
    BY <2>1, <2>3, FreshTimers DEF EnterFollower, Alive
  <2> QED
    BY <1>2, <2>2, <2>3 DEF End
<1>3. ASSUME ElectionTimeout(n) PROVE TypeOK'
  BY <1>3, FreshTimers, Broadcasts DEF ElectionTimeout, Alive
<1>4. ASSUME RetryTimeout(n) PROVE TypeOK'
  BY <1>4, FreshTimers, Broadcasts DEF RetryTimeout, Alive
<1>5. ASSUME HeartbeatTimeout(n) PROVE TypeOK'
  BY <1>5, FreshTimers, Broadcasts DEF HeartbeatTimeout, Alive
<1>6. ASSUME Die(n) PROVE TypeOK'
  BY <1>6 DEF Die
<1> QED
  BY <1>1, <1>2, <1>3, <1>4, <1>5, <1>6 DEF Loop

LEMMA TickTypes == TypeOK /\ Tick => TypeOK'
<1> SUFFICES ASSUME TypeOK, Tick PROVE TypeOK'
  OBVIOUS
<1> USE DEF TypeOK, Tick
<1>1. election' \in [Node -> [elapsed : Nat, interval : Interval]]
  BY DEF Aged
<1>2. heartbeat' \in [Node -> Timeout]
  BY DEF Aged, Timeout
<1>3. rpcs' \subseteq [to : Node, kind : {"AppendEntries", "RequestVote"}, age : Nat]
  OBVIOUS
<1> QED
  BY <1>1, <1>2, <1>3

\* Timers and messages keep their types, whatever the durations, in particular
\* the intervals of timeout.rs.
THEOREM TypeCorrect == Spec => []TypeOK
<1>1. TypeOK /\ [Next]_vars => TypeOK'
  <2> SUFFICES ASSUME TypeOK, [Next]_vars PROVE TypeOK'
    OBVIOUS
  <2>1. CASE Tick
    BY <2>1, TickTypes
  <2>2. CASE \E n \in Node : Loop(n) \/ Die(n)
    BY <2>2, LoopTypes
  <2>3. CASE UNCHANGED vars
    BY <2>3 DEF TypeOK, vars
  <2> QED
    BY <2>1, <2>2, <2>3 DEF Next
<1> QED
  BY <1>1, InitTypes, PTL DEF Spec

-----------------------------------------------------------------------------

\* The RPCs of its peers never end a follower's loop, however late it runs: for
\* every interval, delay and lag the reset in role_follower.rs comes first.
THEOREM FollowersOutlive == Spec => FollowersOutliveRpcs
<1> DEFINE Outlives ==
        \A n \in Node :
           role[n] = "Follower" /\ at[n] # "Client" => role'[n] # "Panicked"
<1>1. TypeOK /\ [Next]_vars => [Outlives]_vars
  <2> SUFFICES ASSUME TypeOK, Next,
                      NEW n \in Node, role[n] = "Follower", at[n] # "Client"
               PROVE  role'[n] # "Panicked"
    BY DEF vars
  <2> USE DEF TypeOK
  <2>1. CASE Tick
    BY <2>1 DEF Tick
  <2>2. ASSUME NEW i \in Node, Loop(i) \/ Die(i), i # n PROVE role'[n] # "Panicked"
    <3>1. CASE End(i)
      BY <2>2, <3>1 DEF End, Continue, EnterFollower
    <3> QED
      BY <2>2, <3>1 DEF Loop, Begin, ElectionTimeout, RetryTimeout, HeartbeatTimeout, Die
  <2>3. CASE End(n)
    <3>1. CASE Continue(n)
      <4>1. at[n] \in {"AppendEntries", "RequestVote"}
        BY <2>3 DEF End
      <4>2. PICK t \in start_range : election' = [election EXCEPT ![n] = t]
        BY <3>1, <4>1 DEF Continue, ElectionAfter
      <4>3. ~ IsOverdue(election'[n])
        BY <4>2, FreshTimers
      <4> QED
        BY <3>1, <4>3 DEF Continue, HasHeartbeat
    <3> QED
      BY <2>3, <3>1 DEF End
  <2>4. CASE Loop(n) \/ Die(n)
    BY <2>3, <2>4 DEF Loop, Begin, ElectionTimeout, RetryTimeout, HeartbeatTimeout, Die
  <2> QED
    BY <2>1, <2>2, <2>4 DEF Next
<1> QED
  BY <1>1, TypeCorrect, PTL DEF Spec, FollowersOutliveRpcs

-----------------------------------------------------------------------------
(***************************************************************************)
(* A live leader is not challenged                                         *)
(***************************************************************************)

\* No client is served, and the shortest election timeout covers a heartbeat
\* interval, a late leader and a late heartbeat.
Timely == ~ HasClients /\ heartbeat_interval + Lag + Delay < ElectionMin

LEMMA InitStable == Init => StableInv
<1> SUFFICES ASSUME Init PROVE StableInv
  OBVIOUS
<1> DEFINE l == FirstLeader
<1>1. \A n \in Node \ {l} : role[n] = "Follower" /\ RpcTo(n, "AppendEntries") \in rpcs
  BY TimersAssumption DEF Init, Broadcast, Alive
<1>2. \A m \in rpcs : m.kind = "AppendEntries" /\ m.to # l /\ m.age = 0
  BY TimersAssumption DEF Init, Broadcast, RpcTo
<1>3. \A n \in Node : election[n].elapsed <= heartbeat_interval + Lag + 0
  BY TimersAssumption DEF Init, Waiting
<1>4. \A n \in Node \ {l} :
         \E m \in rpcs : m.to = n /\ election[n].elapsed <= heartbeat_interval + Lag + m.age
  BY <1>1, <1>3 DEF RpcTo
<1>5. heartbeat[l] = [elapsed |-> 0, interval |-> heartbeat_interval]
  BY TimersAssumption DEF Init, start
<1>6. \A n \in Node : (role[n] = "Leader" => n = l) /\ at[n] = "Select"
  BY DEF Init
<1>7. heartbeat[l].interval = heartbeat_interval /\ heartbeat[l].elapsed <= heartbeat_interval + Lag
  BY <1>5, TimersAssumption
<1>8. \A m \in rpcs : m.age <= Delay
  BY <1>2, TimersAssumption
<1> QED
  BY <1>1, <1>2, <1>4, <1>6, <1>7, <1>8, TimersAssumption DEF StableInv

\* In a timely cluster a waiting follower's timer is not over.
LEMMA FollowersWait ==
    ASSUME Timely, TypeOK, StableInv, role[FirstLeader] = "Leader",
           NEW n \in Node \ {FirstLeader}, at[n] = "Select"
    PROVE  ~ IsOver(election[n])
<1>1. election[n].elapsed \in Nat /\ election[n].interval \in Interval
  BY DEF TypeOK
<1>2. heartbeat[FirstLeader].elapsed \in Nat
  BY TimersAssumption DEF TypeOK, Timeout
<1>3. election[n].elapsed <= heartbeat_interval + Lag + Delay
  <2>1. CASE election[n].elapsed <= heartbeat[FirstLeader].elapsed
    BY <1>1, <1>2, <2>1, TimersAssumption DEF StableInv
  <2>2. CASE \E m \in rpcs : m.to = n /\ election[n].elapsed <= heartbeat_interval + Lag + m.age
    <3>1. PICK m \in rpcs : election[n].elapsed <= heartbeat_interval + Lag + m.age
      BY <2>2
    <3>2. m.age \in Nat /\ m.age <= Delay
      BY DEF TypeOK, StableInv
    <3> QED
      BY <1>1, <3>1, <3>2, TimersAssumption
  <2> QED
    BY <2>1, <2>2 DEF StableInv
<1> QED
  BY <1>1, <1>3, TimersAssumption DEF Timely, IsOver, Interval

LEMMA TickStable ==
    ASSUME TypeOK, StableInv, Tick
    PROVE  StableInv'
<1>1. \A n \in Node : role'[n] = "Leader" => n = FirstLeader
  BY DEF Tick, StableInv
<1>2. SUFFICES ASSUME role[FirstLeader] = "Leader"
               PROVE  StableInv'
  BY <1>1 DEF StableInv, Tick
<1> DEFINE l == FirstLeader
<1> DEFINE Later(m) == [m EXCEPT !.age = IF @ < Delay THEN @ + 1 ELSE @]
<1>3. l \in Node /\ heartbeat[l] \in Timeout
  BY TimersAssumption DEF TypeOK
<1>4. /\ heartbeat'[l] = Aged(heartbeat[l])
      /\ heartbeat[l].elapsed < heartbeat_interval + Lag
  BY <1>2, <1>3, TimersAssumption DEF Tick, HasHeartbeat, MayWait, StableInv, Alive
<1>5. /\ heartbeat'[l].interval = heartbeat_interval
      /\ heartbeat'[l].elapsed = heartbeat[l].elapsed + 1
      /\ heartbeat'[l].elapsed <= heartbeat_interval + Lag
  BY <1>2, <1>3, <1>4, TimersAssumption DEF Aged, Timeout, StableInv
<1>6. rpcs' = {Later(m) : m \in {r \in rpcs : role[r.to] \in Alive}}
  BY DEF Tick
<1>7. \A m \in rpcs : /\ m \in [to : Node, kind : {"AppendEntries", "RequestVote"}, age : Nat]
                      /\ m.kind = "AppendEntries" /\ m.to # l /\ m.age <= Delay
  BY <1>2 DEF TypeOK, StableInv
<1>8. \A m \in rpcs : /\ Later(m).kind = "AppendEntries" /\ Later(m).to = m.to
                      /\ Later(m).age <= Delay
                      /\ m.age < Delay => Later(m).age = m.age + 1
  BY <1>7, TimersAssumption
<1>9. \A m \in rpcs' : m.kind = "AppendEntries" /\ m.to # l /\ m.age <= Delay
  BY <1>6, <1>7, <1>8
<1>10. ASSUME NEW n \in Node \ {l}, at[n] = "Select"
       PROVE  \/ election'[n].elapsed <= heartbeat'[l].elapsed
              \/ \E m \in rpcs' : /\ m.to = n
                                  /\ election'[n].elapsed <= heartbeat_interval + Lag + m.age
  <2>1. role[n] = "Follower"
    BY <1>2 DEF StableInv
  <2>2. election[n].elapsed \in Nat /\ election'[n].elapsed = election[n].elapsed + 1
    BY <2>1 DEF TypeOK, Tick, HasElection, Aged
  <2>3. CASE election[n].elapsed <= heartbeat[l].elapsed
    BY <1>3, <1>5, <2>2, <2>3 DEF Timeout
  <2>4. CASE \E m \in rpcs : m.to = n /\ election[n].elapsed <= heartbeat_interval + Lag + m.age
    <3>1. PICK m \in rpcs : m.to = n /\ election[n].elapsed <= heartbeat_interval + Lag + m.age
      BY <2>4
    <3>2. m.age < Delay
      BY <1>10, <2>1, <3>1 DEF Tick, MayWait, Alive
    <3>3. Later(m) \in rpcs'
      BY <1>6, <2>1, <3>1 DEF Alive
    <3>4. Later(m).to = n /\ Later(m).age = m.age + 1
      BY <1>8, <3>1, <3>2
    <3>5. m.age \in Nat
      BY <1>7
    <3>6. election'[n].elapsed <= heartbeat_interval + Lag + Later(m).age
      BY <2>2, <3>1, <3>4, <3>5, TimersAssumption
    <3> QED
      BY <3>3, <3>4, <3>6
  <2> QED
    BY <1>2, <1>10, <2>3, <2>4 DEF StableInv
<1> QED
  BY <1>1, <1>2, <1>5, <1>9, <1>10 DEF StableInv, Tick

LEMMA LoopStable ==
    ASSUME Timely, TypeOK, StableInv, NEW n \in Node, Loop(n) \/ Die(n)
    PROVE  StableInv'
<1> DEFINE l == FirstLeader
<1>1. \A i \in Node : role'[i] = "Leader" => role[i] = "Leader"
  <2>1. CASE End(n)
    BY <2>1 DEF TypeOK, End, Continue, EnterFollower
  <2> QED
    BY <2>1 DEF TypeOK, Loop, Begin, ElectionTimeout, RetryTimeout, HeartbeatTimeout, Die
<1>2. SUFFICES ASSUME role[l] = "Leader", role'[l] = "Leader"
               PROVE  StableInv'
  BY <1>1, TimersAssumption DEF StableInv
<1>3. l \in Node
  BY TimersAssumption
<1>4. CASE Begin(n)
  BY <1>1, <1>2, <1>3, <1>4 DEF Timely, TypeOK, Begin, StableInv
<1>5. CASE End(n)
  <2>1. n # l
    BY <1>2, <1>5 DEF End, StableInv
  <2>2. role[n] = "Follower" /\ at[n] = "AppendEntries"
    BY <1>2, <1>5, <2>1 DEF End, StableInv
  <2>3. PICK t \in start_range : election' = [election EXCEPT ![n] = t]
    BY <1>5, <2>2 DEF End, Continue, ElectionAfter
  <2>4. election'[n].elapsed = 0 /\ ~ IsOverdue(election'[n])
    BY <2>3, FreshTimers DEF TypeOK
  <2>5. Continue(n)
    BY <1>5, <2>2 DEF End
  <2>6. role' = role /\ heartbeat' = heartbeat
    BY <2>2, <2>4, <2>5 DEF Continue, HasHeartbeat, TypeOK
  <2>7. /\ at' = [at EXCEPT ![n] = "Select"] /\ rpcs' = rpcs
    BY <1>5 DEF End
  <2>8. \A i \in Node \ {n} : election'[i] = election[i] /\ at'[i] = at[i]
    BY <2>3, <2>7 DEF TypeOK
  <2>9. heartbeat[l].elapsed \in Nat
    BY <1>3 DEF TypeOK, Timeout
  <2> QED
    BY <1>1, <1>2, <2>1, <2>2, <2>4, <2>6, <2>7, <2>8, <2>9 DEF StableInv, TypeOK
<1>6. CASE ElectionTimeout(n)
  <2>1. n # l
    BY <1>2, <1>6 DEF ElectionTimeout, HasElection
  <2> QED
    BY <1>2, <1>6, <2>1, FollowersWait DEF ElectionTimeout
<1>7. CASE RetryTimeout(n)
  BY <1>2, <1>7 DEF RetryTimeout, StableInv
<1>8. CASE HeartbeatTimeout(n)
  <2>1. n = l
    BY <1>8 DEF HeartbeatTimeout, StableInv
  <2>2. heartbeat'[l] = [elapsed |-> 0, interval |-> heartbeat_interval]
    BY <1>3, <1>8, <2>1 DEF HeartbeatTimeout, TypeOK, start
  <2>3. rpcs' = rpcs \cup Broadcast(l, "AppendEntries")
    BY <1>8, <2>1 DEF HeartbeatTimeout
  <2>4. \A m \in rpcs' : m.kind = "AppendEntries" /\ m.to # l /\ m.age <= Delay
    BY <1>2, <2>3, TimersAssumption DEF Broadcast, RpcTo, StableInv
  <2>5. ASSUME NEW i \in Node \ {l}, at[i] = "Select"
        PROVE  \E m \in rpcs' : /\ m.to = i
                                /\ election[i].elapsed <= heartbeat_interval + Lag + m.age
    <3>1. CASE election[i].elapsed <= heartbeat[l].elapsed
      <4>1. RpcTo(i, "AppendEntries") \in rpcs'
        BY <1>2, <2>3 DEF Broadcast, StableInv, Alive
      <4>2. election[i].elapsed <= heartbeat_interval + Lag + 0
        <5>1. election[i].elapsed \in Nat /\ heartbeat[l].elapsed \in Nat
          BY <1>3 DEF TypeOK, Timeout
        <5> QED
          BY <1>2, <3>1, <5>1, TimersAssumption DEF StableInv
      <4> QED
        BY <4>1, <4>2 DEF RpcTo
    <3>2. CASE \E m \in rpcs : m.to = i /\ election[i].elapsed <= heartbeat_interval + Lag + m.age
      BY <2>3, <3>2
    <3> QED
      BY <1>2, <2>5, <3>1, <3>2 DEF StableInv
  <2>6. UNCHANGED << role, at, election >>
    BY <1>8 DEF HeartbeatTimeout
  <2>7. 0 <= heartbeat_interval + Lag
    BY TimersAssumption
  <2> QED
    BY <1>1, <1>2, <2>2, <2>4, <2>5, <2>6, <2>7 DEF StableInv
<1>9. CASE Die(n)
  BY <1>2, <1>9 DEF Die, TypeOK, StableInv
<1> QED
  BY <1>4, <1>5, <1>6, <1>7, <1>8, <1>9 DEF Loop

\* Where the shortest election timeout is longer than a heartbeat interval, the
\* runtime's lag and the message delay together, a live leader's followers never
\* campaign: for every cluster and all durations, however long their handlers run.
THEOREM TimelyLeadersStay ==
    ASSUME Timely
    PROVE  Spec => []StableLeader
<1>1. TypeOK /\ StableInv /\ [Next]_vars => StableInv'
  <2> SUFFICES ASSUME TypeOK, StableInv, [Next]_vars PROVE StableInv'
    OBVIOUS
  <2>1. CASE Tick
    BY <2>1, TickStable
  <2>2. CASE \E n \in Node : Loop(n) \/ Die(n)
    BY <2>2, LoopStable
  <2>3. CASE UNCHANGED vars
    BY <2>3 DEF StableInv, vars
  <2> QED
    BY <2>1, <2>2, <2>3 DEF Next
<1>2. StableInv => StableLeader
  BY DEF StableInv, StableLeader
<1> QED
  BY <1>1, <1>2, InitStable, TypeCorrect, PTL DEF Spec

=============================================================================
