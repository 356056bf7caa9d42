------------------------------- MODULE Timers -------------------------------
(***************************************************************************)
(* The select! loops of the three roles against the clock: Timeout         *)
(* (src/zeroraft/src/timeout.rs) and when each loop starts, resets and     *)
(* waits for its timers.                                                   *)
(*                                                                         *)
(* Time is discrete.  Three constants bound what the code does not: how    *)
(* late the runtime wakes a loop (Lag), how long a message is on its way   *)
(* or in the channel (Delay), how long a loop is busy with one event       *)
(* (Busy).  Tick is disabled when one of them would be exceeded.           *)
(*                                                                         *)
(* Terms, votes and logs are Election's: what an RPC does to a candidate   *)
(* or a leader is either outcome.  Elections do not end here; the module   *)
(* is about a leader, its followers, and their candidacies after it.       *)
(***************************************************************************)
EXTENDS Naturals, FiniteSets

CONSTANTS
    Node,
    FirstLeader,         \* the leader at the beginning
    heartbeat_interval,  \* of the leader's heartbeats and a candidate's retries
    ElectionMin,         \* election_timeout_range.0
    ElectionMax,         \* election_timeout_range.1, itself excluded
    Lag,                 \* bound on the time from a timer's end to its branch
    Delay,               \* bound on the age of an RPC when its node is free
    Busy,                \* bound on the time spent on one event
    HasClients           \* whether clients send requests

ASSUME TimersAssumption ==
    /\ FirstLeader \in Node
    /\ IsFiniteSet(Node)
    /\ heartbeat_interval \in Nat \ {0}
    /\ ElectionMin \in Nat \ {0}
    /\ ElectionMax \in Nat
    /\ ElectionMin < ElectionMax
    /\ Lag \in Nat /\ Delay \in Nat /\ Busy \in Nat
    /\ HasClients \in BOOLEAN

VARIABLES
    role,       \* the role function a node runs, "Panicked" or "Dead"
    at,         \* "Select", or the event its loop is busy with
    busy,       \* for how long it has been
    election,   \* election_timeout of a follower or a candidate
    heartbeat,  \* heartbeat_timeout of a leader, retry_timeout of a candidate
    rpcs        \* RPCs on their way or in a node's channel

vars == << role, at, busy, election, heartbeat, rpcs >>

-----------------------------------------------------------------------------
(***************************************************************************)
(* Timeout                                                                 *)
(***************************************************************************)

Interval == ElectionMin .. ElectionMax - 1

Timeout == [elapsed : Nat, interval : Nat]

start(duration) == [elapsed |-> 0, interval |-> duration]

\* Mutant: the end of the range is drawn too.
start_range_Inclusive == {start(i) : i \in ElectionMin .. ElectionMax}

\* A random interval, drawn anew by every start and reset.
start_range == {start(i) : i \in Interval}

\* The sleep of a continuation is over.
IsOver(t) == t.elapsed >= t.interval

\* get_remaining panics: Duration's subtraction is checked in every build.
IsOverdue(t) == t.elapsed > t.interval

-----------------------------------------------------------------------------

Alive == {"Follower", "Candidate", "Leader"}

\* Whether a role keeps the timer.
HasElection(n) == role[n] \in {"Follower", "Candidate"}
HasHeartbeat(n) == role[n] \in {"Leader", "Candidate"}

RpcTo(n, kind) == [to |-> n, kind |-> kind, age |-> 0]

Broadcast(n, kind) == {RpcTo(p, kind) : p \in {q \in Node \ {n} : role[q] \in Alive}}

\* A follower's timer when its leader is elected: the candidate's last request,
\* a retry interval ago at most, has reset it.
Waiting == [elapsed : 0 .. heartbeat_interval + Lag, interval : Interval]

\* LeaderRole::start has just started the heartbeat timer and sent the first
\* heartbeats, and enters its loop.
Init ==
    /\ role = [n \in Node |-> IF n = FirstLeader THEN "Leader" ELSE "Follower"]
    /\ at = [n \in Node |-> "Select"]
    /\ busy = [n \in Node |-> 0]
    /\ election \in [Node -> Waiting]
    /\ election[FirstLeader] = start(ElectionMin)
    /\ heartbeat = [n \in Node |-> start(heartbeat_interval)]
    /\ rpcs = Broadcast(FirstLeader, "AppendEntries")

-----------------------------------------------------------------------------
(***************************************************************************)
(* The loops                                                               *)
(***************************************************************************)

\* The role function for the new role begins with a fresh timer; the other one
\* is not read before its role starts it anew.
EnterFollower(n) ==
    /\ role' = [role EXCEPT ![n] = "Follower"]
    /\ \E t \in start_range : election' = [election EXCEPT ![n] = t]
    /\ heartbeat' = [heartbeat EXCEPT ![n] = start(heartbeat_interval)]

\* Mutant: the timer runs on after a refused or granted vote.
ElectionAfter_VotesIgnored(n, event) ==
    IF event = "AppendEntries" /\ role[n] = "Follower"
    THEN start_range
    ELSE {election[n]}

\* Mutant: the timer runs on after a heartbeat.
ElectionAfter_HeartbeatsIgnored(n, event) ==
    IF event = "RequestVote" /\ role[n] = "Follower"
    THEN start_range
    ELSE {election[n]}

\* Only a follower's timer is reset by an RPC, and by any RPC.
ElectionAfter(n, event) ==
    IF event \in {"AppendEntries", "RequestVote"} /\ role[n] = "Follower"
    THEN start_range
    ELSE {election[n]}

\* Back at the top of its loop, in the same role, a node asks every timer for
\* its continuation.
Continue(n) ==
    /\ \E t \in ElectionAfter(n, at[n]) : election' = [election EXCEPT ![n] = t]
    /\ role' = [role EXCEPT ![n] =
          IF \/ HasElection(n) /\ IsOverdue(election'[n])
             \/ HasHeartbeat(n) /\ IsOverdue(heartbeat[n])
          THEN "Panicked" ELSE @]
    /\ UNCHANGED heartbeat

\* A branch of select! is taken.
Begin(n) ==
    /\ role[n] \in Alive /\ at[n] = "Select"
    /\ \/ \E m \in rpcs : m.to = n /\ at' = [at EXCEPT ![n] = m.kind] /\ rpcs' = rpcs \ {m}
       \/ HasClients /\ at' = [at EXCEPT ![n] = "Client"] /\ UNCHANGED rpcs
    /\ busy' = [busy EXCEPT ![n] = 0]
    /\ UNCHANGED << role, election, heartbeat >>

\* Its handler is done; an RPC may have made a candidate or a leader a follower.
End(n) ==
    /\ role[n] \in Alive /\ at[n] # "Select"
    /\ \/ Continue(n)
       \/ role[n] # "Follower" /\ at[n] # "Client" /\ EnterFollower(n)
    /\ at' = [at EXCEPT ![n] = "Select"]
    /\ busy' = [busy EXCEPT ![n] = 0]
    /\ UNCHANGED rpcs

\* A follower's or a candidate's election timer: a vote session begins.
ElectionTimeout(n) ==
    /\ at[n] = "Select" /\ HasElection(n) /\ IsOver(election[n])
    /\ role' = [role EXCEPT ![n] = "Candidate"]
    /\ \E t \in start_range : election' = [election EXCEPT ![n] = t]
    /\ heartbeat' = [heartbeat EXCEPT ![n] = start(heartbeat_interval)]
    /\ rpcs' = rpcs \cup Broadcast(n, "RequestVote")
    /\ UNCHANGED << at, busy >>

\* A candidate's retry timer: the retry, and the loop, ask the election timer
\* for what remains of it.
RetryTimeout(n) ==
    /\ at[n] = "Select" /\ role[n] = "Candidate" /\ IsOver(heartbeat[n])
    /\ \/ /\ IsOverdue(election[n])
          /\ role' = [role EXCEPT ![n] = "Panicked"]
          /\ UNCHANGED << heartbeat, rpcs >>
       \/ /\ ~ IsOverdue(election[n])
          /\ heartbeat' = [heartbeat EXCEPT ![n] = start(heartbeat_interval)]
          /\ rpcs' = rpcs \cup Broadcast(n, "RequestVote")
          /\ UNCHANGED role
    /\ UNCHANGED << at, busy, election >>

\* A leader's heartbeat timer.
HeartbeatTimeout(n) ==
    /\ at[n] = "Select" /\ role[n] = "Leader" /\ IsOver(heartbeat[n])
    /\ heartbeat' = [heartbeat EXCEPT ![n] = start(heartbeat_interval)]
    /\ rpcs' = rpcs \cup Broadcast(n, "AppendEntries")
    /\ UNCHANGED << role, at, busy, election >>

\* The leader's process dies.
Die(n) ==
    /\ role[n] = "Leader"
    /\ role' = [role EXCEPT ![n] = "Dead"]
    /\ at' = [at EXCEPT ![n] = "Select"]
    /\ busy' = [busy EXCEPT ![n] = 0]
    /\ UNCHANGED << election, heartbeat, rpcs >>

-----------------------------------------------------------------------------
(***************************************************************************)
(* The clock                                                               *)
(***************************************************************************)

\* The node still has a unit of time before it must move.
MayWait(n) ==
    IF at[n] = "Select"
    THEN /\ HasElection(n) => election[n].elapsed < election[n].interval + Lag
         /\ HasHeartbeat(n) => heartbeat[n].elapsed < heartbeat[n].interval + Lag
         /\ \A m \in rpcs : m.to = n => m.age < Delay
    ELSE busy[n] < Busy

Aged(t) == [t EXCEPT !.elapsed = @ + 1]

Tick ==
    /\ \A n \in Node : role[n] \in Alive => MayWait(n)
    /\ busy' = [n \in Node |-> IF at[n] = "Select" THEN 0 ELSE busy[n] + 1]
    /\ election' = [n \in Node |-> IF HasElection(n) THEN Aged(election[n]) ELSE election[n]]
    /\ heartbeat' = [n \in Node |-> IF HasHeartbeat(n) THEN Aged(heartbeat[n]) ELSE heartbeat[n]]
    /\ rpcs' = {[m EXCEPT !.age = IF @ < Delay THEN @ + 1 ELSE @] :
                   m \in {r \in rpcs : role[r.to] \in Alive}}
    /\ UNCHANGED << role, at >>

-----------------------------------------------------------------------------

Loop(n) == Begin(n) \/ End(n) \/ ElectionTimeout(n) \/ RetryTimeout(n) \/ HeartbeatTimeout(n)

Next == Tick \/ \E n \in Node : Loop(n) \/ Die(n)

Spec == Init /\ [][Next]_vars

\* Time passes, and a loop that must move moves.
FairSpec ==
    /\ Spec
    /\ WF_vars(Tick)
    /\ \A n \in Node : WF_vars(Loop(n))

-----------------------------------------------------------------------------
(***************************************************************************)
(* Properties                                                              *)
(***************************************************************************)

\* Every variable holds values of its Rust type, and election timers wait for less
\* than the end of the configured range.
TypeOK ==
    /\ role \in [Node -> Alive \cup {"Panicked", "Dead"}]
    /\ at \in [Node -> {"Select", "AppendEntries", "RequestVote", "Client"}]
    /\ busy \in [Node -> Nat]
    /\ election \in [Node -> [elapsed : Nat, interval : Interval]]
    /\ heartbeat \in [Node -> Timeout]
    /\ rpcs \subseteq [to : Node, kind : {"AppendEntries", "RequestVote"}, age : Nat]

\* While the leader lives nobody campaigns, if the shortest election timeout is
\* longer than a heartbeat interval, the leader's lag and the heartbeat's delay
\* together, and no client is served: select! takes any branch that is ready, so
\* clients can keep a heartbeat waiting in the channel until the timer is over.
StableLeader ==
    (\E l \in Node : role[l] = "Leader") => \A n \in Node : role[n] # "Candidate"

\* The inductive invariant behind it.  A follower that waits in select! either has
\* reset its timer since the leader's last heartbeat, or one is on its way, and is
\* the older the longer the timer has run.
StableInv ==
    /\ \A n \in Node : role[n] = "Leader" => n = FirstLeader
    /\ role[FirstLeader] = "Leader" =>
          /\ at[FirstLeader] = "Select"
          /\ heartbeat[FirstLeader].interval = heartbeat_interval
          /\ heartbeat[FirstLeader].elapsed <= heartbeat_interval + Lag
          /\ \A m \in rpcs :
                m.kind = "AppendEntries" /\ m.to # FirstLeader /\ m.age <= Delay
          /\ \A n \in Node \ {FirstLeader} :
                /\ role[n] = "Follower"
                /\ at[n] \in {"Select", "AppendEntries"}
                /\ at[n] = "Select" =>
                      \/ election[n].elapsed <= heartbeat[FirstLeader].elapsed
                      \/ \E m \in rpcs :
                            /\ m.to = n
                            /\ election[n].elapsed <= heartbeat_interval + Lag + m.age

\* Only its clients can make a follower panic: however late its loop handles the
\* RPC of a peer, vote requests it refuses included, every one of them resets its
\* one timer before the loop asks for the remaining time.
FollowersOutliveRpcs ==
    [][\A n \in Node :
          role[n] = "Follower" /\ at[n] # "Client" => role'[n] # "Panicked"]_vars

\* The followers of a dead leader do not wait for it, nor for each other: although
\* every RPC of another node resets their timers, one of them campaigns.
LeaderDeathIsNoticed ==
    /\ \E l \in Node : role[l] = "Dead"
    /\ \E n \in Node : role[n] = "Follower"
    ~> \E n \in Node : role[n] = "Candidate"

=============================================================================
