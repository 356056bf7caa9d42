# Formal model of zeroraft

TLA+ modules, TLC configurations and TLAPS proofs for the Raft implementation in
`src/zeroraft`. Everything is translated from the Rust source; the tests and
comments are used only as the source of the claims that some runs refute.

## 1. The system

| component | source | state it keeps | operations | modelled in |
|---|---|---|---|---|
| node and dispatcher | `src/node.rs` | `current_term`, `voted_for`, `current_state`, `leader_id`, the State, channels | `start`, state changes, term and vote updates, RPC senders, `shutdown` | `Election`, `Handlers`, `Recovery` |
| follower role | `src/role/role_follower.rs` | election timer | one `select!` loop: shutdown, RPC, client, timer | `Election`, `Timers` |
| candidate role | `src/role/role_candidate.rs` | `VoteSession`: `ack_peers`, `granted_votes`, one-place result channel; two timers | `initialize`, `request_votes`, loop | `Election`, `Timers`, `Handlers` |
| leader role, heartbeats | `src/role/role_leader.rs` 50-216 | heartbeat timer | loop, `send_heartbeats` | `Election`, `Replication`, `Timers` |
| leader role, replication | `src/role/role_leader.rs` 119-144, 219-436 | `next_index` and `match_index` per peer, behind one lock | standby task, update tasks, commit index | `Replication` |
| RPC responders | `src/role/common.rs` | none | `respond_to_request_vote`, `respond_to_append_entries` | `Responders`, applied in `Election` and, in three calls, `Replication`; access by access in `Handlers` |
| State and MemoryState | `src/state.rs`, `tests/fixtures/state.rs` | log, stored term and vote, commit index, membership | log reads and writes, term and vote | `Store` (log), `Replication` (commit index), `Recovery` and `Handlers` (term, vote) |
| timers | `src/timeout.rs` | start, interval | `continuation`, `reset`, `get_remaining` | `Timers` |
| builder, channels | `src/builder.rs`, `src/channels.rs` | none | `build`, `create` | `Init`, `Restart`; message sets |
| transport | `tests/fixtures/server.rs` | sockets | peer server, forwarder | delivery and loss in `Election`, `Replication` |
| snapshots, configuration, non-voters | `unimplemented!` / `todo!` | | | no |

**Interaction.** A node is one *main task*, which runs the role function that
`RaftNode::start` picks from `current_state`, and *background tasks* that the role
functions spawn: one per vote request, one that collects the votes, one that sends
heartbeats and collects their answers, a leader's standby task and its update tasks.
Main and background tasks share `current_term`, `voted_for`, `current_state` and the
State through locks held for one access each; a leader's tasks also share the map of
peers. Nodes exchange RequestVote and AppendEntries requests and their answers through
the outside transport.

**What is hard.** The main task looks at `current_state` only at the top of each
loop iteration; a background task may have ended the role by then. Collectors
outlive the loop that spawned them, up to their timeout, and may be cancelled at any
await. Handlers read the term once and use it after several awaits, in which a collector may
write it. Retries overlap with answers to the first request. Answers carry the voter's
*old* term and are adopted as they come. A result may wait in the channel while the
term changes under it. Heartbeats move the indexes of an update that is under way. The
State keeps only part of what memory does, and entries and commit index reach it in
separate calls. `PROJECT.json` lists these hazards line by
line.

**What makes it correct.** Votes are counted once per peer and session; a leader has
a quorum; one leader per term; the term never goes down; a vote is not given twice;
a deposed leader stops; shutdown is final; logs match, committed entries stay, entries
are replicated; a restart forgets no vote; a live leader is left alone and a dead one
replaced.

## 2. Modules

| module | contents |
|---|---|
| `Store` | `get_last_index`, `get_last_term`, `get_entry`, `remove_entries_after`, `append_entries` of MemoryState on logs abstracted to sequences of terms |
| `Responders` | what the two handlers decide (`RequestVoteReason`, `AppendEntriesReason`) in the order of the early returns, and the log an accepted request leaves |
| `Election` | the cluster: one action per event of the role loops and per step of a background task |
| `Leadership` | the abstract specification: leadership is free or held by one member, and is free in between; `Election!Abstract` instantiates it, `ImplementsLeadership` is the refinement |
| `WriteAhead` | the abstract specification of one node's vote on disk and in memory: the disk is written first, and not again before memory has followed; the vote for itself is in memory only. `Handlers!Disk` instantiates it, `VotesWriteAhead` is the refinement |
| `Recovery` | `Election` with the State's copies of term and vote, and with processes that die, between events or within a handler, and are built again |
| `Replication` | the replication session of one leader with the logs and commit indexes of its peers, which store a request call by call, and a rival |
| `Timers` | the three loops in discrete time |
| `Handlers` | one node, one step per access to a shared cell, and its death before any of them |
| `MCElection`, `MCRecovery`, `MCReplication`, `MCHandlers` | values for the constants of the runs, symmetry sets |
| `ElectionProofs`, `RecoveryProofs`, `ReplicationProofs`, `ProgressProofs`, `TimersProofs`, `HandlersProofs` | the theorems; `ProgressProofs` has those about updates and match indexes |

`Recovery` extends `Election`, which with `Replication` extends `Responders` and
`Store`. `Replication`, `Timers` and `Handlers` look at one part each more closely than
`Election` does, with the rest as their environment.

### `Election`

`role[i]` is the role function the main task is in (`"Dispatch"` between two of them,
`"Stopped"` after the task ended), `current_state[i]` the shared cell; they differ when
a background task has written the cell.

| action | code |
|---|---|
| `EnterFollower`, `EnterCandidate`, `EnterLeader`, `Stop` | `RaftNode::start` picks a role; the entry part of the role function, up to its loop |
| `LeaveRole` | the check at the top of the loop fails because a background task wrote the state |
| `FollowerTimeout`, `CandidateTimeout`, `RetryTimeout`, `HeartbeatTimeout` | timer branches |
| `WinElection` | the `vote_result_rx` branch |
| `ClientRequest` = `RedirectClient` or `AppendClientRequest`, `ReceiveShutdown` | the client and the shutdown branch of each role |
| `change_to_state`, `update_current_term`, ... | the methods of `RaftNode` that assign the shared cells |
| `HandleRequestVote`, `HandleHeartbeat` | the RPC branch of each role |
| `FailAnswer`, in these two and in `RedirectClient` | `response_tx.send(..).await?` fails: the role function and `RaftNode::start` return, the background tasks go on |
| `SendVoteRequest` | one `send_request_vote_rpc` task sends |
| `CollectVote` = `VoteStepDown`, `CountAnswer` or `DecidingVote` | one turn of the `while let` loop in `request_votes` |
| `SendHeartbeats`, `CollectHeartbeat` | the task of `send_heartbeats` |
| `LoseVoteRequest`, `LoseHeartbeat` | the transport drops a request |

Every main-task action ends with the loop check (`EndIteration`): if the state is no
longer the role's, the function returns. A background write that comes after the check
gives the main task one more event in the old role, which is what the code does.

* *Time.* A timer may fire whenever its role runs. The collectors of votes and of answers
  to heartbeats are bounded by `timeout()` with the remaining time of a timer, so they are
  gone once that timer has fired (`ExpireTasks`): firing and expiry are one instant, and
  the overlap of a collector with the one that replaces it, at the deadline, is in
  `Handlers` only. For tasks that survive a change of role this needs a heartbeat interval
  below the election timeout (25 ms and 100-200 ms in the tests); the code does not
  enforce it.
* *Tasks without a timeout.* A leader's standby and update tasks are spawned without one,
  and may step their node down in a later role. They matter here only if a leader starts
  with a committed entry: leaders of this module start with commit index 0, and such a
  leader never sends an update (`FreshLeadersSendHeartbeatsOnly`).
* *Orphans.* When a collector ends, its requests are still delivered and still change
  the voter; their answers are dropped (`live = FALSE`).
* *Handlers* are single steps here, and so is a collector's step down. What a handler does
  to votes while a collector writes the term is `Handlers`' subject; no property of
  `Election` or `Recovery` is about the order of terms.
* *Failing answers* end the main task for good. `MaxStopped` bounds the nodes that this
  happens to; it is 0 in `unanimous`, whose state space has no room for it, and 1 in
  `recovery`. `MaxShutdownTerm` bounds the terms in which a node is shut down; it is 0 in
  `unanimous`, for the same reason, and no restriction elsewhere. The theorems hold for
  every bound.
* *Heartbeats* of one round are sent in one step; vote requests are sent one by one
  because each reads the term and the log when it is sent. Only StaleTerm answers to
  heartbeats are kept: the others touch `next_index` only (`Replication`).
* *Sessions* are forgotten (`DropSession`) when their last reference is gone. A second
  `Granted` finds the channel full and its task hangs until its timeout.
* *Network.* Requests in flight form sets: any order, any delay, loss. Two identical
  abandoned requests collapse into one; the second could only be refused. The fixture's
  forwarder is stricter (one request at a time); the library leaves the transport open.
* *Entries in AppendEntries.* Election knows heartbeats only. In a leader's session that
  begins without a committed entry there is nothing else: `FreshLeadersSendHeartbeatsOnly`
  of `ReplicationProofs`. From a stored commit index of 1 or more updates are sent; what
  they do to logs and indexes is in `Replication`. To terms and votes they do what a
  heartbeat does.
* `SeedsIncludeSelf` tells the two ways of writing the seeds apart: the fixture lists
  the node itself, the builder's doc speaks of peers. `FirstEntryIndex` tells
  MemoryState's 0-based `get_entry` from the 1-based indexes of the trait's doc.
* `MaxTerm` stands for `u64::MAX`; `MaxLog`, `MaxVoteRpcs`, `MaxHeartbeatRpcs` bound the
  log and the messages in flight. The theorems hold for every value of all of them.

### `Recovery`

`stored_term` and `stored_vote` are what `load_current_term` and `load_voted_for` would
return. Each `Election` action is either a `MemoryStep` (a candidate's `increment_term`
and `vote_for_self` among them) or a `StoreStep` together with what it writes:
`StoreAdoption` (`update_current_term_and_voted_for`), `StoreHeartbeat`,
`StoreClientRequest`, `StoreStepDown`. `Restart(i)` is the death of a process and
`RaftNodeBuilder::build` on its State (`Rebuild`): memory, sessions and tasks are gone,
requests in flight are not. It dies between two events, or after the first writes of a
handler: `DieAdopting` leaves the State with the candidate's term and perhaps its vote,
`DieFollowing` with a heartbeat's term and perhaps an emptied log. The State outlives the process and stores what it is given;
`AppendStoresTerm` tells MemoryState, whose `append_entries` overwrites the stored term with
the last entry's, from the trait, which asks for no such thing. `MaxRestarts` bounds restarts.

### `Replication`

| action | code |
|---|---|
| `HeartbeatTimeout`, `SendHeartbeats`, `CollectHeartbeat` | the heartbeat timer, `send_heartbeat_to_peers` and one answer: LogMismatch decrements `next_index`, StaleTerm steps down |
| `StartUpdates` | `start_standby_update_for_peers`, `get_stale_peers` |
| `CheckPeer`, `SendUpdate`, `PassAnswer`, `EndPause` | the loop of an update task: `peer_matches`, `compose_append_entries_request`, the call, the millisecond with the stop signal |
| `StandbyReceive`, `StandbyCommit` | a turn of the standby task, up to and from `calculate_last_commit_index` |
| `ClientRequest`, `LeaveRole` | the leader appends; it leaves its loop and notifies the update tasks that wait |
| `HandleAppendEntries` = `Refuse` or `Accept` | a peer's `respond_to_append_entries`, up to `remove_entries_after` |
| `StoreEntries`, `StoreCommitIndex` | the rest of it: `append_entries`; `set_last_commit_index` and the answer |
| `HearRival` | any node, the leader included, answers another node's vote request or heartbeat: `Accept`, or what it writes to term and state |
| `LoseMessage` | a request or an answer is lost; a closed response channel panics the update task that waits |

A request that has been accepted stays in `append_rpcs` with the `stage` it has got to; until it
is stored its receiver's main task takes nothing else (`Idle`), and all other tasks may read
the log as it is. `peers_writer` is the one holder of the map's write lock that can be seen:
only the standby task awaits something that needs the lock while it holds it.
`update_resps` is the queue that the update tasks feed, `MaxAnswers` its bound.
`OverflowChecks` is the build profile, `U64Max` stands for `u64::MAX`; an index that has
wrapped is kept at the maximum, since it is out of reach of every log for the next 2^63
answers. The reads of one `compose_append_entries_request` are one step. There is one
session. The rival is another node, of the same or a later term, that asks for votes or
leads without a committed entry, hence sends heartbeats and no updates.

### `Timers`

`at[n]` is `"Select"` while the loop of `n` waits, or the event it is busy with (`Begin`,
`End`). `ElectionTimeout`, `RetryTimeout` and `HeartbeatTimeout` are the timer branches, `Tick`
is the clock. `Lag` bounds how late a loop is woken, `Delay` the age of a message whose
receiver is free, `Busy` the time spent on one event: `Tick` is disabled when one would be
exceeded. Continuing a timer that is overdue makes the node `"Panicked"` (Duration
subtraction, `timeout.rs` 78). What an RPC does to a candidate or a leader is either
outcome (terms and votes are `Election`'s), elections do not end, messages form a set. The
module begins where `LeaderRole::start` enters its loop: the first heartbeats are on their
way, and each follower's timer has run for up to a retry interval and the lag, since the
candidate's last request reset it (`Waiting`). The default intervals come from an external
crate; here they are parameters.

### `Handlers`

`pc` is the next access of the main task to a shared cell, `tasks` are the collectors,
each with a program counter of its own: `StoreTerm`, `SetTerm`, `StepDown` are the writes of a
step down, in that order. A collector may be cancelled where it awaits (`Cancel`), not
between writing the State and the atomic, which is one poll. `Receive` reads the term once and
the handler keeps what it decided on it. `Restart` may come before any access. The peers may
send any term and any answer. `votes` is auxiliary: the votes given since the term last went
down, less those for itself that a restart has forgotten. Logs, `leader_id` and shutdown are
left out.

## 3. Runs

| run | configuration | result |
|---|---|---|
| `unanimous` | 3 nodes, seeds with self, terms to 2, 1 vote request and 2 heartbeats in flight, any node may be shut down in its first term, symmetry | `TypeOK`, `LeaderHasQuorum`, `UnanimityInv`, `OneLeader` hold |
| `recovery` | 2 nodes, stored terms 0-1, any stored vote, logs up to 1 entry, MemoryState; one node may be shut down, one main task may fail, 2 restarts, terms to 2 | `RecoveryTypeOK`, `OnlyOwnVotesAreLost`, `LeaderVotedForItself`, `ImplementsLeadership` hold |
| `handlers` | 2 peers, 2 collectors in parallel, restarts, terms to 3, symmetry | `OwnVoteAtSelect`, `VotesAreStored`, `OneVotePerTerm`, `VotesWriteAhead` hold |
| `replication_stored` | 1 peer, commit index 0 or 1, logs of 0, 2 or 3 entries, 2 requests in flight, 2 answers queued, overflow checks, a rival of the same or the next term; `FairSpec` | `TypeOK`, `MatchIndexReplicated`, `CommitIndexIsInLog`, `OneUpdateAtATime`, `LogsShrinkByUpdatesOnly`, `HeartbeatGoesOut` hold |
| `timers_stable` | 3 nodes, heartbeat 2, lag 1, delay 1, election 5 or 6, no clients, the leader may die; `FairSpec` | `StableLeader`, `LeaderDeathIsNoticed` hold |
| `timers_late` | 2 nodes with clients, election 3 or 4, lag 1, delay 1 | `TypeOK`, `FollowersOutliveRpcs` hold |
| `two_leaders` | 3 nodes, seeds without self, stored terms 0 or 2 | `ElectionSafety` violated |
| `term_regress` | 2 nodes, one with an entry | `TermNeverDecreases` violated |
| `shutdown` | 2 nodes, one shut down | `ShutdownIsFinal` violated |
| `erased_log` | 1 peer, one committed entry, 1-based `get_entry` | `CommittedEntriesStay` violated |
| `majority_commits` | constants of `replication_stored`; `FairSpec` | `MajorityCommits` violated |
| `mismatch_resolved` | constants of `replication_stored`; `FairSpec` | `MismatchIsResolved` violated |

**Bounds.** Three nodes are the smallest cluster in which the two quorum sizes differ and
two candidates compete for a third; two terms are a first and a later session of a node,
and a rival's; one request in flight still allows every interleaving of candidates, since
a request that waits to be sent (`votes_due`) or whose answer waits (`vote_resps`) is not
counted. `unanimous` and `recovery` do not check for deadlock: a cluster stops when all its nodes are
shut down. `recovery` trades a node for stored states, logs, failing main tasks and restarts;
with its seeds two nodes need both votes, so the refinement is not idle. In
`replication_stored` three entries and one committed are the least from which a median match
index could exceed the commit index; one peer is enough since nothing but the median relates
peers, and the theorems hold for any number. The durations of `timers_stable` are the least that
satisfy the theorem's assumption with lag and delay; with `ElectionMin = 4` the property
fails, so the assumption is tight. Two collectors in `handlers` are an old and a current one.

**Symmetry** over nodes, peers or tasks is used where no constant names one of them and no
liveness is checked.

**Fairness.** `Replication!FairSpec`: tokio runs every ready task, and a peer handles the
requests it has received (strong fairness: a rival may keep it busy again and again, but its
channel is a queue). Nothing is assumed of timers, clients, the rival or message loss.
`Timers!FairSpec`: time passes, and a loop that must move moves. Elections themselves are
not shown live: the randomized timeouts give no bound, and with seeds that list the node itself
`cluster_size` is the membership's size plus one, so that two votes of three do not win.

### What the failing runs show

* `two_leaders`. A candidate in term t has its votes and `Granted` waits in the channel.
  The retry timer fires first and asks the peer that has not answered. That peer is in
  a later term t'; the retry's collector takes over t' and the Follower state; then the
  main task reads `Granted` and changes to Leader, of t'. The rival wins t' properly.
* `term_regress`. `respond_to_request_vote` answers with the term it read on entry. A voter
  with a longer log adopts the candidate's term, answers IncompleteLog with its old
  term, and the candidate stores that.
* `shutdown`. A candidate's collector reads StaleTerm after the shutdown.
* `erased_log`. A heartbeat has `prev_log_index` 0; the follower that accepts it removes every
  entry, committed ones included, and then sets the commit index to 0. This is so on a State that counts entries from 1, as the trait says.
  On MemoryState, which counts from 0, only an empty log accepts a heartbeat
  (`LogsShrinkByUpdatesOnly`), and entries are lost to updates only.
* `majority_commits`. The standby task counts an accepted update with the write guard on
  `peers` alive, then awaits `calculate_last_commit_index`, which asks for the read lock. It
  waits for itself; the entry is never committed. `LeadersNeverCommit` proves that no
  leader of any cluster commits anything, `CountingSilences` that such a leader sends
  nothing any more.
* `mismatch_resolved`. `get_stale_peers` runs once, when every `next_index` is above the commit
  index; it finds somebody only if heartbeats are answered before the standby task looks.
  A peer whose mismatches lower its index later is never sent an entry.
  `FreshLeadersSendHeartbeatsOnly` and `OneBasedLeadersSendHeartbeatsOnly` prove for two kinds
  of cluster that no peer ever is.

Where nobody wins without every vote these flaws cannot produce a second leader:
a candidate whose collector steps down cannot have its result yet (a vote is
missing), and whoever grants a vote gives up its own session in the same step.

## 4. Proofs

The theorems are checked by TLAPS. Besides the hypotheses in the table they assume what the
modules name:
`NodeAssumption`, `ResultAssumption`, `ParameterAssumption` (`Election`),
`FirstEntryIndexAssumption` (`Store`), `RecoveryAssumption`, `ClusterAssumption`,
`BoundAssumption` and `NoneAssumption` (`Replication`), `TimersAssumption`,
`HandlersAssumption`: types of the constants, and that an absent value is no value.

| module | theorem | statement |
|---|---|---|
| `ElectionProofs` | `TypeCorrect` | `Spec => []TypeOK` |
| | `LeadersHaveQuorums` | `Spec => []LeaderHasQuorum` |
| | `LeadersVotedForThemselves` | `Spec => []LeaderVotedForItself` |
| | `RivalsStayApart` | if `Unanimous`, `Spec => []UnanimityInv` |
| | `OneLeaderIfUnanimous`, `OneLeaderInTestClusters` | if `Unanimous`, or for seeds with self and at most three nodes, `Spec => []OneLeader` |
| | `ElectionImplementsLeadership` | if `Unanimous`, `Spec => ImplementsLeadership` |
| `RecoveryProofs` | `RecoveryTypeCorrect`, `RestartsKeepQuorums`, `RestartsKeepOwnVotes`, `VotesForOthersSurvive` | `RecoverySpec` implies `RecoveryTypeOK`, `LeaderHasQuorum`, `LeaderVotedForItself`, `OnlyOwnVotesAreLost` |
| | `RestartsKeepLeadership` | if `Unanimous`, `RecoverySpec => ImplementsLeadership`, with either State |
| `HandlersProofs` | `TypeCorrect`, `OwnVotes`, `StoredVotes`, `OneVote` | `TypeOK`, `OwnVoteAtSelect`, `VotesAreStored`, `OneVotePerTerm`, for any number of collectors |
| | `HandlersWriteAhead` | `Spec => VotesWriteAhead`, for any number of collectors |
| `ReplicationProofs` | `TypeCorrect`, `CommitsStayInLogs` | `TypeOK`, `CommitIndexIsInLog` |
| | `LeadersNeverCommit` | `Spec => LeaderNeverCommits` |
| | `FreshLeadersSendHeartbeatsOnly` | if `StoredCommits = {0}`, `Spec => []HeartbeatsOnly` |
| `ProgressProofs` | `MatchesAreReplicated` | with `OverflowChecks` and positive terms, `Spec => []MatchIndexReplicated`, for either `FirstEntryIndex` |
| | `UpdatesTakeTurns` | `OneUpdateAtATime`, in every build and on every State |
| | `HeartbeatsSpareLogs` | if entries count from 0 and terms are positive, `Spec => LogsShrinkByUpdatesOnly` |
| | `CountingSilences` | `Spec => SilentAfterUpdate`, in every build and on every State |
| | `OneBasedLeadersSendHeartbeatsOnly` | if entries count from 1, `Spec => []HeartbeatsOnly`, whatever is committed |
| `TimersProofs` | `TypeCorrect`, `FollowersOutlive` | `TypeOK`, `FollowersOutliveRpcs` for all durations |
| | `TimelyLeadersStay` | if heartbeat interval, lag and delay add up to less than `ElectionMin` and there are no clients, `Spec => []StableLeader` |

`LeaderNeverCommits`, `HeartbeatsOnly` and `SilentAfterUpdate` are not what the system should
do. They say how far the two failing claims about replication are from holding, in every
cluster, and no run checks them.

*Quorums.* `LeaderHasQuorum` speaks of the set of voters (`granters`, auxiliary), the code
of a counter. `QuorumInv` relates them: `SessionInv` says that the counter is one more
than the number of granters, all acknowledged peers; this is inductive only with
`AnswerInv`, by which between the spawning of a request and the counting of its answer a
peer has at most one message (request or answer) for a live collector, and none once it
is acknowledged. `ResultInv` says that a waiting result was earned by the session whose
channel it waits in, `RoleInv` how far `role` and `current_state` may be apart. Each part
has its own lemma with one step per action.

*One leader, and the refinement.* `UnanimityInv` adds `HeartbeatInv` (a candidate has no
heartbeat collector left that could make it step down), `StepDownInv` (a candidate that was
made to step down has no result and gets none; this is where unanimity is used) and
`RivalInv` (of two nodes that campaign or lead, at most one has, or is about to count, the
other's vote). Two leaders would each have counted all peers, hence each other. The only step
that adds a leader is `WinElection`; by the invariant nobody leads then, so it is `Elect`,
and every other step is `Depose` or a stutter.

*Restarts.* `RecoveryProofs` takes `QuorumInv` and `UnanimityInv` over: each step of `Recovery`
is one of `Election` or a restart, and a restart leaves a follower without session, tasks or
messages for them. `OnlyOwnVotesAreLost` is inductive with the types.

*Replication.* `LockInv`: a standby task on its way to the commit index holds the very lock it
will ask for; hence it never writes the index. A node's own index is then written by
`StoreCommitIndex` only, within the log as it is, and whoever shortens the log afterwards is
storing a request: `CommitsStayInLogs`. `LeadersNeverCommit` needs `RivalInv` too: what a
leader is sent by others carries no commit index. `FreshInv`: without a committed entry `next_index` is 1, 0 or
wrapped, and a peer that becomes stale has an index from which nothing can be composed.

*Updates.* `ProgressProofs` assumes of its constants that terms are positive
(`SessionTerm # 0`, stored logs over `Nat \ {0}`): a leader has incremented its term at
least once, and every entry carries a leader's term. Then no entry matches the term 0 that a
heartbeat claims for entry 0 (`PositiveTerms`, `HeartbeatsAreEmpty`), which is
`HeartbeatsSpareLogs`. `OneUpdateInv` says that an update task outside its call has nothing
in flight, and inside it one request or one answer; `UpdatesTakeTurns` follows.

`match_index` is set to `next_index + len - 1` when an answer is *counted*, not to what the
request that was answered said, and LogMismatch answers to heartbeats have lowered
`next_index` in between. `MatchesAreReplicated` shows that this errs on the safe side:
`UncountedInv` bounds what would be counted by the peer's log and by what any later update
leaves of it, as long as `next_index` only goes down. In between, while the peer has removed
entries and not yet appended the update's, its log is shorter (`Truncated`); `StageInv` says
how long it is at each stage, hence again after the append. `MatchedInv` and `LockInv` say that
counting takes the lock for good (the deadlock of the standby task with itself): until then
nothing is counted, afterwards nothing is sent, which is `CountingSilences` and lets
`CountedInv` hold of what was counted. Overflow checks are needed: without them TLC finds a
trace in which `next_index` wraps to `u64::MAX` under an update and `match_index` follows it
far beyond the log. Where entries count from 1 the argument is another one (`OneBasedInv`):
every log accepts entry 0 of term 0, so no `next_index` is lowered, no peer becomes stale
and no update is ever composed. That State and MemoryState differ in just this is why the
theorem has two halves.

*Timers.* `StableInv`: a follower that waits has either reset its timer since the leader's last
heartbeat or has a heartbeat on its way that is the older the longer the timer has run. It
holds at first since the heartbeats with which a leader begins are new.
`FollowersOutliveRpcs` holds since every RPC resets the one timer of a follower before it
is read.

*Handlers.* `RoleInv` says when the main task last read the state, what collectors may have
done since and whose vote it holds; `StoredVoteInv` that a vote is in the State before it is
in memory. With it the writes of a vote are the steps `Persist`, `Publish` and `VoteForSelf` of
`WriteAhead`, and every access of a collector a stutter, since collectors write no votes.
`VotesInv`, for `OneVotePerTerm`: the handler that is about to vote in a term saw an earlier
term, or no vote in this one, on entry; collectors may have raised the term since, but only the
main task votes, so every vote that counts is still of an earlier term.

**Only model-checked**: `HeartbeatGoesOut` and `LeaderDeathIsNoticed`, which are liveness
properties; those are out of this prover's reach, as `ENABLED` and induction over data are.
Every other property of the passing runs is stated by a theorem. The inductive invariants were
checked by TLC, on the constants of the runs, before they were proved.

## 5. Not modelled

* Snapshots, configuration changes, non-voters: `todo!` and `unimplemented!` in the code.
* `last_heard_from_leader`: written, never read.
* Answers to clients: the leader drops their channel.
* Sockets, encoding, the content of commands, errors, mocks and the crate root: no state the
  control depends on.
* The order of terms on one node. A handler and a collector that interleave may leave one
  term in the State and another in memory, and MemoryState's `append_entries` overwrites the
  stored term; the modules have these steps, and no property promises more than
  `OneVotePerTerm`.
* Several replication sessions in a row, and entries in `Election`: a session ends with its
  leader, and the next begins from any State, which is what `Replication!Init` is.
* That an election ends: see *Fairness*.
