# A TLA+ model of raft-2pc-database

The program is a small replicated bank. Data items (accounts) are split into
shards; every shard is held by a cluster of three C++ servers that replicate a log
with Raft; a Python routing service sends a payment inside one shard to the
leader of its cluster, and is the coordinator of two-phase commit (2PC) for a payment
between two shards.

This directory holds TLA+ modules translated from that code, the TLC
configurations that check them on small instances, and proofs, checked by TLAPS,
for every instance. It covers one cluster as a protocol (elections, replication,
commitment, payments, and the server's half of 2PC), the routing service with its
half, and the server processes with their connections.

Paths below are relative to `src/`. "Executor" files are in
`server/src/excutor/`.

## 1. The system

| component | state | operations | where |
|---|---|---|---|
| Raft log and payments | `log_` entries (term, index, command, `req_fd`), `local_balance_tb_` | append, slice for a message, match and merge, apply what a commit covers | `server/*/raftState.*`, `appendEntriesExecutor.cpp` |
| Leader election | `current_term_`, `voted_for_`, `role_`, `heard_heart_beat_`, `vote_granted_num_` | three timers, `RequestVoteExecutor::executeReq/Rsp` | `requestVoteExecutor.cpp`, `aIOServer.cpp` |
| Replication and commit | `commit_index_`, `coming_commit_index_`, `log_granted_num_`, `matched_log_size_` | `broadcast_heart_beat`, `AppendEntriesExecutor::executeReq/Rsp` | `appendEntriesExecutor.cpp`, `aIOServer.cpp` |
| Intra-shard transactions | `local_lock_`, log, balances | `IntraShardExecutor::executeReq` | `intraShardExecutor.cpp` |
| Cross-shard transactions, server side | the same | `CrossShardExecutor` PREPARE, COMMIT, ABORT | `crossShardExecutor.cpp` |
| Server process | `pretend_fail_`, the table of connections | dispatch of one completion at a time; Stop, Resume, Exit | `aIOServer.cpp` |
| AsyncIO | an io_uring of 32 entries, one request object per operation | accept, connect, read, write, timeout | `asyncIO.*` |
| Data shard files | `dataShard<k>.jsonl` | `load_data_shard`, `update_data_shard` | `util.cpp` |
| Routing service | leader table, one queue per cluster, sockets | read heartbeats and votes, redirect requests, flush queues | `client/routingservice.py` |
| 2PC coordinator | YES counters, start times | count YES, broadcast COMMIT or ABORT, timeout thread | `client/routingservice.py` |
| Client, handler, listeners | command line | build and send requests | `client/*.py` |
| Print executors | none of their own | print a balance, print the committed entries | `print*Executor.cpp` |
| Process start | none | fork the servers, send Exit | `server/main.cpp` |
| Messages, serializers | none | wire format | `proto/`, `client/serializers/` |

**How they interact.** Servers and the routing service exchange protobuf messages
over TCP, and *every message is sent on a connection of its own*: there is no
order between two messages, even of the same pair of processes. The
sender of a request that expects an answer (payment, PREPARE) keeps its connection
open, and the server keeps the descriptor in the log entry (`req_fd`). Heartbeats and
RequestVotes are also sent to the routing service, which learns from them who leads.

**What is hard about it.**

- *Interleaving across processes.* A server is one thread (`AIOServer::run`) that takes a
  completion and runs its handler to the end, so a handler is atomic; everything
  between handlers is not. The routing service has one event loop
  with a coroutine per connection, atomic between two awaits, and a timeout thread
  beside it, all sharing unlocked tables.
- *Ordering.* AppendEntries, their responses and votes overtake each other. The
  messages carry nothing that tells a response of an older broadcast from one of
  the latest.
- *Stale state.* `log_granted_num_` is never reset, `voted_for_` outlives its
  term, `coming_commit_index_` and `matched_log_size_` outlive the truncation of the log,
  the leader table is behind the cluster.
- *Failure.* A stopped server drops what it reads; a majority may be missing;
  a follower reads past its log; nothing is written to disk (the one function that
  should, opens the wrong name), so that a restart forgets everything.
- *2PC on top of Raft.* Locks are released when the PREPARE is committed by Raft,
  before the decision; COMMIT and ABORT go to every server beside the log, and
  also into the log.

**What makes each part correct.** Elections: one leader a term. Log: an index is a
place, a leader never rewrites, a follower holds a prefix. Commit: on a majority, once.
Payments: money moves once per transaction, no account is overdrawn, a lock is held
exactly while an entry is pending, a client gets one answer. 2PC: all or nothing
over two shards, a decision for every transaction, no lost money. Processes: every
socket is closed by somebody, a server goes on accepting, exit ends it.

`PROJECT.json` lists the hazards line by line with the properties that cover them.

## 2. Modules

| module | what it is |
|---|---|
| `RaftLog` | the log and the payments as pure operators: `Appended`, `Slice`, `Matches`, `Merge`, `ApplyPayments`, `Touched`, `Answered` |
| `RaftShard` | one cluster: the servers, their messages, every handler and timer as an action |
| `RoutingService` | the routing service: leader table, queues, coroutines, the coordinator of 2PC, the timeout thread |
| `AtomicCommit` | abstract: what two-phase commit promises of a transaction |
| `ServerProcess` | the server processes, their sockets and descriptors, the commands of `main` and the client |
| `RoutingServiceProperties`, `ServerProcessProperties` | their properties and, for the routing service, the refinement mapping |
| `MCRoutingService`, `MCServerProcess` | transactions and clusters for TLC |
| `LeaderElection` | abstract: what elections promise, without votes or messages |
| `RaftShardProperties` | the type invariant, the properties, the inductive invariant of the election, the refinement mapping |
| `MCRaftShard` | transactions, accounts and symmetry sets for TLC |
| `RaftLogProofs` | what the operators of `RaftLog` return, for every log |
| `RaftShardProofs` | type correctness and index ranges of the cluster |
| `RaftElectionProofs` | the inductive invariant of the election; one leader per term |
| `RaftElectionRefinement` | `RaftShard` implements `LeaderElection` |
| `RaftReplicationProofs` | a leader only appends; an entry's index is its place |
| `RaftServiceProofs` | answers to clients; the payments, locks and balances of the first leader; the servers that follow it |
| `RoutingServiceProofs` | the inductive invariant of the routing service; its 2PC implements `AtomicCommit` |
| `ServerProcessProofs` | types and descriptors of the server processes, what leaks between them, and what kills a server |

### State of a cluster

The variables of `RaftShard` are `RaftState`'s members without the final
underscore, each a function of the server. Beside them:

| variable | code |
|---|---|
| `pretend_fail`, `running` | `AIOServer::pretend_fail_`; the process is alive |
| `votes` | RequestVote messages on their way, a set (a server sends each of them once per term) |
| `appends` | AppendEntries messages on their way, a bag (a heartbeat may repeat itself exactly) |
| `arrived`, `replies` | requests a server handled, and the answers it wrote, as bags |
| `ballots`, `elections` | history only: who voted for whom, who became leader |

`-1` in the code stays `-1` here (indexes), or `Nobody` (`voted_for_`). An index `i` of the
C++ vector is position `i + 1` of the sequence.

### Actions of a cluster

| action | code |
|---|---|
| `FollowerTimeout`, `CandidateTimeout`, `LeaderTimeout` | the timeout branches of `AIOServer::process`, with `broadcast_vote` and `broadcast_heart_beat` inside the action |
| `GrantVote`, `DenyVote` | `RequestVoteExecutor::executeReq` |
| `WinElection`, `OtherVoteRsp` | `RequestVoteExecutor::executeRsp` together with the broadcast that `process` makes after it while the server leads |
| `RejectStaleAppend`, `RejectMismatchedAppend`, `AcceptAppend`, `CrashOnAppend` | `AppendEntriesExecutor::executeReq`: the early returns, the merge with the commit loop, and the commit loop's read past the log |
| `AppendSucceeded`, `AppendFailed`, `OtherAppendRsp` | `AppendEntriesExecutor::executeRsp`, with commitment, unlocking, payments and answers |
| `IntraShardReq`, `PrepareReq`, `CommitReq`, `AbortReq` | the executors of requests |
| `Stop`, `Resume`, `DropVote`, `DropAppend` | the command that makes a server pretend to fail, and what it then does with messages |

### The routing service

`leader_per_cluster`, `transaction_request` and `num_reply_for_2PC` are the tables of
`RoutingService`. A coroutine (one per client request, and one per heartbeat that flushes a
queue, from the set `Flush`) has the steps it still has to take in `work`, the await it
is in in `at` and the server it asked in `server`; `RunOn` takes it to its next
await. `thread` is the timeout thread with its copy of a queue. `told` is what the
client's writer got. `direct`, `refused`, `yes` and `sent` are history.

| action | code (`client/routingservice.py`) |
|---|---|
| `Arrive` | `handle_request`, payment and cross-shard branches up to the first await |
| `HeartBeat`, `RequestVote` | `handle_request`, messages of servers, with the flush of the queue |
| `PaymentAnswered`, `PaymentTimesOut` | `redirect_intra_shard_request_to_server` and what its callers do with the answer |
| `SaysYes`, `SaysNo`, `TimesOut`, `Refuses` | the await in `redirect_cross_shard_request_to_server` comes back |
| `BroadcastEnds` | the end of `broadcast_commit_message` and `broadcast_abort_message` |
| `ScanBegins`, `ScanStep`, `ScanAborted`, `ScanEnds` | `process_message_queue` |

Between two actions of the event loop the thread may take any step, and the other way
round. That is coarser than threads switching between bytecodes: a scan of a queue
is cut at its broadcasts, at its begin and at its end, which are the places where it reads or
writes a shared table and something else may have happened.

### The server processes

`conns` is a bag of connections, each with the state of its two ends. An end is in
the state of the io_uring request armed for it (`connect`, `write`, `read`), `backlog` before it is accepted,
`leaked` when it is open with nothing armed; `fin` and `rst` are how the end of a process
looks from the other side. `process` says whether and how a server ended. Of the sockets that lead out of the
cluster, to clients and to the routing service, only their number is kept, by what they are for: `no_response` are closed after
a write, `req_fd` belong to requests that entries of the log keep, `lost` have nothing armed and nobody to close them.
`troubled` is history.

| action | code |
|---|---|
| `Start`, `ExitCommand` | `main` and `cmd`; servers that cannot be reached are skipped |
| `Message`, `SenderKilled` | a request, Stop or Resume from outside; the death of who connected and did not write |
| `Timeout` | a timer with `broadcast_vote` or `broadcast_heart_beat`: one socket to the routing service, then one to each peer, in order, as long as descriptors last |
| `Connected`, `Refused`, `Written`, `ReadResponse`, `ReadEnd` | `EVENT_CONNECT`, `EVENT_WRITE` and the response on a socket the server opened. A response may commit entries, whose clients are answered, or be a vote, which a leader follows with a broadcast at once (`aIOServer.cpp:312-314`) |
| `Accept`, `AcceptFails`, `Responded` | `EVENT_ACCEPT` and `EVENT_WRITE` on an accepted socket |
| `ReadCommand`, `ReadExit`, `ReadRequest`, `ReadOutside`, `ReadNothing`, `Drop` | the branches of `AIOServer::process`. A client's request is answered, kept in an entry with nothing armed, or left alone when it is for another cluster; an AppendEntries may truncate entries, whose sockets are then lost |
| `Parted` | a socket to the outside is written to and closed, or fails and is lost |
| `Killed` | a signal, or the fault of a read past the log |

### How the modules fit

`RaftShard` takes the routing service as an environment: requests reach any server that
may be named in its table (`Routable`), COMMIT comes only after this cluster's YES, or
after two of the other one (`Decided`, `DoubleCount`). `CommitNeedsTwoYes` of `RoutingService` is what
justifies it: COMMIT is broadcast only after a YES of each cluster, or after two of a cluster whose queue the
transaction was in. The other way round, `SaysYes` lets a cluster say YES to a transaction as often as it is
asked: `PrepareReq` refuses an id only while it is in the log, and another leader may never have had it, or
this one may have lost it by a truncation (`success_lost`). `ServerProcess`
says what becomes of connections and processes whatever is in the messages; `RaftShard`'s
`Stop`, `DropVote` and `DropAppend` are its `ReadCommand` and `Drop`.

## 3. What the model abstracts

- **Time.** A timer may fire at any moment, in any role. The code's fixed timers
  are one of those schedules.
- **Delivery.** At most once, in any order. A message is lost only at a server that is
  stopped or gone. A message that nobody reads yet is simply still on its way.
- **The routing service.** A payment or PREPARE goes to any server that was ever
  elected, since heartbeats reach the router late, or to the last server
  (`LastServer`): when a RequestVote resets the leader to -1
  between the look at the table and the redirect, `-1 - (-1 // 3) * 3 = 2`
  (`Routable`). COMMIT goes to any server once this
  cluster said YES, or (`DoubleCount`) at any time: a queue that is flushed twice makes the
  other cluster answer twice (`Decided`). ABORT goes at any time, because of the
  timeout thread. Requests may repeat. All of that is bounded by `MaxRequests`.
- **ACK answers** are left out: the routing service only prints them.
- **Out-of-range reads.** `prevlogterm` with a negative index reads memory in front of the
  vector; the receiver looks at the term only for `prevlogindex >= 0`, so the
  value is -1 in the model. The commit loop of a follower
  that runs past its log reads memory behind the vector:
  the model chooses between a crash, nothing, and one payment left
  there by `pop_back()` (`CrashOnAppend`, `Beyond`).
- **`log_granted_num_`** stops counting at 2. It is only compared with 2.
- **Amounts** are small integers; strings, prices in the data files and printing are left out.
  Sums over entries, and counts over bags, are written as cardinalities, so that no module
  under proof is recursive: the units of an amount and the copies of a message or a connection are numbered.
- **Descriptors.** A waiting client is a flag in the entry. That a number may be
  reused by the kernel after the connection is closed is not modelled.
- **The clusters, for the routing service.** A server that is asked says YES or NO, does not answer in
  time, or is gone, also when it was asked before. Which servers a broadcast reaches is not modelled,
  only that it is made and that it ends. Whether a writer of the event loop can be awaited in the
  timeout thread's own loop depends on the state of its buffer: both outcomes are possible (`ScanAborted`).
- **Sockets to the outside** are counted and not followed: for the server nothing depends on the other end once the
  request was read or the connection opened. A process outside may die between its connect and its
  write (`SenderKilled`), refuse or reset (`Parted`).
- **What a message says** is left out of `ServerProcess`. So any response may be the vote that a broadcast follows, commit any
  number of waiting entries, and any request of a peer may truncate any number of them: more than a cluster does.
- **Timers** fire at any moment, and nothing holds a broadcast back until the last one is through. What is
  bounded is how many connections a server is not through with (`MaxUnderWay`); those that leaked do not count.
- **The sizes of messages**, the ring of io_uring (submitted after every entry, so never full), and
  the signal of a write to a closed connection are not modelled.
- **Restarts.** There is none in the repository: `main` forks every server once. A process that ended stays
  ended.

## 4. Runs

Servers are `s0 s1 s2`. Payments `t1` (2 units) and `t2` (1 unit) go from `a1`
to `a2`, where `a1` holds 2 units, so that they exclude each other; `t4` pays between two
other accounts; `t3` takes 1 unit from `a1` to another shard.

| run | terms | requests | what it asks |
|---|---|---|---|
| `election` | 2 | 0 | `ElectionSafety`, `ElectionInv`, `ImplementsLeaderElection` with two standing servers and four votes and three AppendEntries overtaking each other |
| `replication` | 2 | 2 | `IndexIsPosition`, `LeaderAppendOnly`, `AnsweredOnce`: a second leader truncates and copies, a payment comes twice and is committed in two terms |
| `leader_payments` | 1 | 2 | `FollowersBehindLeader`, `LeaderBalanceIsEarned`, `LeaderSolvent`, `LocksArePending`: conflicting or repeated payments with responses of older broadcasts on their way, while a server stops, loses messages and resumes |
| `cross_shard` | 1 | 3 | `TypeOK`, `LeaderBalanceIsEarned`, `LocksArePending` with a payment and a cross-shard transaction on one account, COMMIT and ABORT in any order |
| `answered` | 1 | 1 | `WaitingIsAnswered`, under fairness: who waits on a leader is answered while another server stops and resumes |
| `routing` | | 2 | the properties of the routing service, under fairness: a cross-shard transaction and a payment, one change of leader per run, one queue scanned by the timeout thread, one refused connection, one flush at a time |
| `server` | | | the properties of the server processes, under fairness: two servers, two descriptors each, a backlog of one, three connections under way, one message from outside, Exit and one death |

`FollowersBehindLeader`, `LeaderBalanceIsEarned`, `LeaderSolvent` and `LocksArePending`
hold until a second leader is elected (`OneLeader`), in whatever term the first one was. Over a
change of leader they do not hold: the locks of a deposed leader stay, and a follower
may have been paid twice, as `paid_twice` shows. Their runs have `MaxTerm = 1`, where this means always.

`FollowersBehindLeader` is about servers that only replicate (`OnlyReplicates`): a
request that is redirected while no leader is known goes to the last server, which
appends it with the leader's term at the leader's next index, so that its log is no prefix any more.
In `leader_payments` and `answered` the last server is the leader itself;
in `cross_shard` and `replication` it need not be, so that requests are misdirected.

`LeaderSolvent` is about a leader that no cross-shard COMMIT reached, which takes the money
without a look at balance or lock (`overdraft`). `AnsweredOnce` counts the clients that still
wait beside the answers: together they are never more than the requests that came.

`DirectIsAtomic`, `ImplementsAtomicCommit` and `DirectIsAnswered` are about transactions that found both
leaders when they came. For a transaction that had to be queued none of the three
holds: the queue may be flushed twice, lost with a later flush, or aborted beside its COMMIT (`split_decision`).
`CommitNeedsTwoYes` holds for all of them, and says exactly how a COMMIT without both clusters comes about: the transaction was
put in the queue of one of them when it came, and this cluster said YES twice. A transaction that
found both leaders, or that each cluster answers once, is never committed by one of them. That it does happen
for others is the violation run `one_cluster_commit`; the action constraint
`FlushesAskAnother` keeps that run to the traces in which the second flush asks another server than the first, which
is the one that need not have the PREPARE in its log.

`PeerLeaksNeedFailures`, `FatalNeedsADeath` and `ExitEndsServers` say exactly how far trouble
spreads. As soon as one server is told to pretend to fail, every heartbeat to it leaks
a descriptor on both sides; when they are used up, an accept fails and is never armed again: the server is deaf
(`accepting` is false), also for Exit, and `main` waits for it for ever. A process that ends with dropped
requests gives the senders 0 bytes to read, which ends them in `fatal_error`.
`PeerLeaksNeedFailures` is about sockets between servers. Those to clients leak without any failure: a request that is misrouted,
for another cluster, or in an entry that is truncated keeps its descriptor for good (`lost`), and no
property claims otherwise; they are in the model because they use up the same descriptors, so that
`accepting`, and with it `troubled`, depends on them. That is also why the run gives a server no more than two: one broadcast,
or one client that is never answered, is enough to use them up.

**Bounds.** `MaxTerm`, `MaxVotes`, `MaxInFlight`, `MaxStopped`, `MaxRequests` and `MayStand`,
in `RoutingService` `Flush`, `MaxElections`, `MaxScans` and `MaxRefused`, in `ServerProcess` `MaxUnderWay`, `MaxSent` and
`MaxKilled` are conjuncts of the guards; apart from `FlushesAskAnother` nothing else is cut off. They are enough for the cases
the properties are about: two terms give a deposed leader whose messages are
still on their way; four votes give two candidacies at once; three or four
AppendEntries give a response of one broadcast arriving after the next broadcast was sent;
two conflicting payments and a repeated one give a refusal for each of the code's
three reasons; three connections under way give one broadcast behind another.
What these bounds do not reach, three servers or a Resume after a Stop in
`ServerProcess`, delayed AppendEntries in `replication`, is covered by the theorems, whose bounds are arbitrary. Each property was also checked against a plausible bug in the
definition it depends on (`mutants` in `PROJECT.json`), which the same bounds reveal.

**Deadlock** is not checked (`CHECK_DEADLOCK FALSE`): a bounded environment runs out, and
the cluster may really stop, with two servers gone.

**Symmetry.** Servers are interchangeable in `RaftShard` except for what `MayStand`
and `LastServer` say of them, and the two sets of permutations in `MCRaftShard`
respect both. No run with symmetry checks liveness. `ImplementsLeaderElection` and
`LeaderAppendOnly` are safety properties, and they do not tell servers apart either.

**Fairness.** `RaftShard!FairSpec`: the loop of a live server re-arms its timer
after every timeout and takes up every completion, and the kernel completes every read, so weak fairness
of a server's timers, of the votes sent to it, and of the AppendEntries between each pair of servers; none of
Stop, Resume and requests. `RoutingService!FairSpec`: the event loop never blocks and every await ends
(answers are waited for three seconds), and the thread is scheduled; none of clients and heartbeats.
`ServerProcess!FairSpec`: the kernel
completes the connect, write and read requests of a server, and of those accepted from others, when it can (weak fairness
for each server); connections are handed to accept in the order they came, so that a command waits
for finitely many others: strong fairness, since accept may be armed and used up over and over
by connections before it. None of starts, commands, timers and deaths: `ExitEndsServers` begins with the Exit
that is in the backlog.

**What is not promised.** No election is guaranteed to end: without clocks the timers may collide for ever.
Nor does every follower catch up. With a follower that stops and resumes, TLC finds a
run in which failure responses of two broadcasts keep overtaking each other and take `matched_log_size_` below zero for good,
where no slice matches any more; without a stopped server the followers of a stable leader do catch up.
`WaitingIsAnswered` therefore asks for one follower that keeps up, and for it the
last term, which no timer ends.

## 5. What is proved

For any servers, accounts, transactions, amounts and bounds (three servers in a cluster, as in the code):

| theorem | module | statement |
|---|---|---|
| `TypeCorrect` | `RaftShardProofs` | `Spec => []TypeOK` |
| `IndexesStayInRange` | `RaftShardProofs` | `Spec => []LeaderIndexesInRange`: never past the end of the log |
| `ElectionsFitTogether` | `RaftElectionProofs` | `Spec => []ElectionInv` |
| `ElectionIsSafe` | `RaftElectionProofs` | `Spec => []ElectionSafety` |
| `ElectionsImplementLeaderElection` | `RaftElectionRefinement` | `Spec => ImplementsLeaderElection` |
| `LeadersOnlyAppend` | `RaftReplicationProofs` | `Spec => LeaderAppendOnly` |
| `IndexesArePositions` | `RaftReplicationProofs` | `Spec => []IndexIsPosition` |
| `ClientsAreAnsweredOnce` | `RaftServiceProofs` | `Spec => []AnsweredOnce` |
| `FirstLeaderIsInOrder` | `RaftServiceProofs` | `Spec => []LeaderInv` |
| `LeaderLocksArePending` | `RaftServiceProofs` | `Spec => []LocksArePending` |
| `LeaderEarnsItsBalance` | `RaftServiceProofs` | `Spec => []LeaderBalanceIsEarned` |
| `LeaderStaysSolvent` | `RaftServiceProofs` | `Spec => []LeaderSolvent` |
| `FollowersStayBehindLeader` | `RaftServiceProofs` | `Spec => []FollowersBehindLeader` |
| `TypesAreKept` | `RoutingServiceProofs` | `Spec => []TypeOK` (of the routing service) |
| `CommitsNeedTwoYes` | `RoutingServiceProofs` | `Spec => []CommitNeedsTwoYes` |
| `DirectsAreAtomic` | `RoutingServiceProofs` | `Spec => []DirectIsAtomic` |
| `ServiceImplementsAtomicCommit` | `RoutingServiceProofs` | `Spec => ImplementsAtomicCommit` |
| `ProcessTypesAreKept` | `ServerProcessProofs` | `Spec => []TypeOK` (of the server processes) |
| `OnlyTheLivingHaveEnds` | `ServerProcessProofs` | `Spec => []Base` |
| `FatalIsSecondary` | `ServerProcessProofs` | `Spec => []FatalNeedsADeath` |
| `PeersLeakOnlyInTrouble` | `ServerProcessProofs` | `Spec => []PeerLeaksNeedFailures` |

The theorems about the cluster use only the assumptions named in `RaftLog` and `RaftShard`: three servers,
transactions inside the shard name two accounts of it, amounts are naturals up to
`MaxAmount`. The bounds are arbitrary naturals. Those about the routing service use `RoutingAssumption`:
any clusters, servers, requests and flushes, a cross-shard request being one between
two different clusters. Those about the server processes hold for any number of servers, backlog, descriptors,
messages and deaths (`ProcessAssumption`).

**Types and indexes** are one invariant. `AppendSucceeded` reads
`log[s][coming_commit_index[s] + 1]` and a broadcast reads
`log[s][matched_log_size[s][p]]`; that the results have a type depends on a leader's indexes being
inside its log, and that depends on types. `TypeOK` and `LeaderIndexesInRange`
are inductive together: a leader sets both indexes from its own log when it wins, its
log only grows until it leaves its term, and nobody reads them while
it follows another leader, even though its log may then be cut below them. The case it is about, a server that leads, follows a leader
that truncates, and leads again, takes three terms, more than TLC's runs have, so it is stated as a
theorem only. It is one side of the range: nothing keeps `matched_log_size_` from going below zero, where `raftState.cpp:21` reads in front of the
vector (section 3, and `IndexIsPosition` for what such slices do to logs).

**One leader per term.** `ElectionSafety` is not inductive. `ElectionInv` adds what
the handlers keep: a server has one ballot per term, `voted_for_` remembers the ballot of the
current term (and possibly an older one, which only refuses votes), a granted vote on its
way is a ballot, a leader has its own ballot and another server's, a candidate has
not won, and AppendEntries come from elected leaders. Two leaders of one term would
hold two ballots each; among three servers one voter is in both pairs, against one ballot
per term. The counter `vote_granted_num_` is not needed in the argument: one granted vote of the
candidate's own term is enough.

**Refinement.** `leading` is the set of servers whose `role` is `LEADER`. `WinElection` is
`Elect`: the term has had no winner, by the same pairs of ballots. Handlers
that raise a term are `Advance`; all others stutter. That no handler takes the lead away
inside a term uses `LeadersAreElected`: an AppendEntries of the
leader's own term could come only from a second leader, which there is not.

**Replication.** `LeaderAppendOnly` follows from the election invariant: only
`AcceptAppend` shortens a log, and a leader accepts nothing in its own term.
`IndexIsPosition` needs a second half, `EntriesPlaced`: entries carried by an AppendEntries
have the indexes of the places they will be merged at. It covers slices
taken with negative sizes, which are empty.

**The routing service.** Neither `DirectIsAtomic` nor `CommitNeedsTwoYes` is inductive: both hold because of who may ask a
cluster for a request at all. `RInv` says so (`Structure`): the coroutine of a request has steps of this request only,
each cluster once (`OwnSteps`); a request is put only in the queues of its own clusters, and in none when it found its leaders (`OwnQueues`);
flushes and requests that found their leaders queue nothing (`Straight`); and a queue, a flush or the timeout
thread's copy of a cluster knows only requests that were put in the queue of this very cluster (`Apart`).

So a cluster in whose queue a request was not put is asked by the request's own coroutine, once, and
says YES at most once, however often others are flushed (`OnceEach`). `num_reply_for_2PC` is
backed by YES answers that were given: an abort sets it to -1,
from where a late YES leads to 0, which is why the count never reaches 2 without two. Two YES
are then of both clusters, or one was given twice, by a cluster in `queued`: that is `CommitNeedsTwoYes`. The theorem takes no number of answers from
the servers for granted; a cluster may say YES whenever it is asked.

A direct cross-shard request, moreover, is in one of six stages, from `AsksFirst` to `Done`, each with what
was counted, sent and told. Every action moves the steps of one coroutine (`Moves`) and
writes the entries of one request, so that its lemma shows the stages of
this request and cites the rest. For the refinement, the first YES of a cluster in the
first stages is `Agree`, the second one with the decision; NO and a timeout are `Abort`;
what the thread and the flushes do to other requests is a stutter.

**Answers.** A waiting flag (`req_fd` in an entry) is a debt of one answer. `AnswerInv`: what was
answered to a client and what still waits for one is never more than what it asked, and entries
in AppendEntries carry no flag, because `broadcast_heart_beat` does not send `req_fd`. Under it a merge can
only drop flags, and a commit answers the flags of what it covers and clears them (`Answered`). It holds in
all terms, for every server, leader or not.

**The payments of the first leader.** The three properties are not inductive one by one. `LeaderInv` says, of
a server that was elected alone and of every server before the first election, that
it is in order (`InOrder`): what it committed and will commit next is in its log; a lock is held exactly for a pending entry; pending entries share
no account (`LocksHeld`); the balances are what the committed entries and the handled COMMITs moved; and, until a COMMIT
came, who sends a pending payment can afford it (`Covered`). The payments between two values of `commit_index_` are
applied at once by the response that gives the majority, in the model by cardinalities
of the units moved: since the entries that become committed were pending, none is counted twice (`CommitKeepsEarned`). A payment
stays covered because its lock keeps every other pending entry from the sender's account (`CommitKeepsCovered`). The argument never looks at the followers: it
holds also when the leader commits without a majority (section 6).

**The followers of the first leader.** `FollowInv` adds the messages to `FollowersBehindLeader`: the slice that an
AppendEntries carries is in the leader's log at the place it names, and its `commitindex` is not beyond the
leader's (`Behind`). That goes on being true while the leader appends and commits (`BehindGrows`), and merging such a slice into a
prefix of the leader's log makes a prefix (`MergeFollows`), however old it is: truncation by an old
slice makes the prefix shorter, and never different. It needs `ElectionInv`, so that every AppendEntries is
the leader's own, and `LeaderInv`, so that what it commits is in its log.

**The server processes.** Every action does one of a few things (`StepKinds`): it moves one connection on, ends a
process, starts a server, sends a message, broadcasts, perhaps behind a response, or leaves the connections alone; each
invariant is shown once for each kind. `Base` (`Typed`, `OpenEnds`): only processes that run have open ends or an armed accept.

The limit of descriptors, `Few`, counts the ends of a process among numbered copies of connections, and the
sockets to the outside beside them (`Kept`): a request of a client moves from the one to the other, so that no socket is counted twice.
`Accept` and `Broadcast` look at what is left, and a process that dies maps the copies that remain into those that were there.

`BrokenByADeath`: a connection is broken, a read returns nothing, or a server is in `fatal_error` only after an exit or
a kill, in the cluster or outside, which is what `FatalNeedsADeath` says.

`TroubleIsKnown` gives `PeerLeaksNeedFailures`. Beside the property it says that a server that pretends to fail
is in `troubled`, that the far end of a peer's connection is `fin` or `rst` only at a server in `troubled`, and that
peers send nothing but requests. Each place where
the code leaves a socket between servers alone is then one of: a refused connect, a write or read that fails, a
response read while pretending to fail, a command or a dropped request. It asks nothing of the number of descriptors, and
broadcasts may overlap as they like: a server that runs out of descriptors shows in `troubled` when it can accept no more, and
before that a broadcast that gets fewer sockets leaks none.

**What is only model-checked.** The three liveness properties, `WaitingIsAnswered`, `DirectIsAnswered` and `ExitEndsServers`:
liveness under fairness and `ENABLED` are out of the provers' reach. Every invariant and every action property of a
passing run, and both refinements, are proved. Induction over data is out of reach as well, and not needed: no definition of
a proved module is recursive. What section 6 lists is false, and TLC's counterexamples are all there is to show.

## 6. Where the code and its documentation disagree

Each is a run that TLC refutes, with the line in `PROJECT.json` under `findings`.

| run | what happens |
|---|---|
| `paid_twice` | a delayed AppendEntries takes a follower's `commit_index_` back and the next one pays again |
| `success_lost` | a vote of a higher term is given whatever the logs are: a leader without a committed payment |
| `overdraft` | the Raft commit of the PREPARE unlocks the account, a payment takes the money, COMMIT takes it again |
| `split_decision` | the timeout thread aborts a transaction that is still in the queue while its COMMIT is being broadcast |
| `one_cluster_commit` | a request that is queued for both clusters is flushed twice to one of them, whose second leader does not have it in its log: two YES of one cluster are a COMMIT |

Four more are in the model, without a run of their own. `log_granted_num_` is never reset: after two successes of all time, the next
success of one follower, also to an older broadcast, commits everything announced since, although
`appendEntriesExecutor.cpp:88` speaks of a majority. The COMMIT entry may come by AppendEntries before the
COMMIT request, which is then acknowledged and never applied (`CommitReq`). Two entries may have one
index and one term, from a redirect while no leader is known (`Routable`). Requests that are queued during a flush are
lost when it empties the queue (`RunOn`), although `README.md:29` says they are kept until a leader is selected.

## 7. Reproducing

In this directory: `tlc -config election.cfg MCRaftShard` for a run (`PROJECT.json` names the
module of each), `tlapm RaftElectionProofs.tla` for a module of proofs.

## 8. What is left

**Planned.**

1. **`TwoShards`.** The routing service composed with two clusters, abstracted to what
   `RaftShard` promises of a leader: conservation of money over two shards, and
   the locks and balances left after an ABORT. This would replace `Routable` and `Decided`, and say which leaders can give the
   second YES that `SaysYes` allows.
2. **More of `RaftShard`**: the print executors' index ranges (`commit_index_` of a follower
   may be past its log), the locks of a deposed leader.
3. **Proofs**: what is left of `LocksArePending` and `FollowersBehindLeader` after a change of leader: whose locks,
   and which followers' logs, a later leader still vouches for.

**Not modelled.** Wire formats and serializers (generated, field by field), the client's
command line, reading the configuration (none keeps protocol state), the printing of balances
and datastores (read only), the vendored JSON library, and the data files: `load_data_shard` runs once before anything
else, and `update_data_shard` opens a name that does not exist and returns, so that nothing is ever written.
