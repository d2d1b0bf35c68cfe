----------------------------- MODULE RaftShard -----------------------------
(***************************************************************************)
(* One cluster of the database: the servers that replicate one data shard. *)
(* A server is a single thread (AIOServer::run, server/src/aIOServer.cpp)  *)
(* that takes one completion at a time and runs its handler to the end, so *)
(* a handler is one atomic action.                                         *)
(*                                                                         *)
(* Every message travels on a TCP connection of its own: it is delivered   *)
(* at most once, in any order relative to the others, and is lost only     *)
(* when the receiver pretends to have failed (Stop) or is gone.            *)
(*                                                                         *)
(* The variables carry the names of RaftState's members without the final  *)
(* underscore.  Time is not modelled: a timer may fire at any moment.      *)
(***************************************************************************)
EXTENDS RaftLog, BagsExt, Bags

CONSTANTS
  Server,          \* the servers of the cluster
  Nobody,          \* voted_for_ = -1
  LastServer,      \* the server with index 2 in the cluster
  InitialBalance,  \* what load_data_shard reads, [Account -> Int]
  MayStand,        \* bound: servers whose election timer ever fires
  MaxTerm,         \* bound: no election beyond this term
  MaxVotes,        \* bound: RequestVote messages on their way
  MaxInFlight,     \* bound: AppendEntries messages on their way
  MayStop,         \* bound: servers that are ever told to pretend to fail
  MaxStopped,      \* bound: servers that pretend to fail at the same time
  MaxRequests,     \* bound: requests of the routing service, repeated ones too
  DoubleCount      \* bound: the other cluster's YES may be counted twice

(* SERVER_NUM_PER_CLUSTER is 3, and a majority is the literal 2.           *)
ASSUME ServerAssumption ==
  /\ \E a, b, c \in Server : Server = {a, b, c} /\ a # b /\ b # c /\ a # c
  /\ Nobody \notin Server
  /\ LastServer \in Server
ASSUME BoundAssumption ==
  /\ MayStand \subseteq Server /\ MayStop \subseteq Server
  /\ {MaxTerm, MaxVotes, MaxInFlight, MaxStopped, MaxRequests} \subseteq Nat
  /\ DoubleCount \in BOOLEAN
ASSUME BalanceAssumption == InitialBalance \in [Account -> Int]

VARIABLES
  current_term, voted_for, role, heard_heart_beat, vote_granted_num,
  log,
  log_granted_num,      \* counted up to the majority it is compared with
  coming_commit_index, commit_index, matched_log_size,
  local_balance_tb, local_lock,
  pretend_fail,         \* AIOServer::pretend_fail_
  running,              \* the server's process is alive
  votes,                \* RequestVote messages on their way, a set
  appends,              \* AppendEntries messages on their way, a bag
  arrived,              \* requests of the routing service a server handled, a bag
  replies,              \* answers to PAY and PREPARE requests, a bag
  ballots,              \* history: votes given, [voter, term, candidate]
  elections             \* history: leaders made, [term, leader]

electionVars == <<current_term, voted_for, role, heard_heart_beat, vote_granted_num>>
commitVars   == <<log_granted_num, coming_commit_index, commit_index, matched_log_size>>
dataVars     == <<local_balance_tb, local_lock>>
processVars  == <<pretend_fail, running>>
requestVars  == <<arrived, replies>>
historyVars  == <<ballots, elections>>
vars == <<electionVars, log, commitVars, dataVars, processVars, votes, appends,
          requestVars, historyVars>>

Role == {"FOLLOWER", "CANDIDATE", "LEADER"}
Phase == Kind

Init ==
  /\ current_term = [s \in Server |-> 0]
  /\ voted_for = [s \in Server |-> Nobody]
  /\ role = [s \in Server |-> "FOLLOWER"]
  /\ heard_heart_beat = [s \in Server |-> FALSE]
  /\ vote_granted_num = [s \in Server |-> 0]
  /\ log = [s \in Server |-> << >>]
  /\ log_granted_num = [s \in Server |-> 0]
  /\ coming_commit_index = [s \in Server |-> -1]
  /\ commit_index = [s \in Server |-> -1]
  /\ matched_log_size = [s \in Server |-> [p \in Server |-> 0]]
  /\ local_balance_tb = [s \in Server |-> InitialBalance]
  /\ local_lock = [s \in Server |-> [a \in Account |-> FALSE]]
  /\ pretend_fail = [s \in Server |-> FALSE]
  /\ running = [s \in Server |-> TRUE]
  /\ votes = {}
  /\ appends = EmptyBag
  /\ arrived = EmptyBag
  /\ replies = EmptyBag
  /\ ballots = {}
  /\ elections = {}

-----------------------------------------------------------------------------
(* What the handlers are built from.                                       *)

Peers(s) == Server \ {s}

(* The process runs and is not told to pretend otherwise: timers and       *)
(* messages reach their handler.                                           *)
Handles(s) == running[s] /\ ~pretend_fail[s]

lastlogindex(s) == IF log[s] = << >> THEN -1 ELSE log[s][Len(log[s])].index

prevlogindex(matched) == matched - 1

(* matched_log_size_ may be negative: then prevlogterm reads in front of   *)
(* the vector.  What it reads is sent along but the receiver looks at it   *)
(* only when prevlogindex >= 0, so the value does not matter.              *)
prevlogterm(lg, matched) == IF matched <= 0 THEN -1 ELSE lg[matched].term

(* The message of broadcast_heart_beat for one peer; size is the peer's    *)
(* matched_log_size_ at that moment.                                       *)
HeartBeat(s, p, size) ==
  [type |-> "AppendEntriesReq", from |-> s, to |-> p, term |-> current_term[s],
   prevlogindex |-> prevlogindex(size), prevlogterm |-> prevlogterm(log[s], size),
   entries |-> Slice(log[s], size), commitindex |-> commit_index[s]]

AppendRsp(m, term, success) ==
  [type |-> "AppendEntriesRsp", from |-> m.to, to |-> m.from, term |-> term, success |-> success]

VoteRsp(m, term, granted) ==
  [type |-> "RequestVoteRsp", from |-> m.to, to |-> m.from, term |-> term, votegranted |-> granted]

RoomForHeartBeat == BagCardinality(appends) + 2 <= MaxInFlight

(* Faulty variant of LastIndex, for mutation. *)
LastIndexBehind(s) == Len(log[s]) - 2

(* What the next successes commit: the whole log. *)
LastIndex(s) == Len(log[s]) - 1

(* broadcast_heart_beat: every peer gets its own slice of the log.       *)
broadcast_heart_beat(s, matched) ==
  /\ RoomForHeartBeat
  /\ appends' = appends (+) SetToBag({HeartBeat(s, p, matched[p]) : p \in Peers(s)})
  /\ coming_commit_index' = [coming_commit_index EXCEPT ![s] = LastIndex(s)]

(* broadcast_vote: a new term, a vote for itself, a request to the peers. *)
broadcast_vote(s) ==
  LET term == current_term[s] + 1 IN
  /\ s \in MayStand /\ term <= MaxTerm /\ Cardinality(votes) + 2 <= MaxVotes
  /\ current_term' = [current_term EXCEPT ![s] = term]
  /\ role' = [role EXCEPT ![s] = "CANDIDATE"]
  /\ voted_for' = [voted_for EXCEPT ![s] = s]
  /\ vote_granted_num' = [vote_granted_num EXCEPT ![s] = 1]
  /\ votes' = votes \cup
       {[type |-> "RequestVoteReq", from |-> s, to |-> p, term |-> term,
         lastlogindex |-> lastlogindex(s)] : p \in Peers(s)}
  /\ ballots' = ballots \cup {[voter |-> s, term |-> term, candidate |-> s]}

-----------------------------------------------------------------------------
(* EVENT_TIMEOUT.                                                          *)

FollowerTimeout(s) ==
  /\ Handles(s)
  /\ role[s] = "FOLLOWER"
  /\ IF heard_heart_beat[s]
     THEN UNCHANGED <<current_term, voted_for, role, vote_granted_num, votes, ballots>>
     ELSE broadcast_vote(s)
  /\ heard_heart_beat' = [heard_heart_beat EXCEPT ![s] = FALSE]
  /\ UNCHANGED <<log, commitVars, dataVars, processVars, appends, requestVars, elections>>

CandidateTimeout(s) ==
  /\ Handles(s)
  /\ role[s] = "CANDIDATE"
  /\ broadcast_vote(s)
  /\ UNCHANGED <<heard_heart_beat, log, commitVars, dataVars, processVars, appends,
                 requestVars, elections>>

LeaderTimeout(s) ==
  /\ Handles(s)
  /\ role[s] = "LEADER"
  /\ broadcast_heart_beat(s, matched_log_size[s])
  /\ UNCHANGED <<electionVars, log, log_granted_num, commit_index, matched_log_size,
                 dataVars, processVars, votes, requestVars, historyVars>>

-----------------------------------------------------------------------------
(* RequestVoteExecutor.                                                    *)

(* Faulty variant of Grants, for mutation: an earlier vote of the term and *)
(* a tie of the logs do not matter.                                        *)
GrantsAgain(s, m) ==
  \/ m.term > current_term[s]
  \/ m.term = current_term[s] /\ m.lastlogindex >= lastlogindex(s)

(* Outside this condition the request is refused.  A higher term resets    *)
(* voted_for_, so that such a request is granted whatever the logs are;    *)
(* lastLogTerm is never looked at.                                         *)
Grants(s, m) ==
  \/ m.term > current_term[s]
  \/ /\ m.term = current_term[s]
     /\ m.lastlogindex > lastlogindex(s)
     /\ voted_for[s] = Nobody

GrantVote(m) ==
  LET s == m.to IN
  /\ m.type = "RequestVoteReq"
  /\ Handles(s)
  /\ Grants(s, m)
  /\ current_term' = [current_term EXCEPT ![s] = m.term]
  /\ voted_for' = [voted_for EXCEPT ![s] = m.from]
  /\ role' = [role EXCEPT ![s] = "FOLLOWER"]
  /\ heard_heart_beat' = [heard_heart_beat EXCEPT ![s] = TRUE]
  /\ votes' = (votes \ {m}) \cup {VoteRsp(m, m.term, TRUE)}
  /\ ballots' = ballots \cup {[voter |-> s, term |-> m.term, candidate |-> m.from]}
  /\ UNCHANGED <<vote_granted_num, log, commitVars, dataVars, processVars, appends,
                 requestVars, elections>>

DenyVote(m) ==
  /\ m.type = "RequestVoteReq"
  /\ Handles(m.to)
  /\ ~Grants(m.to, m)
  /\ votes' = (votes \ {m}) \cup {VoteRsp(m, current_term[m.to], FALSE)}
  /\ UNCHANGED <<electionVars, log, commitVars, dataVars, processVars, appends,
                 requestVars, historyVars>>

(* Faulty variant of Wins, for mutation: votes of older terms count.       *)
WinsAnyTerm(s, m) == role[s] = "CANDIDATE" /\ m.votegranted /\ vote_granted_num[s] + 1 >= 2

(* A granted vote of this candidacy brings the candidate, which counted    *)
(* itself, to the majority.                                                *)
Wins(s, m) ==
  /\ role[s] = "CANDIDATE"
  /\ m.term = current_term[s]
  /\ m.votegranted
  /\ vote_granted_num[s] + 1 >= 2

(* The new leader takes every peer to have its whole log, and process()    *)
(* broadcasts right away.                                                  *)
WinElection(m) ==
  LET s       == m.to
      matched == [p \in Server |-> Len(log[s])]
  IN
  /\ m.type = "RequestVoteRsp"
  /\ Handles(s)
  /\ Wins(s, m)
  /\ role' = [role EXCEPT ![s] = "LEADER"]
  /\ vote_granted_num' = [vote_granted_num EXCEPT ![s] = @ + 1]
  /\ matched_log_size' = [matched_log_size EXCEPT ![s] = matched]
  /\ votes' = votes \ {m}
  /\ broadcast_heart_beat(s, matched)
  /\ elections' = elections \cup {[term |-> current_term[s], leader |-> s]}
  /\ UNCHANGED <<current_term, voted_for, heard_heart_beat, log, log_granted_num,
                 commit_index, dataVars, processVars, requestVars, ballots>>

(* Any other vote response: it may carry a newer term, and while the       *)
(* server leads, process() answers it with another broadcast.              *)
OtherVoteRsp(m) ==
  LET s == m.to IN
  /\ m.type = "RequestVoteRsp"
  /\ Handles(s)
  /\ ~Wins(s, m)
  /\ votes' = votes \ {m}
  /\ IF m.term > current_term[s]
     THEN /\ current_term' = [current_term EXCEPT ![s] = m.term]
          /\ role' = [role EXCEPT ![s] = "FOLLOWER"]
          /\ UNCHANGED <<appends, coming_commit_index>>
     ELSE /\ UNCHANGED <<current_term, role>>
          /\ IF role[s] = "LEADER"
             THEN broadcast_heart_beat(s, matched_log_size[s])
             ELSE UNCHANGED <<appends, coming_commit_index>>
  /\ UNCHANGED <<voted_for, heard_heart_beat, vote_granted_num, log, log_granted_num,
                 commit_index, matched_log_size, dataVars, processVars, requestVars,
                 historyVars>>

-----------------------------------------------------------------------------
(* AppendEntriesExecutor::executeReq.                                      *)

(* Faulty variant of Due, for mutation: what is committed is due again.    *)
DueFromStart(s, upto) == 1 .. upto + 1

(* Faulty variant of Due, for mutation: the last entry is left out.        *)
DueBelow(s, upto) == commit_index[s] + 2 .. upto

(* Positions of the entries after commit_index up to the index upto. *)
Due(s, upto) == commit_index[s] + 2 .. upto + 1

(* Faulty variant of Follow, for mutation: the role is kept.               *)
FollowKeepsRole(s, term) ==
  /\ current_term' = [current_term EXCEPT ![s] = term]
  /\ heard_heart_beat' = [heard_heart_beat EXCEPT ![s] = TRUE]
  /\ UNCHANGED <<role, voted_for, vote_granted_num>>

(* What a message of at least the own term does before the log is looked   *)
(* at.  voted_for_ stays, also when the term is new.                       *)
Follow(s, term) ==
  /\ current_term' = [current_term EXCEPT ![s] = term]
  /\ role' = [role EXCEPT ![s] = "FOLLOWER"]
  /\ heard_heart_beat' = [heard_heart_beat EXCEPT ![s] = TRUE]
  /\ UNCHANGED <<voted_for, vote_granted_num>>

ReplyAppend(m, term, success) ==
  appends' = BagAdd(BagRemove(appends, m), AppendRsp(m, term, success))

RejectStaleAppend(m) ==
  LET s == m.to IN
  /\ m.type = "AppendEntriesReq"
  /\ Handles(s)
  /\ m.term < current_term[s]
  /\ ReplyAppend(m, current_term[s], FALSE)
  /\ UNCHANGED <<electionVars, log, commitVars, dataVars, processVars, votes,
                 requestVars, historyVars>>

RejectMismatchedAppend(m) ==
  LET s == m.to IN
  /\ m.type = "AppendEntriesReq"
  /\ Handles(s)
  /\ m.term >= current_term[s]
  /\ ~Matches(log[s], m.prevlogindex, m.prevlogterm)
  /\ Follow(s, m.term)
  /\ ReplyAppend(m, m.term, FALSE)
  /\ UNCHANGED <<log, commitVars, dataVars, processVars, votes, requestVars, historyVars>>

(* The commit loop runs to the sender's commit index, also past the end of *)
(* the follower's log, where it reads memory behind the vector: nothing    *)
(* that parses as a payment, or a payment left there by pop_back().        *)
Leftover == {<<[term |-> -1, index |-> 0, kind |-> "PAY", id |-> t, wait |-> FALSE]>> :
               t \in Txn \ CrossShard}

Beyond(lg, due) == IF due \subseteq DOMAIN lg THEN {<< >>} ELSE {<< >>} \cup Leftover

AcceptAppend(m) ==
  LET s   == m.to
      lg  == Merge(log[s], m.prevlogindex, m.entries)
      due == Due(s, m.commitindex)
  IN
  /\ m.type = "AppendEntriesReq"
  /\ Handles(s)
  /\ m.term >= current_term[s]
  /\ Matches(log[s], m.prevlogindex, m.prevlogterm)
  /\ Follow(s, m.term)
  /\ log' = [log EXCEPT ![s] = lg]
  /\ \E behind \in Beyond(lg, due) :
       LET memory == lg \o behind
       IN local_balance_tb' =
            [local_balance_tb EXCEPT ![s] = ApplyPayments(@, memory, due \cap DOMAIN memory)]
  /\ commit_index' = [commit_index EXCEPT ![s] = m.commitindex]
  /\ ReplyAppend(m, m.term, TRUE)
  /\ UNCHANGED <<log_granted_num, coming_commit_index, matched_log_size, local_lock,
                 processVars, votes, requestVars, historyVars>>

(* The read past the end may also fault: the process dies before it        *)
(* replies, and nothing it held in memory is seen again.                   *)
CrashOnAppend(m) ==
  LET s == m.to IN
  /\ m.type = "AppendEntriesReq"
  /\ Handles(s)
  /\ m.term >= current_term[s]
  /\ Matches(log[s], m.prevlogindex, m.prevlogterm)
  /\ ~(Due(s, m.commitindex) \subseteq DOMAIN Merge(log[s], m.prevlogindex, m.entries))
  /\ running' = [running EXCEPT ![s] = FALSE]
  /\ appends' = BagRemove(appends, m)
  /\ UNCHANGED <<electionVars, log, commitVars, dataVars, pretend_fail, votes,
                 requestVars, historyVars>>

-----------------------------------------------------------------------------
(* AppendEntriesExecutor::executeRsp.                                      *)

(* log_granted_num_ is never reset; counting stops at the majority, the    *)
(* only value it is compared with.                                         *)
GrantedNum(s) == IF log_granted_num[s] >= 1 THEN 2 ELSE log_granted_num[s] + 1

LeaderCommits(s) ==
  /\ GrantedNum(s) >= 2
  /\ coming_commit_index[s] >= 0
  /\ log[s][coming_commit_index[s] + 1].term = current_term[s]

(* The client of a committed entry that still waits gets its answer: YES   *)
(* for a PREPARE, SUCCESS for a payment.                                   *)
Answers(s, due) ==
  {[id |-> log[s][p].id, from |-> s,
    result |-> IF log[s][p].kind = "PREPARE" THEN "YES" ELSE "SUCCESS"] :
     p \in {q \in due : log[s][q].wait}}

AppendSucceeded(m) ==
  LET s   == m.to
      due == IF LeaderCommits(s) THEN Due(s, coming_commit_index[s]) ELSE {}
  IN
  /\ m.type = "AppendEntriesRsp"
  /\ Handles(s)
  /\ role[s] = "LEADER"
  /\ m.term = current_term[s]
  /\ m.success
  /\ log_granted_num' = [log_granted_num EXCEPT ![s] = GrantedNum(s)]
  /\ local_lock' = [local_lock EXCEPT ![s] =
                      [a \in Account |-> @[a] /\ a \notin Touched(log[s], due)]]
  /\ local_balance_tb' = [local_balance_tb EXCEPT ![s] = ApplyPayments(@, log[s], due)]
  /\ replies' = replies (+) SetToBag(Answers(s, due))
  /\ log' = [log EXCEPT ![s] = Answered(@, due)]
  /\ commit_index' =
       [commit_index EXCEPT ![s] = IF LeaderCommits(s) THEN coming_commit_index[s] ELSE @]
  /\ matched_log_size' = [matched_log_size EXCEPT ![s][m.from] = coming_commit_index[s] + 1]
  /\ appends' = BagRemove(appends, m)
  /\ UNCHANGED <<electionVars, coming_commit_index, processVars, votes, arrived, historyVars>>

AppendFailed(m) ==
  LET s == m.to IN
  /\ m.type = "AppendEntriesRsp"
  /\ Handles(s)
  /\ role[s] = "LEADER"
  /\ m.term = current_term[s]
  /\ ~m.success
  /\ matched_log_size' = [matched_log_size EXCEPT ![s][m.from] = @ - 1]
  /\ appends' = BagRemove(appends, m)
  /\ UNCHANGED <<electionVars, log, log_granted_num, coming_commit_index, commit_index,
                 dataVars, processVars, votes, requestVars, historyVars>>

(* A response of another term, or to a server that no longer leads. *)
OtherAppendRsp(m) ==
  LET s == m.to IN
  /\ m.type = "AppendEntriesRsp"
  /\ Handles(s)
  /\ role[s] # "LEADER" \/ m.term # current_term[s]
  /\ IF m.term > current_term[s]
     THEN /\ current_term' = [current_term EXCEPT ![s] = m.term]
          /\ role' = [role EXCEPT ![s] = "FOLLOWER"]
     ELSE UNCHANGED <<current_term, role>>
  /\ appends' = BagRemove(appends, m)
  /\ UNCHANGED <<voted_for, heard_heart_beat, vote_granted_num, log, commitVars, dataVars,
                 processVars, votes, requestVars, historyVars>>

-----------------------------------------------------------------------------
(* IntraShardExecutor and CrossShardExecutor.  The server's role is not    *)
(* asked for.  ACK answers are left out: the routing service only prints   *)
(* them.                                                                   *)

Arrive(phase, s, t) == arrived' = BagAdd(arrived, [phase |-> phase, to |-> s, id |-> t])

Answer(s, t, result) == replies' = BagAdd(replies, [id |-> t, from |-> s, result |-> result])

(* The accounts of transaction t that belong to this shard. *)
Own(t) == {Sender[t], Receiver[t]} \cap Account

Short(s, t) == Sender[t] \in Account /\ local_balance_tb[s][Sender[t]] < Amount[t]

(* Faulty variant of LockOwn, for mutation: the receiver stays unlocked.   *)
LockSender(s, t) ==
  local_lock' = [local_lock EXCEPT ![s] = [a \in Account |-> @[a] \/ a = Sender[t]]]

LockOwn(s, t) ==
  local_lock' = [local_lock EXCEPT ![s] = [a \in Account |-> @[a] \/ a \in Own(t)]]

(* Faulty variant of RefusesPay, for mutation: locks are not looked at.    *)
RefusesPayUnlocked(s, t) == Short(s, t) \/ Logged(log[s], Kind, t)

(* The items are in use or the sender is short, or the id is known. *)
RefusesPay(s, t) ==
  \/ \E a \in Own(t) : local_lock[s][a]
  \/ Short(s, t)
  \/ Logged(log[s], Kind, t)

IntraShardReq(s, t) ==
  /\ Handles(s)
  /\ Arrive("PAY", s, t)
  /\ IF RefusesPay(s, t)
     THEN /\ Answer(s, t, "FAIL")
          /\ UNCHANGED <<log, local_lock>>
     ELSE /\ log' = [log EXCEPT ![s] = Appended(@, current_term[s], "PAY", t, TRUE)]
          /\ LockOwn(s, t)
          /\ UNCHANGED replies
  /\ UNCHANGED <<electionVars, commitVars, local_balance_tb, processVars, votes, appends,
                 historyVars>>

RefusesPrepare(s, t) ==
  \/ \E a \in Own(t) : local_lock[s][a]
  \/ Short(s, t)
  \/ Logged(log[s], {"PREPARE", "ABORT"}, t)

PrepareReq(s, t) ==
  /\ Handles(s)
  /\ Arrive("PREPARE", s, t)
  /\ IF RefusesPrepare(s, t)
     THEN /\ Answer(s, t, "NO")
          /\ UNCHANGED <<log, local_lock>>
     ELSE /\ log' = [log EXCEPT ![s] = Appended(@, current_term[s], "PREPARE", t, TRUE)]
          /\ LockOwn(s, t)
          /\ UNCHANGED replies
  /\ UNCHANGED <<electionVars, commitVars, local_balance_tb, processVars, votes, appends,
                 historyVars>>

(* The term a server gives to a COMMIT or ABORT entry of its own. *)
DecisionTerm(s) == IF role[s] = "LEADER" THEN current_term[s] ELSE -1

(* COMMIT moves the money at once, on every server it reaches, unless the  *)
(* log already holds the entry; locks are left as they are.                *)
CommitReq(s, t) ==
  /\ Handles(s)
  /\ Arrive("COMMIT", s, t)
  /\ IF Logged(log[s], {"COMMIT"}, t)
     THEN UNCHANGED <<log, local_balance_tb>>
     ELSE /\ log' = [log EXCEPT ![s] = Appended(@, DecisionTerm(s), "COMMIT", t, FALSE)]
          /\ local_balance_tb' = [local_balance_tb EXCEPT ![s] = Transfer(@, t)]
  /\ UNCHANGED <<electionVars, commitVars, local_lock, processVars, votes, appends,
                 replies, historyVars>>

AbortReq(s, t) ==
  /\ Handles(s)
  /\ Arrive("ABORT", s, t)
  /\ log' = IF Logged(log[s], {"ABORT"}, t) THEN log
            ELSE [log EXCEPT ![s] = Appended(@, DecisionTerm(s), "ABORT", t, FALSE)]
  /\ UNCHANGED <<electionVars, commitVars, dataVars, processVars, votes, appends,
                 replies, historyVars>>

-----------------------------------------------------------------------------
(* Stop, Resume, and what they cost.                                       *)

Stop(s) ==
  /\ running[s] /\ ~pretend_fail[s]
  /\ s \in MayStop
  /\ Cardinality({x \in Server : pretend_fail[x]}) < MaxStopped
  /\ pretend_fail' = [pretend_fail EXCEPT ![s] = TRUE]
  /\ UNCHANGED <<electionVars, log, commitVars, dataVars, running, votes, appends,
                 requestVars, historyVars>>

Resume(s) ==
  /\ running[s] /\ pretend_fail[s]
  /\ pretend_fail' = [pretend_fail EXCEPT ![s] = FALSE]
  /\ UNCHANGED <<electionVars, log, commitVars, dataVars, running, votes, appends,
                 requestVars, historyVars>>

(* A server that pretends to fail reads a message and drops it; one that   *)
(* is gone never reads it.  Nobody is told.                                *)
DropVote(m) ==
  /\ ~Handles(m.to)
  /\ votes' = votes \ {m}
  /\ UNCHANGED <<electionVars, log, commitVars, dataVars, processVars, appends,
                 requestVars, historyVars>>

DropAppend(m) ==
  /\ ~Handles(m.to)
  /\ appends' = BagRemove(appends, m)
  /\ UNCHANGED <<electionVars, log, commitVars, dataVars, processVars, votes,
                 requestVars, historyVars>>

-----------------------------------------------------------------------------
(* The routing service as this cluster sees it (client/routingservice.py). *)

(* It redirects to the sender of the latest heartbeat it has read, and     *)
(* heartbeats may reach it late: to any server that ever was elected.  A   *)
(* RequestVote resets the leader to -1; what was about to be redirected    *)
(* then goes to index -1 - (-1 // 3) * 3 = 2, the last server.  A queue    *)
(* that is flushed twice sends a request twice.                            *)
Routable(s) ==
  /\ BagCardinality(arrived) < MaxRequests
  /\ \E e \in elections : e.leader = s \/ s = LastServer

(* A COMMIT goes to all servers once two YES are counted: this cluster's   *)
(* and the other one's, which is not seen here, or the other one's twice   *)
(* when its queue was flushed to two leaders.  An ABORT goes to all        *)
(* servers at any time, also beside a COMMIT: the queue's timeout thread   *)
(* and the reader of the answers race.                                     *)
Decided(phase, t) ==
  /\ BagCardinality(arrived) < MaxRequests
  /\ phase = "COMMIT" => DoubleCount \/ \E r \in DOMAIN replies : r.id = t /\ r.result = "YES"

Requests(s) ==
  \/ \E t \in Txn \ CrossShard : Routable(s) /\ IntraShardReq(s, t)
  \/ \E t \in CrossShard :
       \/ Routable(s) /\ PrepareReq(s, t)
       \/ Decided("COMMIT", t) /\ CommitReq(s, t)
       \/ Decided("ABORT", t) /\ AbortReq(s, t)

Timeouts(s) == FollowerTimeout(s) \/ CandidateTimeout(s) \/ LeaderTimeout(s)

VoteMessages(m) == GrantVote(m) \/ DenyVote(m) \/ WinElection(m) \/ OtherVoteRsp(m) \/ DropVote(m)

AppendMessages(m) ==
  \/ RejectStaleAppend(m) \/ RejectMismatchedAppend(m) \/ AcceptAppend(m) \/ CrashOnAppend(m)
  \/ AppendSucceeded(m) \/ AppendFailed(m) \/ OtherAppendRsp(m) \/ DropAppend(m)

Next ==
  \/ \E s \in Server : Timeouts(s) \/ Requests(s) \/ Stop(s) \/ Resume(s)
  \/ \E m \in votes : VoteMessages(m)
  \/ \E m \in DOMAIN appends : AppendMessages(m)

Spec == Init /\ [][Next]_vars

(* The loop of a live server re-arms its timer and takes up every          *)
(* completion, and the kernel completes every read: no connection between  *)
(* two servers is left aside for ever.  Stop, Resume and requests come     *)
(* when they come.                                                         *)
Fairness ==
  \A s \in Server :
    /\ WF_vars(Timeouts(s))
    /\ WF_vars(\E m \in votes : m.to = s /\ VoteMessages(m))
    /\ \A p \in Peers(s) :
         WF_vars(\E m \in DOMAIN appends : m.to = s /\ m.from = p /\ AppendMessages(m))

FairSpec == Spec /\ Fairness

=============================================================================
