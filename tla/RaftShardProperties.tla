------------------------ MODULE RaftShardProperties ------------------------
(***************************************************************************)
(* What a cluster promises (RaftShard), stated over its state and its      *)
(* history variables.                                                      *)
(***************************************************************************)
EXTENDS RaftShard

Term == Nat
Index == Nat \cup {-1}

VoteReq == [type : {"RequestVoteReq"}, from : Server, to : Server, term : Term,
            lastlogindex : Index]
VoteResp == [type : {"RequestVoteRsp"}, from : Server, to : Server, term : Term,
             votegranted : BOOLEAN]
AppendReq == [type : {"AppendEntriesReq"}, from : Server, to : Server, term : Term,
              prevlogindex : Int, prevlogterm : Int, entries : Seq(Entry),
              commitindex : Index]
AppendResp == [type : {"AppendEntriesRsp"}, from : Server, to : Server, term : Term,
               success : BOOLEAN]
Request == [phase : Phase, to : Server, id : Txn]
Reply == [id : Txn, from : Server, result : {"SUCCESS", "FAIL", "YES", "NO"}]

(* Type invariant, the parts that the election is about and the rest. *)
ElectionTypeOK ==
  /\ current_term \in [Server -> Term]
  /\ voted_for \in [Server -> Server \cup {Nobody}]
  /\ role \in [Server -> Role]
  /\ heard_heart_beat \in [Server -> BOOLEAN]
  /\ vote_granted_num \in [Server -> Nat]
  /\ votes \subseteq VoteReq \cup VoteResp
  /\ ballots \subseteq [voter : Server, term : Term, candidate : Server]
  /\ elections \subseteq [term : Term, leader : Server]

LogTypeOK ==
  /\ log \in [Server -> Seq(Entry)]
  /\ log_granted_num \in [Server -> 0 .. 2]
  /\ coming_commit_index \in [Server -> Index]
  /\ commit_index \in [Server -> Index]
  /\ matched_log_size \in [Server -> [Server -> Int]]
  /\ DOMAIN appends \subseteq AppendReq \cup AppendResp

ServiceTypeOK ==
  /\ local_balance_tb \in [Server -> [Account -> Int]]
  /\ local_lock \in [Server -> [Account -> BOOLEAN]]
  /\ pretend_fail \in [Server -> BOOLEAN]
  /\ running \in [Server -> BOOLEAN]
  /\ DOMAIN arrived \subseteq Request
  /\ DOMAIN replies \subseteq Reply

(* Every variable keeps its type: what the handlers read out of messages   *)
(* and logs is what they were written for.                                 *)
TypeOK == ElectionTypeOK /\ LogTypeOK /\ ServiceTypeOK

-----------------------------------------------------------------------------
(* Elections.                                                              *)

Leading == {s \in Server : role[s] = "LEADER"}

(* A term never gets two leaders, however RequestVote messages of several  *)
(* candidacies overtake each other and although voted_for_ survives a term *)
(* change by AppendEntries (requestVoteExecutor.cpp:11-31,                 *)
(* appendEntriesExecutor.cpp:24-27).                                       *)
ElectionSafety == \A e, f \in elections : e.term = f.term => e.leader = f.leader

(* Elections of a cluster implement LeaderElection: a LEADER leads the     *)
(* term it is in, and every handler that changes the role or the term of a *)
(* server is a step (or no step) of the abstract election.                 *)
Election == INSTANCE LeaderElection
              WITH term <- current_term, leading <- Leading, elected <- elections
ImplementsLeaderElection == Election!Spec

-----------------------------------------------------------------------------
(* Replication, over any number of terms.                                  *)

(* The transactions of a log, whoever waits for them. *)
Command(e) == <<e.term, e.index, e.kind, e.id>>
Commands(lg) == [p \in DOMAIN lg |-> Command(lg[p])]

IsPrefixOf(lg, long) ==
  Len(lg) <= Len(long) /\ \A p \in DOMAIN lg : Command(lg[p]) = Command(long[p])

(* A server that leads a term leads it until it enters another one, and    *)
(* meanwhile never drops or rewrites an entry of its log: neither the vote *)
(* of a candidate nor the truncation of AppendEntries                      *)
(* (requestVoteExecutor.cpp:25, appendEntriesExecutor.cpp:26,41-46) can    *)
(* reach a leader within its term.                                         *)
LeaderAppendOnly ==
  [][\A s \in Server :
       role[s] = "LEADER" /\ current_term'[s] = current_term[s]
         => role'[s] = "LEADER" /\ IsPrefixOf(log[s], log'[s])]_vars

(* A leader never indexes its log past the end: the commit loop reads      *)
(* log_[coming_commit_index_] and broadcast_heart_beat                     *)
(* log_[matched_log_size_[idx] - 1], also after log_ was truncated while   *)
(* the server followed another leader (appendEntriesExecutor.cpp:88,       *)
(* raftState.cpp:21).  Below zero matched_log_size_ may go.                *)
LeaderIndexesInRange ==
  \A s \in Leading :
    /\ coming_commit_index[s] < Len(log[s])
    /\ \A p \in Peers(s) : matched_log_size[s][p] <= Len(log[s])

(* The index an entry carries is its place in the log it is in, on every   *)
(* server and after every truncation and copy: lastlogindex(), which reads *)
(* the entry, and log_.size() never disagree (raftState.cpp:8).            *)
IndexIsPosition == \A s \in Server : \A p \in DOMAIN log[s] : log[s][p].index = p - 1

(* The copies of the elements of a bag, told apart by a number.            *)
Copies(bag) == UNION {{x} \X (1 .. bag[x]) : x \in DOMAIN bag}

(* The requests of transaction t that s had to answer, and its answers.    *)
AskedFor(s, t) ==
  {u \in Copies(arrived) : u[1].to = s /\ u[1].id = t /\ u[1].phase \in {"PAY", "PREPARE"}}
AnswersOf(s, t) == {u \in Copies(replies) : u[1].from = s /\ u[1].id = t}

(* The entries of transaction t that a client waits for on s. *)
WaitingFor(s, t) == {p \in DOMAIN log[s] : log[s][p].wait /\ log[s][p].id = t}

(* A request is answered at most once, by the server it came to, and a     *)
(* client that still waits was not answered: although a request may come   *)
(* twice, a new leader commits entries it copied, and an old one commits   *)
(* again what it had committed; req_fd is -1 after the answer and in every *)
(* copy (appendEntriesExecutor.cpp:57,107,126).                            *)
AnsweredOnce ==
  \A s \in Server, t \in Txn :
    Cardinality(AnswersOf(s, t)) + Cardinality(WaitingFor(s, t)) <= Cardinality(AskedFor(s, t))

-----------------------------------------------------------------------------
(* Until a second leader is elected: what the first one promises, in       *)
(* whatever term it was elected, until it hears of another.                *)

OneLeader == \A e, f \in elections : e = f

Committed(s) == 1 .. commit_index[s] + 1
Pending(s) == DOMAIN log[s] \ Committed(s)

(* The cross-shard transactions that lg says have moved their money, and   *)
(* the units that left and reached an account.                             *)
Moved(lg) == {t \in CrossShard : Logged(lg, {"COMMIT"}, t)}
MovedOut(lg, a) == Cardinality({u \in Moved(lg) \X (1 .. MaxAmount) : u[2] <= Debit(u[1], a)})
MovedIn(lg, a) == Cardinality({u \in Moved(lg) \X (1 .. MaxAmount) : u[2] <= Credit(u[1], a)})

(* The balances that follow from the log of s: committed payments, and     *)
(* cross-shard transactions as soon as their COMMIT is in the log.         *)
Earned(s) ==
  LET paid == ApplyPayments(InitialBalance, log[s], Committed(s))
  IN [a \in Account |-> paid[a] - MovedOut(log[s], a) + MovedIn(log[s], a)]

(* The leader's balance table holds every committed transaction exactly    *)
(* once, although success responses of older broadcasts keep arriving and  *)
(* commit what the latest broadcast announced                              *)
(* (appendEntriesExecutor.cpp:88-137).                                     *)
LeaderBalanceIsEarned ==
  OneLeader => \A s \in Leading : local_balance_tb[s] = Earned(s)

(* On the leader an item is locked exactly while an entry that touches it  *)
(* waits to be committed: no lock leaks and none is given up early         *)
(* (intraShardExecutor.cpp:52, crossShardExecutor.cpp:68-73,               *)
(* appendEntriesExecutor.cpp:96-97,116-117).                               *)
LocksArePending ==
  OneLeader =>
    \A s \in Leading : {a \in Account : local_lock[s][a]} = Touched(log[s], Pending(s))

(* The leader never pays out more than an account holds, although the      *)
(* balance is checked when the request arrives and the money moves when a  *)
(* later response commits it (intraShardExecutor.cpp:12): an account that  *)
(* was not overdrawn is not, unless a cross-shard COMMIT reached the       *)
(* leader.                                                                 *)
CommitsReached(s) == \E x \in DOMAIN arrived : x.to = s /\ x.phase = "COMMIT"
LeaderSolvent ==
  OneLeader =>
    \A s \in Leading : ~CommitsReached(s) =>
      \A a \in Account : InitialBalance[a] >= 0 => local_balance_tb[s][a] >= 0

(* A server that only replicates, because no request was redirected or     *)
(* decided to it, holds a prefix of the leader's log, and its commit_index *)
(* is never ahead of the leader's, whatever slices delayed and repeated    *)
(* AppendEntries carry (appendEntriesExecutor.cpp:35-73).                  *)
OnlyReplicates(p) == \A x \in DOMAIN arrived : x.to # p
FollowersBehindLeader ==
  OneLeader =>
    \A s \in Leading : \A p \in Peers(s) : OnlyReplicates(p) =>
      IsPrefixOf(log[p], log[s]) /\ commit_index[p] <= commit_index[s]

-----------------------------------------------------------------------------
(* What must happen, under FairSpec.                                       *)

(* A client that waits on the leader of the last term is answered, also    *)
(* while one of the other servers stops and resumes as it likes: the       *)
(* responses that replication gets from the third server, failures and     *)
(* successes of any broadcast, bring the entry to its commit               *)
(* (appendEntriesExecutor.cpp:81-147, aIOServer.cpp:164-185).              *)
WaitingIsAnswered ==
  \A s \in MayStand : \A p \in Peers(s) : \A t \in Txn :
    <>[](Handles(s) /\ Handles(p)) =>
      ((role[s] = "LEADER" /\ current_term[s] = MaxTerm /\ WaitingFor(s, t) # {})
         ~> WaitingFor(s, t) = {})

-----------------------------------------------------------------------------
(* The inductive invariant behind the election properties.                 *)

Ballot(v, t, c) == [voter |-> v, term |-> t, candidate |-> c]
Won(t, s) == [term |-> t, leader |-> s]

(* A server votes for one candidate a term. *)
OneBallotPerTerm ==
  \A b, c \in ballots : b.voter = c.voter /\ b.term = c.term => b.candidate = c.candidate

(* Votes are never ahead of the voter's term, and voted_for_ remembers the *)
(* vote of the current term.  It may also hold a vote of an older term.    *)
VotedForRemembers ==
  \A b \in ballots :
    /\ b.term <= current_term[b.voter]
    /\ b.term = current_term[b.voter] => voted_for[b.voter] = b.candidate

(* Who is not a follower voted for itself in its term. *)
StandsForItself ==
  \A s \in Server : role[s] # "FOLLOWER" => Ballot(s, current_term[s], s) \in ballots

(* A granted vote on its way is a ballot of another server. *)
GrantsAreBallots ==
  \A m \in votes :
    /\ m.from # m.to
    /\ m.type = "RequestVoteRsp" /\ m.votegranted => Ballot(m.from, m.term, m.to) \in ballots

(* A leader was made by its own ballot and the ballot of a second server. *)
ElectedByTwo ==
  \A e \in elections :
    /\ Ballot(e.leader, e.term, e.leader) \in ballots
    /\ \E v \in Peers(e.leader) : Ballot(v, e.term, e.leader) \in ballots

(* Leaders were elected in their term, candidates not yet, and only an     *)
(* elected leader sends AppendEntries, to others.                          *)
LeadersAreElected ==
  /\ \A s \in Server :
       /\ role[s] = "LEADER" => Won(current_term[s], s) \in elections
       /\ role[s] = "CANDIDATE" => Won(current_term[s], s) \notin elections
  /\ \A m \in DOMAIN appends :
       m.type = "AppendEntriesReq" => m.from # m.to /\ Won(m.term, m.from) \in elections

(* Votes, ballots and elections fit together after every handler; this is  *)
(* what keeps a second leader out of a term.                               *)
ElectionInv ==
  /\ OneBallotPerTerm /\ VotedForRemembers /\ StandsForItself
  /\ GrantsAreBallots /\ ElectedByTwo /\ LeadersAreElected

-----------------------------------------------------------------------------
(* What comments and documents say of the program and the code does not    *)
(* keep.  Each is refuted by a run.                                        *)

(* "Each shard is replicated across all servers within its cluster"        *)
(* (README.md:19): servers that have committed the same log have the same  *)
(* balances.                                                               *)
ReplicasAgree ==
  \A s, p \in Server :
    /\ running[s] /\ running[p]
    /\ Commands(log[s]) = Commands(log[p])
    /\ commit_index[s] = commit_index[p]
    => local_balance_tb[s] = local_balance_tb[p]

(* "strong consistency and fault tolerance for single-shard operations"    *)
(* (README.md:19): a transaction a client was told to have succeeded is in *)
(* the log of the leader of the latest term.                               *)
SucceededIsDurable ==
  \A r \in DOMAIN replies : \A s \in Leading :
    r.result = "SUCCESS" /\ (\A p \in Server : current_term[p] <= current_term[s])
      => Logged(log[s], {"PAY"}, r.id)

(* "Data items in used or sender without enough balance"                   *)
(* (intraShardExecutor.cpp:10): such a transaction is refused, so that no  *)
(* balance of the leader goes below zero, cross-shard transactions         *)
(* included.                                                               *)
NoOverdraft == \A s \in Leading : \A a \in Account : local_balance_tb[s][a] >= 0

=============================================================================
