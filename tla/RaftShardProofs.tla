-------------------------- MODULE RaftShardProofs --------------------------
(***************************************************************************)
(* Type correctness of a cluster, for any accounts, transactions and       *)
(* bounds.  The types are kept only because a leader's indexes lie inside  *)
(* its log: broadcast_heart_beat reads log_[matched_log_size_ - 1] and the *)
(* commit loop log_[coming_commit_index_].  The inductive invariant is     *)
(* therefore the two together.                                             *)
(***************************************************************************)
EXTENDS RaftShardProperties, RaftLogProofs

(* The inductive invariant.                                                *)
TypeInv == TypeOK /\ LeaderIndexesInRange

-----------------------------------------------------------------------------
(* Which messages a bag holds (BagAdd, BagRemove and (+) of the library).  *)

LEMMA BagAddDomain ==
  ASSUME NEW B, NEW x
  PROVE  DOMAIN BagAdd(B, x) = DOMAIN B \cup {x}
  BY DEF BagAdd

LEMMA BagRemoveDomain ==
  ASSUME NEW B, NEW x
  PROVE  DOMAIN BagRemove(B, x) \subseteq DOMAIN B
  BY DEF BagRemove

LEMMA BagUnionDomain ==
  ASSUME NEW B, NEW S
  PROVE  DOMAIN (B (+) SetToBag(S)) = DOMAIN B \cup S
  BY DEF (+), SetToBag

(* A message is told by its type.                                          *)
LEMMA MessageTypes ==
  ASSUME TypeOK
  PROVE  /\ \A m \in votes : m.to \in Server /\ m.from \in Server /\ m.term \in Nat
         /\ \A m \in votes : m.type = "RequestVoteReq" => m \in VoteReq
         /\ \A m \in votes : m.type = "RequestVoteRsp" => m \in VoteResp
         /\ \A m \in DOMAIN appends : m.to \in Server /\ m.from \in Server /\ m.term \in Nat
         /\ \A m \in DOMAIN appends : m.type = "AppendEntriesReq" => m \in AppendReq
         /\ \A m \in DOMAIN appends : m.type = "AppendEntriesRsp" => m \in AppendResp
  <1>1. \A m \in VoteReq : m.to \in Server /\ m.from \in Server /\ m.term \in Nat
                           /\ m.type = "RequestVoteReq"
    BY DEF VoteReq, Term
  <1>2. \A m \in VoteResp : m.to \in Server /\ m.from \in Server /\ m.term \in Nat
                            /\ m.type = "RequestVoteRsp"
    BY DEF VoteResp, Term
  <1>3. \A m \in AppendReq : m.to \in Server /\ m.from \in Server /\ m.term \in Nat
                             /\ m.type = "AppendEntriesReq"
    BY DEF AppendReq, Term
  <1>4. \A m \in AppendResp : m.to \in Server /\ m.from \in Server /\ m.term \in Nat
                              /\ m.type = "AppendEntriesRsp"
    BY DEF AppendResp, Term
  <1>5. votes \subseteq VoteReq \cup VoteResp /\ DOMAIN appends \subseteq AppendReq \cup AppendResp
    BY DEF TypeOK, ElectionTypeOK, LogTypeOK
  <1> QED
    BY <1>1, <1>2, <1>3, <1>4, <1>5

(* A heartbeat is a well-formed message when the peer's matched size is    *)
(* not beyond the leader's log (aIOServer.cpp:86-101).                     *)
LEMMA HeartBeatType ==
  ASSUME TypeOK, NEW s \in Server, NEW p \in Server, NEW size \in Int, size <= Len(log[s])
  PROVE  HeartBeat(s, p, size) \in AppendReq
  <1>1. log[s] \in Seq(Entry) /\ current_term[s] \in Nat /\ commit_index[s] \in Index
    BY DEF TypeOK, ElectionTypeOK, LogTypeOK, Term
  <1>2. Slice(log[s], size) \in Seq(Entry)
    BY <1>1, SliceType
  <1>3. prevlogterm(log[s], size) \in Int
    <2>1. CASE size <= 0
      BY <2>1 DEF prevlogterm
    <2>2. CASE size > 0
      <3>1. log[s][size] \in Entry
        BY <1>1, <2>2
      <3>2. log[s][size].term \in Int
        BY <3>1 DEF Entry
      <3> QED
        BY <2>2, <3>2 DEF prevlogterm
    <2> QED
      BY <2>1, <2>2
  <1>4. prevlogindex(size) \in Int
    BY DEF prevlogindex
  <1> QED
    BY <1>1, <1>2, <1>3, <1>4 DEF HeartBeat, AppendReq, Term

(* A broadcast puts well-formed messages on their way and announces the    *)
(* whole log (aIOServer.cpp:80).                                           *)
LEMMA BroadcastType ==
  ASSUME TypeOK, NEW s \in Server, NEW matched \in [Server -> Int],
         \A p \in Peers(s) : matched[p] <= Len(log[s]),
         broadcast_heart_beat(s, matched)
  PROVE  /\ DOMAIN appends' \subseteq AppendReq \cup AppendResp
         /\ coming_commit_index' = [coming_commit_index EXCEPT ![s] = Len(log[s]) - 1]
         /\ coming_commit_index' \in [Server -> Index]
  <1>1. {HeartBeat(s, p, matched[p]) : p \in Peers(s)} \subseteq AppendReq
    BY HeartBeatType DEF Peers
  <1>2. DOMAIN appends \subseteq AppendReq \cup AppendResp /\ log[s] \in Seq(Entry)
        /\ coming_commit_index \in [Server -> Index]
    BY DEF TypeOK, LogTypeOK
  <1>3. DOMAIN appends' \subseteq AppendReq \cup AppendResp
    BY <1>1, <1>2, BagUnionDomain DEF broadcast_heart_beat
  <1>4. coming_commit_index' = [coming_commit_index EXCEPT ![s] = Len(log[s]) - 1]
    BY DEF broadcast_heart_beat, LastIndex
  <1>5. Len(log[s]) - 1 \in Index
    BY <1>2 DEF Index
  <1> QED
    BY <1>2, <1>3, <1>4, <1>5

-----------------------------------------------------------------------------
(* One lemma for each handler: it keeps the invariant.                     *)

(* A handler that makes no leader, leaves the leader's indexes alone and   *)
(* shortens no leader's log keeps them inside the log.                     *)
LEMMA RangeKept ==
  ASSUME TypeInv, Leading' \subseteq Leading,
         UNCHANGED <<coming_commit_index, matched_log_size>>,
         log' \in [Server -> Seq(Entry)],
         \A s \in Leading' : Len(log[s]) <= Len(log'[s])
  PROVE  LeaderIndexesInRange'
  <1> SUFFICES ASSUME NEW s \in Leading'
               PROVE  /\ coming_commit_index[s] < Len(log'[s])
                      /\ \A p \in Peers(s) : matched_log_size[s][p] <= Len(log'[s])
    BY DEF LeaderIndexesInRange, Peers
  <1>1. s \in Server /\ s \in Leading
    BY DEF Leading
  <1>2. Len(log[s]) \in Int /\ Len(log'[s]) \in Int /\ coming_commit_index[s] \in Int
        /\ \A p \in Peers(s) : matched_log_size[s][p] \in Int
    BY <1>1 DEF TypeInv, TypeOK, LogTypeOK, Index, Peers
  <1>3. coming_commit_index[s] < Len(log[s])
        /\ \A p \in Peers(s) : matched_log_size[s][p] <= Len(log[s])
    BY <1>1 DEF TypeInv, LeaderIndexesInRange
  <1> QED
    BY <1>2, <1>3

(* A candidacy keeps the types of what it changes (aIOServer.cpp:36).      *)
LEMMA VoteBroadcastTypes ==
  ASSUME TypeOK, NEW s \in Server, broadcast_vote(s)
  PROVE  /\ current_term' \in [Server -> Term]
         /\ voted_for' \in [Server -> Server \cup {Nobody}]
         /\ role' \in [Server -> Role]
         /\ vote_granted_num' \in [Server -> Nat]
         /\ votes' \subseteq VoteReq \cup VoteResp
         /\ ballots' \subseteq [voter : Server, term : Term, candidate : Server]
         /\ Leading' \subseteq Leading
  <1> USE DEF TypeOK, ElectionTypeOK
  <1>1. current_term[s] \in Nat /\ current_term[s] + 1 \in Nat
    BY DEF Term
  <1>2. lastlogindex(s) \in Index
    <2>1. log[s] \in Seq(Entry)
      BY DEF LogTypeOK
    <2>2. log[s] # << >> => log[s][Len(log[s])] \in Entry
      BY <2>1
    <2>3. \A e \in Entry : e.index \in Nat
      BY DEF Entry
    <2> QED
      BY <2>2, <2>3 DEF lastlogindex, Index
  <1>3. current_term' \in [Server -> Term] /\ vote_granted_num' \in [Server -> Nat]
    BY <1>1 DEF broadcast_vote, Term
  <1>4. voted_for' \in [Server -> Server \cup {Nobody}]
    BY DEF broadcast_vote
  <1>5. role' \in [Server -> Role] /\ Leading' \subseteq Leading
    BY DEF broadcast_vote, Role, Leading
  <1>6. votes' \subseteq VoteReq \cup VoteResp
    <2>1. \A p \in Peers(s) : [type |-> "RequestVoteReq", from |-> s, to |-> p,
             term |-> current_term[s] + 1, lastlogindex |-> lastlogindex(s)] \in VoteReq
      BY <1>1, <1>2 DEF VoteReq, Peers, Term
    <2> QED
      BY <2>1 DEF broadcast_vote
  <1>7. ballots' \subseteq [voter : Server, term : Term, candidate : Server]
    <2>1. [voter |-> s, term |-> current_term[s] + 1, candidate |-> s]
            \in [voter : Server, term : Term, candidate : Server]
      BY <1>1 DEF Term
    <2> QED
      BY <2>1 DEF broadcast_vote
  <1> QED
    BY <1>3, <1>4, <1>5, <1>6, <1>7

LEMMA FollowerTimeoutTypes ==
  ASSUME TypeInv, NEW s \in Server, FollowerTimeout(s)
  PROVE  TypeInv'
  <1>1. /\ TypeOK
        /\ UNCHANGED <<log, log_granted_num, coming_commit_index, commit_index, matched_log_size,
                       local_balance_tb, local_lock, pretend_fail, running, appends, arrived,
                       replies, elections>>
        /\ heard_heart_beat' = [heard_heart_beat EXCEPT ![s] = FALSE]
    BY DEF TypeInv, FollowerTimeout, commitVars, dataVars, processVars, requestVars
  <1>2. ElectionTypeOK' /\ Leading' \subseteq Leading
    <2>1. CASE heard_heart_beat[s]
      BY <1>1, <2>1 DEF FollowerTimeout, TypeOK, ElectionTypeOK, Leading
    <2>2. CASE ~heard_heart_beat[s]
      <3>1. broadcast_vote(s)
        BY <2>2 DEF FollowerTimeout
      <3> QED
        BY <1>1, <3>1, VoteBroadcastTypes DEF TypeOK, ElectionTypeOK
    <2> QED
      BY <2>1, <2>2
  <1>3. LogTypeOK' /\ ServiceTypeOK'
    BY <1>1 DEF TypeOK, LogTypeOK, ServiceTypeOK
  <1>4. LeaderIndexesInRange'
    <2>1. \A x \in Server : Len(log[x]) \in Int /\ log' \in [Server -> Seq(Entry)]
      BY <1>1 DEF TypeOK, LogTypeOK
    <2> QED
      BY <1>1, <1>2, <2>1, RangeKept DEF Leading
  <1> QED
    BY <1>2, <1>3, <1>4 DEF TypeInv, TypeOK

LEMMA CandidateTimeoutTypes ==
  ASSUME TypeInv, NEW s \in Server, CandidateTimeout(s)
  PROVE  TypeInv'
  <1>1. /\ TypeOK /\ broadcast_vote(s)
        /\ UNCHANGED <<heard_heart_beat, log, log_granted_num, coming_commit_index, commit_index,
                       matched_log_size, local_balance_tb, local_lock, pretend_fail, running,
                       appends, arrived, replies, elections>>
    BY DEF TypeInv, CandidateTimeout, commitVars, dataVars, processVars, requestVars
  <1>2. ElectionTypeOK' /\ Leading' \subseteq Leading
    BY <1>1, VoteBroadcastTypes DEF TypeOK, ElectionTypeOK
  <1>3. LogTypeOK' /\ ServiceTypeOK'
    BY <1>1 DEF TypeOK, LogTypeOK, ServiceTypeOK
  <1>4. LeaderIndexesInRange'
    <2>1. \A x \in Server : Len(log[x]) \in Int /\ log' \in [Server -> Seq(Entry)]
      BY <1>1 DEF TypeOK, LogTypeOK
    <2> QED
      BY <1>1, <1>2, <2>1, RangeKept DEF Leading
  <1> QED
    BY <1>2, <1>3, <1>4 DEF TypeInv, TypeOK

(* A broadcast of a leader keeps the invariant.                            *)
LEMMA BroadcastKeepsRange ==
  ASSUME TypeInv, NEW s \in Server, NEW matched \in [Server -> Int],
         \A p \in Peers(s) : matched[p] <= Len(log[s]),
         broadcast_heart_beat(s, matched),
         matched_log_size' = [matched_log_size EXCEPT ![s] = matched],
         log' = log, Leading' \subseteq Leading \cup {s}
  PROVE  LeaderIndexesInRange'
  <1> SUFFICES ASSUME NEW x \in Leading'
               PROVE  /\ coming_commit_index'[x] < Len(log[x])
                      /\ \A p \in Peers(x) : matched_log_size'[x][p] <= Len(log[x])
    BY DEF LeaderIndexesInRange, Peers
  <1>1. x \in Server /\ x \in Leading \cup {s}
    BY DEF Leading
  <1>2. coming_commit_index' = [coming_commit_index EXCEPT ![s] = Len(log[s]) - 1]
    BY BroadcastType DEF TypeInv
  <1>3. coming_commit_index \in [Server -> Index] /\ matched_log_size \in [Server -> [Server -> Int]]
        /\ Len(log[s]) \in Int
    BY DEF TypeInv, TypeOK, LogTypeOK
  <1>4. CASE x = s
    BY <1>2, <1>3, <1>4
  <1>5. CASE x # s
    BY <1>1, <1>2, <1>3, <1>5 DEF TypeInv, LeaderIndexesInRange
  <1> QED
    BY <1>4, <1>5

LEMMA LeaderTimeoutTypes ==
  ASSUME TypeInv, NEW s \in Server, LeaderTimeout(s)
  PROVE  TypeInv'
  <1>1. /\ TypeOK /\ s \in Leading /\ broadcast_heart_beat(s, matched_log_size[s])
        /\ UNCHANGED <<current_term, voted_for, role, heard_heart_beat, vote_granted_num, log,
                       log_granted_num, commit_index, matched_log_size, local_balance_tb,
                       local_lock, pretend_fail, running, votes, arrived, replies, ballots,
                       elections>>
    BY DEF TypeInv, LeaderTimeout, Leading, electionVars, dataVars, processVars, requestVars,
           historyVars
  <1>2. matched_log_size[s] \in [Server -> Int]
        /\ \A p \in Peers(s) : matched_log_size[s][p] <= Len(log[s])
    BY <1>1 DEF TypeInv, TypeOK, LogTypeOK, LeaderIndexesInRange
  <1>3. DOMAIN appends' \subseteq AppendReq \cup AppendResp /\ coming_commit_index' \in [Server -> Index]
    BY <1>1, <1>2, BroadcastType
  <1>4. ElectionTypeOK' /\ LogTypeOK' /\ ServiceTypeOK'
    BY <1>1, <1>3 DEF TypeOK, ElectionTypeOK, LogTypeOK, ServiceTypeOK
  <1>5. LeaderIndexesInRange'
    <2>1. matched_log_size' = [matched_log_size EXCEPT ![s] = matched_log_size[s]]
      BY <1>1 DEF TypeOK, LogTypeOK
    <2>2. Leading' \subseteq Leading \cup {s}
      BY <1>1 DEF Leading
    <2> QED
      BY <1>1, <1>2, <2>1, <2>2, BroadcastKeepsRange
  <1> QED
    BY <1>4, <1>5 DEF TypeInv, TypeOK

(* A response to a vote request is well-formed.                            *)
LEMMA VoteRspType ==
  ASSUME NEW m \in VoteReq, NEW term \in Nat, NEW granted \in BOOLEAN
  PROVE  VoteRsp(m, term, granted) \in VoteResp
  BY DEF VoteReq, VoteRsp, VoteResp, Term

LEMMA GrantVoteTypes ==
  ASSUME TypeInv, NEW m \in votes, GrantVote(m)
  PROVE  TypeInv'
  <1>1. /\ TypeOK /\ m \in VoteReq /\ m.to \in Server /\ m.from \in Server /\ m.term \in Nat
        /\ UNCHANGED <<vote_granted_num, log, log_granted_num, coming_commit_index, commit_index,
                       matched_log_size, local_balance_tb, local_lock, pretend_fail, running,
                       appends, arrived, replies, elections>>
    BY MessageTypes DEF TypeInv, GrantVote, commitVars, dataVars, processVars, requestVars
  <1>2. votes' \subseteq VoteReq \cup VoteResp
    BY <1>1, VoteRspType DEF GrantVote, TypeOK, ElectionTypeOK
  <1>3. ElectionTypeOK' /\ Leading' \subseteq Leading
    <2>1. ballots' \subseteq [voter : Server, term : Term, candidate : Server]
      BY <1>1 DEF GrantVote, TypeOK, ElectionTypeOK, Term
    <2>2. /\ current_term' = [current_term EXCEPT ![m.to] = m.term]
          /\ voted_for' = [voted_for EXCEPT ![m.to] = m.from]
          /\ role' = [role EXCEPT ![m.to] = "FOLLOWER"]
          /\ heard_heart_beat' = [heard_heart_beat EXCEPT ![m.to] = TRUE]
      BY DEF GrantVote
    <2>3. role' \in [Server -> Role] /\ Leading' \subseteq Leading
      BY <1>1, <2>2 DEF TypeOK, ElectionTypeOK, Leading, Role
    <2> QED
      BY <1>1, <1>2, <2>1, <2>2, <2>3 DEF TypeOK, ElectionTypeOK, Term
  <1>4. LogTypeOK' /\ ServiceTypeOK'
    BY <1>1 DEF TypeOK, LogTypeOK, ServiceTypeOK
  <1>5. LeaderIndexesInRange'
    <2>1. \A x \in Server : Len(log[x]) \in Int /\ log' \in [Server -> Seq(Entry)]
      BY <1>1 DEF TypeOK, LogTypeOK
    <2> QED
      BY <1>1, <1>3, <2>1, RangeKept DEF Leading
  <1> QED
    BY <1>3, <1>4, <1>5 DEF TypeInv, TypeOK

LEMMA DenyVoteTypes ==
  ASSUME TypeInv, NEW m \in votes, DenyVote(m)
  PROVE  TypeInv'
  <1>1. /\ TypeOK /\ m \in VoteReq /\ m.to \in Server
        /\ UNCHANGED <<current_term, voted_for, role, heard_heart_beat, vote_granted_num, log,
                       log_granted_num, coming_commit_index, commit_index, matched_log_size,
                       local_balance_tb, local_lock, pretend_fail, running, appends, arrived,
                       replies, ballots, elections>>
    BY MessageTypes DEF TypeInv, DenyVote, electionVars, commitVars, dataVars, processVars,
                        requestVars, historyVars
  <1>2. current_term[m.to] \in Nat
    BY <1>1 DEF TypeOK, ElectionTypeOK, Term
  <1>3. votes' \subseteq VoteReq \cup VoteResp
    BY <1>1, <1>2, VoteRspType DEF DenyVote, TypeOK, ElectionTypeOK
  <1>4. TypeOK'
    BY <1>1, <1>3 DEF TypeOK, ElectionTypeOK, LogTypeOK, ServiceTypeOK
  <1>5. LeaderIndexesInRange'
    BY <1>1 DEF TypeInv, LeaderIndexesInRange, Leading, Peers
  <1> QED
    BY <1>4, <1>5 DEF TypeInv

LEMMA WinElectionTypes ==
  ASSUME TypeInv, NEW m \in votes, WinElection(m)
  PROVE  TypeInv'
  <1> DEFINE s == m.to
             matched == [p \in Server |-> Len(log[s])]
  <1>1. /\ TypeOK /\ s \in Server
        /\ broadcast_heart_beat(s, matched)
        /\ matched_log_size' = [matched_log_size EXCEPT ![s] = matched]
        /\ UNCHANGED <<current_term, voted_for, heard_heart_beat, log, log_granted_num,
                       commit_index, local_balance_tb, local_lock, pretend_fail, running,
                       arrived, replies, ballots>>
    BY MessageTypes DEF TypeInv, WinElection, dataVars, processVars, requestVars
  <1>2. Len(log[s]) \in Int /\ current_term[s] \in Nat
    BY <1>1 DEF TypeOK, LogTypeOK, ElectionTypeOK, Term
  <1>3. matched \in [Server -> Int] /\ \A p \in Peers(s) : matched[p] <= Len(log[s])
    BY <1>2 DEF Peers
  <1> HIDE DEF matched
  <1>4. DOMAIN appends' \subseteq AppendReq \cup AppendResp /\ coming_commit_index' \in [Server -> Index]
    BY <1>1, <1>3, BroadcastType
  <1>5. Leading' \subseteq Leading \cup {s}
    BY <1>1 DEF WinElection, Leading, TypeOK, ElectionTypeOK
  <1>6. ElectionTypeOK'
    BY <1>1, <1>2 DEF WinElection, TypeOK, ElectionTypeOK, Role, Term
  <1>7. LogTypeOK' /\ ServiceTypeOK'
    BY <1>1, <1>3, <1>4 DEF TypeOK, LogTypeOK, ServiceTypeOK
  <1>8. LeaderIndexesInRange'
    BY <1>1, <1>3, <1>5, BroadcastKeepsRange
  <1> QED
    BY <1>6, <1>7, <1>8 DEF TypeInv, TypeOK

LEMMA OtherVoteRspTypes ==
  ASSUME TypeInv, NEW m \in votes, OtherVoteRsp(m)
  PROVE  TypeInv'
  <1> DEFINE s == m.to
  <1>1. /\ TypeOK /\ s \in Server /\ m.term \in Nat
        /\ votes' \subseteq votes
        /\ UNCHANGED <<voted_for, heard_heart_beat, vote_granted_num, log, log_granted_num,
                       commit_index, matched_log_size, local_balance_tb, local_lock,
                       pretend_fail, running, arrived, replies, ballots, elections>>
    BY MessageTypes DEF TypeInv, OtherVoteRsp, dataVars, processVars, requestVars, historyVars
  <1>2. \A x \in Server : Len(log[x]) \in Int /\ log' \in [Server -> Seq(Entry)]
    BY <1>1 DEF TypeOK, LogTypeOK
  <1>3. ServiceTypeOK'
    BY <1>1 DEF TypeOK, ServiceTypeOK
  <1>4. CASE m.term > current_term[s] \/ role[s] # "LEADER"
    <2>1. UNCHANGED <<appends, coming_commit_index>> /\ ElectionTypeOK' /\ Leading' \subseteq Leading
      BY <1>1, <1>4 DEF OtherVoteRsp, TypeOK, ElectionTypeOK, Leading, Role, Term
    <2>2. LogTypeOK'
      BY <1>1, <2>1 DEF TypeOK, LogTypeOK
    <2>3. LeaderIndexesInRange'
      BY <1>1, <1>2, <2>1, RangeKept DEF Leading
    <2> QED
      BY <1>3, <2>1, <2>2, <2>3 DEF TypeInv, TypeOK
  <1>5. CASE ~(m.term > current_term[s]) /\ role[s] = "LEADER"
    <2>1. /\ UNCHANGED <<current_term, role>> /\ s \in Leading
          /\ broadcast_heart_beat(s, matched_log_size[s])
      BY <1>1, <1>5 DEF OtherVoteRsp, Leading
    <2>2. matched_log_size[s] \in [Server -> Int]
          /\ \A p \in Peers(s) : matched_log_size[s][p] <= Len(log[s])
      BY <1>1, <2>1 DEF TypeInv, TypeOK, LogTypeOK, LeaderIndexesInRange
    <2>3. DOMAIN appends' \subseteq AppendReq \cup AppendResp
          /\ coming_commit_index' \in [Server -> Index]
      BY <1>1, <2>1, <2>2, BroadcastType
    <2>4. ElectionTypeOK' /\ LogTypeOK'
      BY <1>1, <2>1, <2>3 DEF TypeOK, ElectionTypeOK, LogTypeOK
    <2>5. matched_log_size' = [matched_log_size EXCEPT ![s] = matched_log_size[s]]
      BY <1>1 DEF TypeOK, LogTypeOK
    <2>6. Leading' \subseteq Leading \cup {s}
      BY <2>1 DEF Leading
    <2>7. LeaderIndexesInRange'
      BY <1>1, <2>1, <2>2, <2>5, <2>6, BroadcastKeepsRange
    <2> QED
      BY <1>3, <2>4, <2>7 DEF TypeInv, TypeOK
  <1> QED
    BY <1>4, <1>5

(* A response to a heartbeat is well-formed.                               *)
LEMMA ReplyAppendType ==
  ASSUME TypeOK, NEW m \in AppendReq, NEW term \in Nat, NEW success \in BOOLEAN,
         ReplyAppend(m, term, success)
  PROVE  DOMAIN appends' \subseteq AppendReq \cup AppendResp
  <1>1. AppendRsp(m, term, success) \in AppendResp
    BY DEF AppendReq, AppendRsp, AppendResp, Term
  <1>2. DOMAIN appends' = DOMAIN BagRemove(appends, m) \cup {AppendRsp(m, term, success)}
    BY BagAddDomain DEF ReplyAppend
  <1> QED
    BY <1>1, <1>2, BagRemoveDomain DEF TypeOK, LogTypeOK

(* Following a message of at least the own term.                           *)
LEMMA FollowTypes ==
  ASSUME TypeOK, NEW s \in Server, NEW term \in Nat, Follow(s, term),
         UNCHANGED <<votes, ballots, elections>>
  PROVE  ElectionTypeOK' /\ Leading' \subseteq Leading \ {s}
  BY DEF Follow, TypeOK, ElectionTypeOK, Leading, Role, Term

LEMMA RejectStaleAppendTypes ==
  ASSUME TypeInv, NEW m \in DOMAIN appends, RejectStaleAppend(m)
  PROVE  TypeInv'
  <1>1. /\ TypeOK /\ m \in AppendReq /\ m.to \in Server
        /\ ReplyAppend(m, current_term[m.to], FALSE)
        /\ UNCHANGED <<current_term, voted_for, role, heard_heart_beat, vote_granted_num, log,
                       log_granted_num, coming_commit_index, commit_index, matched_log_size,
                       local_balance_tb, local_lock, pretend_fail, running, votes, arrived,
                       replies, ballots, elections>>
    BY MessageTypes DEF TypeInv, RejectStaleAppend, electionVars, commitVars, dataVars,
                        processVars, requestVars, historyVars
  <1>2. current_term[m.to] \in Nat
    BY <1>1 DEF TypeOK, ElectionTypeOK, Term
  <1>3. TypeOK'
    BY <1>1, <1>2, ReplyAppendType DEF TypeOK, ElectionTypeOK, LogTypeOK, ServiceTypeOK
  <1>4. LeaderIndexesInRange'
    BY <1>1 DEF TypeInv, LeaderIndexesInRange, Leading, Peers
  <1> QED
    BY <1>3, <1>4 DEF TypeInv

LEMMA RejectMismatchedAppendTypes ==
  ASSUME TypeInv, NEW m \in DOMAIN appends, RejectMismatchedAppend(m)
  PROVE  TypeInv'
  <1>1. /\ TypeOK /\ m \in AppendReq /\ m.to \in Server /\ m.term \in Nat
        /\ Follow(m.to, m.term) /\ ReplyAppend(m, m.term, FALSE)
        /\ UNCHANGED <<log, log_granted_num, coming_commit_index, commit_index, matched_log_size,
                       local_balance_tb, local_lock, pretend_fail, running, votes, arrived,
                       replies, ballots, elections>>
    BY MessageTypes DEF TypeInv, RejectMismatchedAppend, commitVars, dataVars, processVars,
                        requestVars, historyVars
  <1>2. ElectionTypeOK' /\ Leading' \subseteq Leading
    BY <1>1, FollowTypes
  <1>3. LogTypeOK' /\ ServiceTypeOK'
    BY <1>1, ReplyAppendType DEF TypeOK, LogTypeOK, ServiceTypeOK
  <1>4. LeaderIndexesInRange'
    <2>1. \A x \in Server : Len(log[x]) \in Int /\ log' \in [Server -> Seq(Entry)]
      BY <1>1 DEF TypeOK, LogTypeOK
    <2> QED
      BY <1>1, <1>2, <2>1, RangeKept DEF Leading
  <1> QED
    BY <1>2, <1>3, <1>4 DEF TypeInv, TypeOK

LEMMA AcceptAppendTypes ==
  ASSUME TypeInv, NEW m \in DOMAIN appends, AcceptAppend(m)
  PROVE  TypeInv'
  <1> DEFINE s   == m.to
             lg  == Merge(log[s], m.prevlogindex, m.entries)
             due == Due(s, m.commitindex)
  <1>1. /\ TypeOK /\ m \in AppendReq /\ s \in Server /\ m.term \in Nat
        /\ Follow(s, m.term) /\ ReplyAppend(m, m.term, TRUE)
        /\ log' = [log EXCEPT ![s] = lg]
        /\ commit_index' = [commit_index EXCEPT ![s] = m.commitindex]
        /\ UNCHANGED <<log_granted_num, coming_commit_index, matched_log_size, local_lock,
                       pretend_fail, running, votes, arrived, replies, ballots, elections>>
    BY MessageTypes DEF TypeInv, AcceptAppend, processVars, requestVars, historyVars
  <1>2. /\ m.prevlogindex \in Int /\ m.entries \in Seq(Entry) /\ m.commitindex \in Index
        /\ log[s] \in Seq(Entry) /\ commit_index[s] \in Int
    BY <1>1 DEF AppendReq, TypeOK, LogTypeOK, Index
  <1>3. lg \in Seq(Entry)
    BY <1>2, MergeType DEF AcceptAppend
  <1>4. due = commit_index[s] + 2 .. m.commitindex + 1
        /\ commit_index[s] + 2 \in Int /\ m.commitindex + 1 \in Int
    BY <1>2 DEF Due, Index
  <1>5. local_balance_tb' \in [Server -> [Account -> Int]]
    <2>1. PICK behind \in Beyond(lg, due) :
            local_balance_tb' = [local_balance_tb EXCEPT ![s] =
              ApplyPayments(@, lg \o behind, due \cap DOMAIN (lg \o behind))]
      BY DEF AcceptAppend
    <2>2. due \cap DOMAIN (lg \o behind) \in SUBSET (commit_index[s] + 2 .. m.commitindex + 1)
      BY <1>4
    <2>3. local_balance_tb[s] \in [Account -> Int]
      BY <1>1 DEF TypeOK, ServiceTypeOK
    <2>4. ApplyPayments(local_balance_tb[s], lg \o behind, due \cap DOMAIN (lg \o behind))
            \in [Account -> Int]
      BY <1>4, <2>2, <2>3, ApplyPaymentsType
    <2> QED
      BY <1>1, <2>1, <2>4 DEF TypeOK, ServiceTypeOK
  <1> HIDE DEF lg, due
  <1>6. ElectionTypeOK' /\ Leading' \subseteq Leading \ {s}
    BY <1>1, FollowTypes
  <1>7. LogTypeOK'
    <2>1. DOMAIN appends' \subseteq AppendReq \cup AppendResp
      BY <1>1, ReplyAppendType
    <2>2. log' \in [Server -> Seq(Entry)] /\ commit_index' \in [Server -> Index]
      BY <1>1, <1>2, <1>3 DEF TypeOK, LogTypeOK
    <2> QED
      BY <1>1, <2>1, <2>2 DEF TypeOK, LogTypeOK
  <1>8. ServiceTypeOK'
    BY <1>1, <1>5 DEF TypeOK, ServiceTypeOK
  <1>9. LeaderIndexesInRange'
    <2>1. \A x \in Leading' : log'[x] = log[x] /\ Len(log[x]) \in Int
      BY <1>1, <1>6 DEF Leading, TypeOK, LogTypeOK
    <2>2. Leading' \subseteq Leading /\ log' \in [Server -> Seq(Entry)]
      BY <1>6, <1>7 DEF LogTypeOK
    <2> QED
      BY <1>1, <2>1, <2>2, RangeKept
  <1> QED
    BY <1>6, <1>7, <1>8, <1>9 DEF TypeInv, TypeOK

LEMMA CrashOnAppendTypes ==
  ASSUME TypeInv, NEW m \in DOMAIN appends, CrashOnAppend(m)
  PROVE  TypeInv'
  <1>1. /\ TypeOK
        /\ DOMAIN appends' \subseteq DOMAIN appends
        /\ running' = [running EXCEPT ![m.to] = FALSE]
        /\ UNCHANGED <<current_term, voted_for, role, heard_heart_beat, vote_granted_num, log,
                       log_granted_num, coming_commit_index, commit_index, matched_log_size,
                       local_balance_tb, local_lock, pretend_fail, votes, arrived,
                       replies, ballots, elections>>
    BY BagRemoveDomain DEF TypeInv, CrashOnAppend, electionVars, commitVars, dataVars,
                        requestVars, historyVars
  <1>2. TypeOK'
    BY <1>1 DEF TypeOK, ElectionTypeOK, LogTypeOK, ServiceTypeOK
  <1>3. LeaderIndexesInRange'
    BY <1>1 DEF TypeInv, LeaderIndexesInRange, Leading, Peers
  <1> QED
    BY <1>2, <1>3 DEF TypeInv

LEMMA AppendSucceededTypes ==
  ASSUME TypeInv, NEW m \in DOMAIN appends, AppendSucceeded(m)
  PROVE  TypeInv'
  <1> DEFINE s   == m.to
             due == IF LeaderCommits(s) THEN Due(s, coming_commit_index[s]) ELSE {}
  <1>1. /\ TypeOK /\ s \in Server /\ m.from \in Server /\ s \in Leading
        /\ log' = [log EXCEPT ![s] = Answered(log[s], due)]
        /\ matched_log_size' = [matched_log_size EXCEPT ![s][m.from] = coming_commit_index[s] + 1]
        /\ DOMAIN appends' \subseteq DOMAIN appends
        /\ UNCHANGED <<current_term, voted_for, role, heard_heart_beat, vote_granted_num,
                       coming_commit_index, pretend_fail, running, votes, arrived, ballots,
                       elections>>
    BY MessageTypes, BagRemoveDomain
       DEF TypeInv, AppendSucceeded, Leading, electionVars, processVars, historyVars
  <1>2. /\ log[s] \in Seq(Entry) /\ commit_index[s] \in Index /\ coming_commit_index[s] \in Index
        /\ coming_commit_index[s] < Len(log[s])
    BY <1>1 DEF TypeInv, TypeOK, LogTypeOK, LeaderIndexesInRange
  <1>3. due \subseteq 1 .. coming_commit_index[s] + 1 /\ due \subseteq DOMAIN log[s]
    <2>1. Due(s, coming_commit_index[s]) \subseteq 1 .. coming_commit_index[s] + 1
      BY <1>2 DEF Due, Index
    <2>2. 1 .. coming_commit_index[s] + 1 \subseteq DOMAIN log[s]
      BY <1>2 DEF Index
    <2> QED
      BY <2>1, <2>2
  <1>4. local_balance_tb' \in [Server -> [Account -> Int]]
    <2>1. local_balance_tb[s] \in [Account -> Int]
      BY <1>1 DEF TypeOK, ServiceTypeOK
    <2>2. coming_commit_index[s] + 1 \in Int
      BY <1>2 DEF Index
    <2>3. ApplyPayments(local_balance_tb[s], log[s], due) \in [Account -> Int]
      <3>1. due \in SUBSET (1 .. coming_commit_index[s] + 1) /\ 1 \in Int
        BY <1>3
      <3> HIDE DEF due
      <3> QED
        BY <3>1, <2>1, <2>2, ApplyPaymentsType
    <2>4. local_balance_tb' =
            [local_balance_tb EXCEPT ![s] = ApplyPayments(local_balance_tb[s], log[s], due)]
      BY <1>1 DEF AppendSucceeded, TypeOK, ServiceTypeOK
    <2> QED
      BY <1>1, <2>3, <2>4 DEF TypeOK, ServiceTypeOK
  <1>5. local_lock' \in [Server -> [Account -> BOOLEAN]]
    BY <1>1 DEF AppendSucceeded, TypeOK, ServiceTypeOK
  <1>6. DOMAIN replies' \subseteq Reply
    <2>1. Answers(s, due) \subseteq Reply
      <3>1. \A p \in due : log[s][p] \in Entry
        BY <1>2, <1>3
      <3>2. \A e \in Entry : e.id \in Txn
        BY DEF Entry
      <3> QED
        BY <1>1, <3>1, <3>2 DEF Answers, Reply
    <2>2. DOMAIN replies' = DOMAIN replies \cup Answers(s, due)
      BY BagUnionDomain DEF AppendSucceeded
    <2> QED
      BY <1>1, <2>1, <2>2 DEF TypeOK, ServiceTypeOK
  <1>7. log_granted_num' \in [Server -> 0 .. 2] /\ commit_index' \in [Server -> Index]
    <2>1. GrantedNum(s) \in 0 .. 2
      <3>1. log_granted_num[s] \in 0 .. 2
        BY <1>1 DEF TypeOK, LogTypeOK
      <3> QED
        BY <3>1 DEF GrantedNum
    <2>2. commit_index' \in [Server -> Index]
      BY <1>1, <1>2 DEF AppendSucceeded, TypeOK, LogTypeOK
    <2> QED
      BY <1>1, <2>1, <2>2 DEF AppendSucceeded, TypeOK, LogTypeOK
  <1> HIDE DEF due
  <1>8. log' \in [Server -> Seq(Entry)] /\ \A x \in Server : Len(log'[x]) = Len(log[x])
    <2>1. Answered(log[s], due) \in Seq(Entry) /\ Len(Answered(log[s], due)) = Len(log[s])
      BY <1>2, AnsweredType
    <2> QED
      BY <1>1, <2>1 DEF TypeOK, LogTypeOK
  <1>9. matched_log_size' \in [Server -> [Server -> Int]]
    BY <1>1, <1>2 DEF TypeOK, LogTypeOK, Index
  <1>10. TypeOK'
    BY <1>1, <1>4, <1>5, <1>6, <1>7, <1>8, <1>9
       DEF TypeOK, ElectionTypeOK, LogTypeOK, ServiceTypeOK
  <1>11. LeaderIndexesInRange'
    <2> SUFFICES ASSUME NEW x \in Leading
                 PROVE  /\ coming_commit_index[x] < Len(log[x])
                        /\ \A p \in Peers(x) : matched_log_size'[x][p] <= Len(log[x])
      BY <1>1, <1>8 DEF LeaderIndexesInRange, Leading, Peers
    <2>1. /\ coming_commit_index[x] < Len(log[x])
          /\ \A p \in Peers(x) : matched_log_size[x][p] <= Len(log[x])
      BY DEF TypeInv, LeaderIndexesInRange
    <2>2. \A p \in Server : matched_log_size'[x][p] =
            IF x = s /\ p = m.from THEN coming_commit_index[s] + 1 ELSE matched_log_size[x][p]
      BY <1>1 DEF TypeOK, LogTypeOK, Leading
    <2>3. coming_commit_index[s] + 1 <= Len(log[s])
      BY <1>2 DEF Index
    <2> QED
      BY <2>1, <2>2, <2>3 DEF Peers
  <1> QED
    BY <1>10, <1>11 DEF TypeInv

LEMMA AppendFailedTypes ==
  ASSUME TypeInv, NEW m \in DOMAIN appends, AppendFailed(m)
  PROVE  TypeInv'
  <1> DEFINE s == m.to
  <1>1. /\ TypeOK /\ s \in Server /\ m.from \in Server
        /\ matched_log_size' =
             [matched_log_size EXCEPT ![s][m.from] = matched_log_size[s][m.from] - 1]
        /\ DOMAIN appends' \subseteq DOMAIN appends
        /\ UNCHANGED <<current_term, voted_for, role, heard_heart_beat, vote_granted_num, log,
                       log_granted_num, coming_commit_index, commit_index, local_balance_tb,
                       local_lock, pretend_fail, running, votes, arrived, replies, ballots,
                       elections>>
    BY MessageTypes, BagRemoveDomain
       DEF TypeInv, AppendFailed, electionVars, dataVars, processVars, requestVars, historyVars
  <1>2. matched_log_size' \in [Server -> [Server -> Int]]
    BY <1>1 DEF TypeOK, LogTypeOK
  <1>3. TypeOK'
    BY <1>1, <1>2 DEF TypeOK, ElectionTypeOK, LogTypeOK, ServiceTypeOK
  <1>4. LeaderIndexesInRange'
    <2> SUFFICES ASSUME NEW x \in Leading
                 PROVE  /\ coming_commit_index[x] < Len(log[x])
                        /\ \A p \in Peers(x) : matched_log_size'[x][p] <= Len(log[x])
      BY <1>1 DEF LeaderIndexesInRange, Leading, Peers
    <2>1. /\ coming_commit_index[x] < Len(log[x])
          /\ \A p \in Peers(x) : matched_log_size[x][p] <= Len(log[x])
      BY DEF TypeInv, LeaderIndexesInRange
    <2>2. \A p \in Server : matched_log_size'[x][p] =
            IF x = s /\ p = m.from THEN matched_log_size[x][p] - 1 ELSE matched_log_size[x][p]
      BY <1>1 DEF TypeOK, LogTypeOK, Leading
    <2>3. Len(log[x]) \in Int /\ \A p \in Server : matched_log_size[x][p] \in Int
      BY <1>1 DEF TypeOK, LogTypeOK, Leading
    <2> QED
      BY <2>1, <2>2, <2>3 DEF Peers
  <1> QED
    BY <1>3, <1>4 DEF TypeInv

LEMMA OtherAppendRspTypes ==
  ASSUME TypeInv, NEW m \in DOMAIN appends, OtherAppendRsp(m)
  PROVE  TypeInv'
  <1>1. /\ TypeOK /\ m.to \in Server /\ m.term \in Nat
        /\ DOMAIN appends' \subseteq DOMAIN appends
        /\ UNCHANGED <<voted_for, heard_heart_beat, vote_granted_num, log, log_granted_num,
                       coming_commit_index, commit_index, matched_log_size, local_balance_tb,
                       local_lock, pretend_fail, running, votes, arrived, replies, ballots,
                       elections>>
    BY MessageTypes, BagRemoveDomain
       DEF TypeInv, OtherAppendRsp, commitVars, dataVars, processVars, requestVars, historyVars
  <1>2. ElectionTypeOK' /\ Leading' \subseteq Leading
    BY <1>1 DEF OtherAppendRsp, TypeOK, ElectionTypeOK, Leading, Role, Term
  <1>3. LogTypeOK' /\ ServiceTypeOK'
    BY <1>1 DEF TypeOK, LogTypeOK, ServiceTypeOK
  <1>4. LeaderIndexesInRange'
    <2>1. \A x \in Server : Len(log[x]) \in Int /\ log' \in [Server -> Seq(Entry)]
      BY <1>1 DEF TypeOK, LogTypeOK
    <2> QED
      BY <1>1, <1>2, <2>1, RangeKept DEF Leading
  <1> QED
    BY <1>2, <1>3, <1>4 DEF TypeInv, TypeOK

(* What a request handler may change: the logs grow, the tables and the    *)
(* answers keep their types.                                               *)
LEMMA RequestKeepsTypes ==
  ASSUME TypeInv,
         log' \in [Server -> Seq(Entry)], \A x \in Server : Len(log[x]) <= Len(log'[x]),
         local_balance_tb' \in [Server -> [Account -> Int]],
         local_lock' \in [Server -> [Account -> BOOLEAN]],
         DOMAIN arrived' \subseteq Request, DOMAIN replies' \subseteq Reply,
         UNCHANGED <<electionVars, commitVars, processVars, votes, appends, historyVars>>
  PROVE  TypeInv'
  <1>1. TypeOK /\ UNCHANGED <<current_term, voted_for, role, heard_heart_beat, vote_granted_num,
                              log_granted_num, coming_commit_index, commit_index,
                              matched_log_size, pretend_fail, running, votes, appends, ballots,
                              elections>>
    BY DEF TypeInv, electionVars, commitVars, processVars, historyVars
  <1>2. TypeOK'
    BY <1>1 DEF TypeOK, ElectionTypeOK, LogTypeOK, ServiceTypeOK
  <1>3. Leading' \subseteq Leading /\ Leading \subseteq Server
    BY <1>1 DEF Leading
  <1>4. LeaderIndexesInRange'
    BY <1>1, <1>3, RangeKept
  <1> QED
    BY <1>2, <1>4 DEF TypeInv

(* Pushing an entry, recording a request and answering it.                 *)
LEMMA PushTypes ==
  ASSUME TypeOK, NEW s \in Server, NEW term \in Nat \cup {-1}, NEW kind \in Kind, NEW t \in Txn,
         NEW wait \in BOOLEAN, log' = [log EXCEPT ![s] = Appended(@, term, kind, t, wait)]
  PROVE  log' \in [Server -> Seq(Entry)] /\ \A x \in Server : Len(log[x]) <= Len(log'[x])
  <1>1. log \in [Server -> Seq(Entry)]
    BY DEF TypeOK, LogTypeOK
  <1>2. /\ Appended(log[s], term, kind, t, wait) \in Seq(Entry)
        /\ Len(Appended(log[s], term, kind, t, wait)) = Len(log[s]) + 1
    BY <1>1, AppendedType
  <1>3. \A x \in Server : Len(log[x]) \in Nat
    BY <1>1
  <1>4. log' = [log EXCEPT ![s] = Appended(log[s], term, kind, t, wait)]
    BY <1>1
  <1> QED
    BY <1>1, <1>2, <1>3, <1>4

LEMMA ArriveTypes ==
  ASSUME TypeOK, NEW phase \in Phase, NEW s \in Server, NEW t \in Txn, Arrive(phase, s, t)
  PROVE  DOMAIN arrived' \subseteq Request
  <1>1. [phase |-> phase, to |-> s, id |-> t] \in Request
    BY DEF Request
  <1>2. DOMAIN arrived' = DOMAIN arrived \cup {[phase |-> phase, to |-> s, id |-> t]}
    BY BagAddDomain DEF Arrive
  <1> QED
    BY <1>1, <1>2 DEF TypeOK, ServiceTypeOK

LEMMA AnswerTypes ==
  ASSUME TypeOK, NEW s \in Server, NEW t \in Txn,
         NEW result \in {"SUCCESS", "FAIL", "YES", "NO"}, Answer(s, t, result)
  PROVE  DOMAIN replies' \subseteq Reply
  <1>1. [id |-> t, from |-> s, result |-> result] \in Reply
    BY DEF Reply
  <1>2. DOMAIN replies' = DOMAIN replies \cup {[id |-> t, from |-> s, result |-> result]}
    BY BagAddDomain DEF Answer
  <1> QED
    BY <1>1, <1>2 DEF TypeOK, ServiceTypeOK

LEMMA LockOwnTypes ==
  ASSUME TypeOK, NEW s \in Server, NEW t \in Txn, LockOwn(s, t)
  PROVE  local_lock' \in [Server -> [Account -> BOOLEAN]]
  BY DEF LockOwn, TypeOK, ServiceTypeOK

(* Logs that do not change.                                                *)
LEMMA SameLogTypes ==
  ASSUME TypeOK, log' = log
  PROVE  log' \in [Server -> Seq(Entry)] /\ \A x \in Server : Len(log[x]) <= Len(log'[x])
  <1>1. \A x \in Server : Len(log[x]) \in Nat
    BY DEF TypeOK, LogTypeOK
  <1> QED
    BY <1>1 DEF TypeOK, LogTypeOK

LEMMA IntraShardReqTypes ==
  ASSUME TypeInv, NEW s \in Server, NEW t \in Txn, IntraShardReq(s, t)
  PROVE  TypeInv'
  <1>1. /\ TypeOK /\ Arrive("PAY", s, t)
        /\ local_balance_tb' = local_balance_tb
        /\ UNCHANGED <<electionVars, commitVars, processVars, votes, appends, historyVars>>
    BY DEF TypeInv, IntraShardReq
  <1>2. DOMAIN arrived' \subseteq Request /\ local_balance_tb' \in [Server -> [Account -> Int]]
    BY <1>1, ArriveTypes DEF Phase, Kind, TypeOK, ServiceTypeOK
  <1>3. CASE RefusesPay(s, t)
    <2>1. Answer(s, t, "FAIL") /\ UNCHANGED <<log, local_lock>>
      BY <1>3 DEF IntraShardReq
    <2>2. DOMAIN replies' \subseteq Reply /\ local_lock' \in [Server -> [Account -> BOOLEAN]]
      BY <1>1, <2>1, AnswerTypes DEF TypeOK, ServiceTypeOK
    <2> QED
      BY <1>1, <1>2, <2>1, <2>2, SameLogTypes, RequestKeepsTypes
  <1>4. CASE ~RefusesPay(s, t)
    <2>1. /\ log' = [log EXCEPT ![s] = Appended(@, current_term[s], "PAY", t, TRUE)]
          /\ LockOwn(s, t) /\ replies' = replies
      BY <1>4 DEF IntraShardReq
    <2>2. current_term[s] \in Nat \cup {-1} /\ "PAY" \in Kind
      BY <1>1 DEF TypeOK, ElectionTypeOK, Term, Kind
    <2>3. log' \in [Server -> Seq(Entry)] /\ \A x \in Server : Len(log[x]) <= Len(log'[x])
      BY <1>1, <2>1, <2>2, PushTypes
    <2>4. local_lock' \in [Server -> [Account -> BOOLEAN]] /\ DOMAIN replies' \subseteq Reply
      BY <1>1, <2>1, LockOwnTypes DEF TypeOK, ServiceTypeOK
    <2> QED
      BY <1>1, <1>2, <2>3, <2>4, RequestKeepsTypes
  <1> QED
    BY <1>3, <1>4

LEMMA PrepareReqTypes ==
  ASSUME TypeInv, NEW s \in Server, NEW t \in Txn, PrepareReq(s, t)
  PROVE  TypeInv'
  <1>1. /\ TypeOK /\ Arrive("PREPARE", s, t)
        /\ local_balance_tb' = local_balance_tb
        /\ UNCHANGED <<electionVars, commitVars, processVars, votes, appends, historyVars>>
    BY DEF TypeInv, PrepareReq
  <1>2. DOMAIN arrived' \subseteq Request /\ local_balance_tb' \in [Server -> [Account -> Int]]
    BY <1>1, ArriveTypes DEF Phase, Kind, TypeOK, ServiceTypeOK
  <1>3. CASE RefusesPrepare(s, t)
    <2>1. Answer(s, t, "NO") /\ UNCHANGED <<log, local_lock>>
      BY <1>3 DEF PrepareReq
    <2>2. DOMAIN replies' \subseteq Reply /\ local_lock' \in [Server -> [Account -> BOOLEAN]]
      BY <1>1, <2>1, AnswerTypes DEF TypeOK, ServiceTypeOK
    <2> QED
      BY <1>1, <1>2, <2>1, <2>2, SameLogTypes, RequestKeepsTypes
  <1>4. CASE ~RefusesPrepare(s, t)
    <2>1. /\ log' = [log EXCEPT ![s] = Appended(@, current_term[s], "PREPARE", t, TRUE)]
          /\ LockOwn(s, t) /\ replies' = replies
      BY <1>4 DEF PrepareReq
    <2>2. current_term[s] \in Nat \cup {-1} /\ "PREPARE" \in Kind
      BY <1>1 DEF TypeOK, ElectionTypeOK, Term, Kind
    <2>3. log' \in [Server -> Seq(Entry)] /\ \A x \in Server : Len(log[x]) <= Len(log'[x])
      BY <1>1, <2>1, <2>2, PushTypes
    <2>4. local_lock' \in [Server -> [Account -> BOOLEAN]] /\ DOMAIN replies' \subseteq Reply
      BY <1>1, <2>1, LockOwnTypes DEF TypeOK, ServiceTypeOK
    <2> QED
      BY <1>1, <1>2, <2>3, <2>4, RequestKeepsTypes
  <1> QED
    BY <1>3, <1>4

LEMMA CommitReqTypes ==
  ASSUME TypeInv, NEW s \in Server, NEW t \in Txn, CommitReq(s, t)
  PROVE  TypeInv'
  <1>1. /\ TypeOK /\ Arrive("COMMIT", s, t)
        /\ UNCHANGED <<local_lock, replies>>
        /\ UNCHANGED <<electionVars, commitVars, processVars, votes, appends, historyVars>>
    BY DEF TypeInv, CommitReq
  <1>2. DOMAIN arrived' \subseteq Request /\ DOMAIN replies' \subseteq Reply
        /\ local_lock' \in [Server -> [Account -> BOOLEAN]]
    BY <1>1, ArriveTypes DEF Phase, Kind, TypeOK, ServiceTypeOK
  <1>3. CASE Logged(log[s], {"COMMIT"}, t)
    <2>1. UNCHANGED <<log, local_balance_tb>>
      BY <1>3 DEF CommitReq
    <2>2. local_balance_tb' \in [Server -> [Account -> Int]]
      BY <1>1, <2>1 DEF TypeOK, ServiceTypeOK
    <2> QED
      BY <1>1, <1>2, <2>1, <2>2, SameLogTypes, RequestKeepsTypes
  <1>4. CASE ~Logged(log[s], {"COMMIT"}, t)
    <2>1. /\ log' = [log EXCEPT ![s] = Appended(@, DecisionTerm(s), "COMMIT", t, FALSE)]
          /\ local_balance_tb' = [local_balance_tb EXCEPT ![s] = Transfer(local_balance_tb[s], t)]
      BY <1>1, <1>4 DEF CommitReq, TypeOK, ServiceTypeOK
    <2>2. DecisionTerm(s) \in Nat \cup {-1} /\ "COMMIT" \in Kind
      BY <1>1 DEF DecisionTerm, TypeOK, ElectionTypeOK, Term, Kind
    <2>3. log' \in [Server -> Seq(Entry)] /\ \A x \in Server : Len(log[x]) <= Len(log'[x])
      BY <1>1, <2>1, <2>2, PushTypes
    <2>4. Transfer(local_balance_tb[s], t) \in [Account -> Int]
      BY <1>1, TransferType DEF TypeOK, ServiceTypeOK
    <2>5. local_balance_tb' \in [Server -> [Account -> Int]]
      BY <1>1, <2>1, <2>4 DEF TypeOK, ServiceTypeOK
    <2> QED
      BY <1>1, <1>2, <2>3, <2>5, RequestKeepsTypes
  <1> QED
    BY <1>3, <1>4

LEMMA AbortReqTypes ==
  ASSUME TypeInv, NEW s \in Server, NEW t \in Txn, AbortReq(s, t)
  PROVE  TypeInv'
  <1>1. /\ TypeOK /\ Arrive("ABORT", s, t)
        /\ UNCHANGED <<local_lock, local_balance_tb, replies>>
        /\ UNCHANGED <<electionVars, commitVars, processVars, votes, appends, historyVars>>
    BY DEF TypeInv, AbortReq, dataVars
  <1>2. DOMAIN arrived' \subseteq Request /\ DOMAIN replies' \subseteq Reply
        /\ local_lock' \in [Server -> [Account -> BOOLEAN]]
        /\ local_balance_tb' \in [Server -> [Account -> Int]]
    BY <1>1, ArriveTypes DEF Phase, Kind, TypeOK, ServiceTypeOK
  <1>3. log' \in [Server -> Seq(Entry)] /\ \A x \in Server : Len(log[x]) <= Len(log'[x])
    <2>1. CASE Logged(log[s], {"ABORT"}, t)
      BY <1>1, <2>1, SameLogTypes DEF AbortReq
    <2>2. CASE ~Logged(log[s], {"ABORT"}, t)
      <3>1. log' = [log EXCEPT ![s] = Appended(@, DecisionTerm(s), "ABORT", t, FALSE)]
        BY <2>2 DEF AbortReq
      <3>2. DecisionTerm(s) \in Nat \cup {-1} /\ "ABORT" \in Kind
        BY <1>1 DEF DecisionTerm, TypeOK, ElectionTypeOK, Term, Kind
      <3> QED
        BY <1>1, <3>1, <3>2, PushTypes
    <2> QED
      BY <2>1, <2>2
  <1> QED
    BY <1>1, <1>2, <1>3, RequestKeepsTypes

(* Stop, Resume and dropped messages.                                      *)
LEMMA ProcessTypes ==
  ASSUME TypeInv,
         \/ \E s \in Server : Stop(s) \/ Resume(s)
         \/ \E m \in votes : DropVote(m)
         \/ \E m \in DOMAIN appends : DropAppend(m)
  PROVE  TypeInv'
  <1>1. /\ TypeOK
        /\ UNCHANGED <<current_term, voted_for, role, heard_heart_beat, vote_granted_num, log,
                       log_granted_num, coming_commit_index, commit_index, matched_log_size,
                       local_balance_tb, local_lock, running, arrived, replies, ballots, elections>>
        /\ votes' \subseteq votes
    BY DEF TypeInv, Stop, Resume, DropVote, DropAppend, electionVars, commitVars, dataVars,
           processVars, requestVars, historyVars
  <1>2. DOMAIN appends' \subseteq DOMAIN appends
    BY BagRemoveDomain DEF Stop, Resume, DropVote, DropAppend
  <1>3. pretend_fail' \in [Server -> BOOLEAN]
    BY <1>1 DEF Stop, Resume, DropVote, DropAppend, processVars, TypeOK, ServiceTypeOK
  <1>4. TypeOK'
    BY <1>1, <1>2, <1>3 DEF TypeOK, ElectionTypeOK, LogTypeOK, ServiceTypeOK
  <1>5. LeaderIndexesInRange'
    BY <1>1 DEF TypeInv, LeaderIndexesInRange, Leading, Peers
  <1> QED
    BY <1>4, <1>5 DEF TypeInv

-----------------------------------------------------------------------------
(* The theorem.                                                            *)

LEMMA InitTypes == Init => TypeInv
  <1> SUFFICES ASSUME Init PROVE TypeInv
    OBVIOUS
  <1>1. ElectionTypeOK
    BY DEF Init, ElectionTypeOK, Term, Role
  <1>2. DOMAIN EmptyBag = {}
    BY DEF EmptyBag, SetToBag
  <1>3. LogTypeOK
    BY <1>2 DEF Init, LogTypeOK, Index
  <1>4. ServiceTypeOK
    BY <1>2, BalanceAssumption DEF Init, ServiceTypeOK
  <1>5. LeaderIndexesInRange
    BY DEF Init, LeaderIndexesInRange, Leading
  <1> QED
    BY <1>1, <1>3, <1>4, <1>5 DEF TypeInv, TypeOK

LEMMA StutterTypes == TypeInv /\ UNCHANGED vars => TypeInv'
  BY DEF TypeInv, TypeOK, ElectionTypeOK, LogTypeOK, ServiceTypeOK, LeaderIndexesInRange, Leading,
         Peers, vars, electionVars, commitVars, dataVars, processVars, requestVars, historyVars

LEMMA NextTypes == TypeInv /\ Next => TypeInv'
  <1> SUFFICES ASSUME TypeInv, Next PROVE TypeInv'
    OBVIOUS
  <1>1. ASSUME NEW s \in Server, Timeouts(s) PROVE TypeInv'
    BY <1>1, FollowerTimeoutTypes, CandidateTimeoutTypes, LeaderTimeoutTypes DEF Timeouts
  <1>2. ASSUME NEW s \in Server, Requests(s) PROVE TypeInv'
    BY <1>2, IntraShardReqTypes, PrepareReqTypes, CommitReqTypes, AbortReqTypes, TxnAssumption
       DEF Requests
  <1>3. ASSUME NEW m \in votes, VoteMessages(m) PROVE TypeInv'
    BY <1>3, GrantVoteTypes, DenyVoteTypes, WinElectionTypes, OtherVoteRspTypes, ProcessTypes
       DEF VoteMessages
  <1>4. ASSUME NEW m \in DOMAIN appends, AppendMessages(m) PROVE TypeInv'
    BY <1>4, RejectStaleAppendTypes, RejectMismatchedAppendTypes, AcceptAppendTypes,
       CrashOnAppendTypes, AppendSucceededTypes, AppendFailedTypes, OtherAppendRspTypes, ProcessTypes
       DEF AppendMessages
  <1> QED
    BY <1>1, <1>2, <1>3, <1>4, ProcessTypes DEF Next

(* Every variable keeps its type, whatever the accounts, the transactions  *)
(* and the bounds are: what a handler reads out of messages and logs is    *)
(* what it was written for (server/src/excutor, all handlers).             *)
THEOREM TypeCorrect == Spec => []TypeOK
  <1>1. Spec => []TypeInv
    BY InitTypes, NextTypes, StutterTypes, PTL DEF Spec
  <1> QED
    BY <1>1, PTL DEF TypeInv

(* A leader never reads past the end of its log, in the commit loop and    *)
(* when it broadcasts, although the log may have been truncated since it   *)
(* led before, in any number of terms (appendEntriesExecutor.cpp:88,       *)
(* raftState.cpp:21).                                                      *)
THEOREM IndexesStayInRange == Spec => []LeaderIndexesInRange
  <1>1. Spec => []TypeInv
    BY InitTypes, NextTypes, StutterTypes, PTL DEF Spec
  <1> QED
    BY <1>1, PTL DEF TypeInv

=============================================================================
