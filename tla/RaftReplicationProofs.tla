----------------------- MODULE RaftReplicationProofs -----------------------
(***************************************************************************)
(* What replication does to a log, in every term and with any messages:    *)
(* a leader only appends to its own, and an entry's index is its place.    *)
(***************************************************************************)
EXTENDS RaftElectionProofs

-----------------------------------------------------------------------------
(* The ways a log changes.                                                 *)

(* An executor pushed an entry, or clients were answered.                  *)
Extended(lg, new) ==
  \/ new = lg
  \/ \E term \in Nat \cup {-1}, kind \in Kind, t \in Txn, wait \in BOOLEAN :
       new = Appended(lg, term, kind, t, wait)
  \/ \E P : new = Answered(lg, P)

(* A log that is extended keeps the entries it had (intraShardExecutor.cpp *)
(* and crossShardExecutor.cpp push_back, the req_fd reset of               *)
(* appendEntriesExecutor.cpp:107,126).                                     *)
LEMMA ExtendedKeepsEntries ==
  ASSUME NEW lg \in Seq(Entry), NEW new, Extended(lg, new)
  PROVE  IsPrefixOf(lg, new)
  <1>1. CASE new = lg
    BY <1>1 DEF IsPrefixOf
  <1>2. ASSUME NEW term \in Nat \cup {-1}, NEW kind \in Kind, NEW t \in Txn, NEW wait \in BOOLEAN,
               new = Appended(lg, term, kind, t, wait)
        PROVE  IsPrefixOf(lg, new)
    <2>1. Len(new) = Len(lg) + 1
      BY <1>2, AppendedType
    <2>2. \A p \in DOMAIN lg : new[p] = lg[p]
      BY <1>2 DEF Appended
    <2> QED
      BY <2>1, <2>2 DEF IsPrefixOf
  <1>3. ASSUME NEW P, new = Answered(lg, P)
        PROVE  IsPrefixOf(lg, new)
    <2>1. Len(new) = Len(lg)
      BY <1>3, AnsweredType
    <2>2. ASSUME NEW p \in DOMAIN lg PROVE Command(lg[p]) = Command(new[p])
      <3>1. CASE p \in P
        BY <1>3, <3>1 DEF Answered, WithoutFd, Command
      <3>2. CASE p \notin P
        BY <1>3, <3>2 DEF Answered
      <3> QED
        BY <3>1, <3>2
    <2> QED
      BY <2>1, <2>2 DEF IsPrefixOf
  <1> QED
    BY <1>1, <1>2, <1>3 DEF Extended

(* The entry a request pushes (intraShardExecutor.cpp:41-49,               *)
(* crossShardExecutor.cpp:57-65,92-100,139-147).                           *)
LEMMA RequestExtends ==
  ASSUME TypeOK, NEW s \in Server, Requests(s), NEW x \in Server
  PROVE  Extended(log[x], log'[x])
  <1>1. log \in [Server -> Seq(Entry)] /\ current_term[s] \in Nat
    BY DEF TypeOK, LogTypeOK, ElectionTypeOK, Term
  <1>2. DecisionTerm(s) \in Nat \cup {-1}
    BY <1>1 DEF DecisionTerm
  <1>3. PICK t \in Txn : IntraShardReq(s, t) \/ PrepareReq(s, t) \/ CommitReq(s, t) \/ AbortReq(s, t)
    BY TxnAssumption DEF Requests
  <1>4. \/ log' = log
        \/ \E term \in Nat \cup {-1}, kind \in Kind, wait \in BOOLEAN :
             log' = [log EXCEPT ![s] = Appended(log[s], term, kind, t, wait)]
    <2>1. CASE IntraShardReq(s, t)
      BY <1>1, <2>1 DEF IntraShardReq, Kind
    <2>2. CASE PrepareReq(s, t)
      BY <1>1, <2>2 DEF PrepareReq, Kind
    <2>3. CASE CommitReq(s, t)
      BY <1>2, <2>3 DEF CommitReq, Kind
    <2>4. CASE AbortReq(s, t)
      BY <1>2, <2>4 DEF AbortReq, Kind
    <2> QED
      BY <1>3, <2>1, <2>2, <2>3, <2>4
  <1>5. CASE log' = log
    BY <1>5 DEF Extended
  <1>6. ASSUME NEW term \in Nat \cup {-1}, NEW kind \in Kind, NEW wait \in BOOLEAN,
               log' = [log EXCEPT ![s] = Appended(log[s], term, kind, t, wait)]
        PROVE  Extended(log[x], log'[x])
    <2>1. CASE x = s
      BY <1>1, <1>6, <2>1 DEF Extended
    <2>2. CASE x # s
      BY <1>1, <1>6, <2>2 DEF Extended
    <2> QED
      BY <2>1, <2>2
  <1> QED
    BY <1>4, <1>5, <1>6

(* Only the merge of AppendEntries does anything else to a log.            *)
LEMMA LogStep ==
  ASSUME TypeOK, [Next]_vars, NEW x \in Server
  PROVE  \/ Extended(log[x], log'[x])
         \/ \E m \in DOMAIN appends : AcceptAppend(m) /\ m.to = x
  <1>0. log \in [Server -> Seq(Entry)]
    BY DEF TypeOK, LogTypeOK
  <1>1. ASSUME log' = log PROVE Extended(log[x], log'[x])
    BY <1>1 DEF Extended
  <1>2. CASE UNCHANGED vars
    BY <1>1, <1>2 DEF vars
  <1>3. ASSUME NEW s \in Server, Timeouts(s) \/ Requests(s) \/ Stop(s) \/ Resume(s)
        PROVE  Extended(log[x], log'[x])
    <2>1. CASE Timeouts(s)
      BY <1>1, <2>1 DEF Timeouts, FollowerTimeout, CandidateTimeout, LeaderTimeout
    <2>2. CASE Requests(s)
      BY <2>2, RequestExtends
    <2>3. CASE Stop(s) \/ Resume(s)
      BY <1>1, <2>3 DEF Stop, Resume
    <2> QED
      BY <1>3, <2>1, <2>2, <2>3
  <1>4. ASSUME NEW m \in votes, VoteMessages(m) PROVE Extended(log[x], log'[x])
    BY <1>1, <1>4 DEF VoteMessages, GrantVote, DenyVote, WinElection, OtherVoteRsp, DropVote
  <1>5. ASSUME NEW m \in DOMAIN appends, AppendMessages(m)
        PROVE  Extended(log[x], log'[x]) \/ (AcceptAppend(m) /\ m.to = x)
    <2>1. CASE AcceptAppend(m)
      <3>1. CASE m.to # x
        <4>1. log'[x] = log[x]
          BY <1>0, <2>1, <3>1 DEF AcceptAppend
        <4> QED
          BY <4>1 DEF Extended
      <3> QED
        BY <2>1, <3>1
    <2>2. CASE AppendSucceeded(m)
      <3>1. PICK P : log' = [log EXCEPT ![m.to] = Answered(log[m.to], P)]
        BY <2>2 DEF AppendSucceeded
      <3>2. CASE x = m.to
        BY <1>0, <3>1, <3>2 DEF Extended
      <3>3. CASE x # m.to
        BY <1>0, <3>1, <3>3 DEF Extended
      <3> QED
        BY <3>2, <3>3
    <2>3. CASE RejectStaleAppend(m) \/ RejectMismatchedAppend(m) \/ CrashOnAppend(m)
               \/ AppendFailed(m) \/ OtherAppendRsp(m) \/ DropAppend(m)
      BY <1>1, <2>3 DEF RejectStaleAppend, RejectMismatchedAppend, CrashOnAppend, AppendFailed,
                        OtherAppendRsp, DropAppend
    <2> QED
      BY <1>5, <2>1, <2>2, <2>3 DEF AppendMessages
  <1> QED
    BY <1>2, <1>3, <1>4, <1>5 DEF Next

-----------------------------------------------------------------------------
(* A leader only appends.                                                  *)

(* A leader leads until it enters another term.                            *)
LEMMA LeaderStays ==
  ASSUME TypeOK, ElectionInv, [Next]_vars, NEW x \in Server,
         role[x] = "LEADER", current_term'[x] = current_term[x]
  PROVE  role'[x] = "LEADER"
  <1>0. current_term \in [Server -> Nat] /\ role \in [Server -> Role]
    BY DEF TypeOK, ElectionTypeOK, Term
  <1>1. ASSUME NEW s \in Server, NEW r, s # x \/ r = "LEADER", role' = [role EXCEPT ![s] = r]
        PROVE  role'[x] = "LEADER"
    BY <1>0, <1>1
  <1>2. CASE UNCHANGED vars
    BY <1>2 DEF vars, electionVars
  <1>3. ASSUME NEW s \in Server, Timeouts(s) \/ Requests(s) \/ Stop(s) \/ Resume(s)
        PROVE  role'[x] = "LEADER"
    <2>1. CASE FollowerTimeout(s)
      BY <1>1, <2>1 DEF FollowerTimeout, broadcast_vote
    <2>2. CASE CandidateTimeout(s)
      BY <1>1, <2>2 DEF CandidateTimeout, broadcast_vote
    <2>3. CASE LeaderTimeout(s) \/ Requests(s) \/ Stop(s) \/ Resume(s)
      <3>1. role' = role
        BY <2>3 DEF LeaderTimeout, Requests, IntraShardReq, PrepareReq, CommitReq, AbortReq, Stop,
                    Resume, electionVars
      <3> QED
        BY <3>1
    <2> QED
      BY <1>3, <2>1, <2>2, <2>3 DEF Timeouts
  <1>4. ASSUME NEW m \in votes, VoteMessages(m) PROVE role'[x] = "LEADER"
    <2>1. m.to \in Server /\ m.term \in Nat
      BY MessageTypes
    <2>2. CASE GrantVote(m)
      <3>1. current_term'[m.to] = m.term /\ role' = [role EXCEPT ![m.to] = "FOLLOWER"]
        BY <1>0, <2>1, <2>2 DEF GrantVote
      <3>2. m.to # x
        BY <1>0, <2>1, <2>2, <3>1, LeaderGrantsLater
      <3> QED
        BY <1>1, <2>1, <3>1, <3>2
    <2>3. CASE WinElection(m)
      BY <1>1, <2>1, <2>3 DEF WinElection
    <2>4. CASE OtherVoteRsp(m)
      <3>1. CASE m.term > current_term[m.to]
        <4>1. current_term'[m.to] = m.term /\ role' = [role EXCEPT ![m.to] = "FOLLOWER"]
          BY <1>0, <2>1, <2>4, <3>1 DEF OtherVoteRsp
        <4>2. m.to # x
          BY <1>0, <2>1, <3>1, <4>1
        <4> QED
          BY <1>1, <2>1, <4>1, <4>2
      <3>2. CASE ~(m.term > current_term[m.to])
        BY <2>4, <3>2 DEF OtherVoteRsp
      <3> QED
        BY <3>1, <3>2
    <2>5. CASE DenyVote(m) \/ DropVote(m)
      BY <2>5 DEF DenyVote, DropVote, electionVars
    <2> QED
      BY <1>4, <2>2, <2>3, <2>4, <2>5 DEF VoteMessages
  <1>5. ASSUME NEW m \in DOMAIN appends, AppendMessages(m) PROVE role'[x] = "LEADER"
    <2>1. m.to \in Server /\ m.term \in Nat
      BY MessageTypes
    <2>2. CASE RejectMismatchedAppend(m) \/ AcceptAppend(m)
      <3>1. m.type = "AppendEntriesReq" /\ m.term >= current_term[m.to] /\ Follow(m.to, m.term)
        BY <2>2 DEF RejectMismatchedAppend, AcceptAppend
      <3>2. current_term'[m.to] = m.term /\ role' = [role EXCEPT ![m.to] = "FOLLOWER"]
        BY <1>0, <2>1, <3>1 DEF Follow
      <3>3. m.to # x
        BY <1>0, <2>1, <3>1, <3>2, LeaderFollowsLater
      <3> QED
        BY <1>1, <2>1, <3>2, <3>3
    <2>3. CASE OtherAppendRsp(m)
      <3>1. CASE m.term > current_term[m.to]
        <4>1. current_term'[m.to] = m.term /\ role' = [role EXCEPT ![m.to] = "FOLLOWER"]
          BY <1>0, <2>1, <2>3, <3>1 DEF OtherAppendRsp
        <4>2. m.to # x
          BY <1>0, <2>1, <3>1, <4>1
        <4> QED
          BY <1>1, <2>1, <4>1, <4>2
      <3>2. CASE ~(m.term > current_term[m.to])
        BY <2>3, <3>2 DEF OtherAppendRsp
      <3> QED
        BY <3>1, <3>2
    <2>4. CASE AppendSucceeded(m)
      <3>1. role' = role
        BY <2>4 DEF AppendSucceeded, electionVars
      <3> QED
        BY <3>1
    <2>5. CASE RejectStaleAppend(m) \/ CrashOnAppend(m) \/ AppendFailed(m) \/ DropAppend(m)
      BY <2>5 DEF RejectStaleAppend, CrashOnAppend, AppendFailed, DropAppend, electionVars
    <2> QED
      BY <1>5, <2>2, <2>3, <2>4, <2>5 DEF AppendMessages
  <1> QED
    BY <1>2, <1>3, <1>4, <1>5 DEF Next

(* A leader of a term leads it until it enters another one, and never      *)
(* drops or rewrites an entry meanwhile (requestVoteExecutor.cpp:25,       *)
(* appendEntriesExecutor.cpp:26,41-46).                                    *)
THEOREM LeadersOnlyAppend == Spec => LeaderAppendOnly
  <1> DEFINE Step == \A s \in Server :
                       role[s] = "LEADER" /\ current_term'[s] = current_term[s]
                         => role'[s] = "LEADER" /\ IsPrefixOf(log[s], log'[s])
  <1>1. TypeOK /\ ElectionInv /\ [Next]_vars => [Step]_vars
    <2> SUFFICES ASSUME TypeOK, ElectionInv, [Next]_vars, NEW s \in Server,
                        role[s] = "LEADER", current_term'[s] = current_term[s]
                 PROVE  role'[s] = "LEADER" /\ IsPrefixOf(log[s], log'[s])
      OBVIOUS
    <2>1. role'[s] = "LEADER"
      BY LeaderStays
    <2>2. ~ \E m \in DOMAIN appends : AcceptAppend(m) /\ m.to = s
      <3> SUFFICES ASSUME NEW m \in DOMAIN appends, AcceptAppend(m), m.to = s PROVE FALSE
        OBVIOUS
      <3>1. role' = [role EXCEPT ![s] = "FOLLOWER"]
        BY DEF AcceptAppend, Follow
      <3> QED
        BY <2>1, <3>1 DEF TypeOK, ElectionTypeOK
    <2>3. log[s] \in Seq(Entry)
      BY DEF TypeOK, LogTypeOK
    <2> QED
      BY <2>1, <2>2, <2>3, LogStep, ExtendedKeepsEntries
  <1> QED
    BY <1>1, TypeCorrect, ElectionsFitTogether, PTL DEF Spec, LeaderAppendOnly

-----------------------------------------------------------------------------
(* An entry's index is its place.                                          *)

(* The entries of a log carry their places.                                *)
Placed(lg) == \A p \in DOMAIN lg : lg[p].index = p - 1

(* The entries of a message carry the places they have on the sender.      *)
EntriesPlaced ==
  \A m \in DOMAIN appends :
    m.type = "AppendEntriesReq" =>
      \A k \in DOMAIN m.entries : m.entries[k].index = m.prevlogindex + k

(* The inductive invariant: logs and messages.                             *)
IndexInv == IndexIsPosition /\ EntriesPlaced

(* What extends a log puts entries in their places (LogEntry::index is     *)
(* log_.size() at the push, intraShardExecutor.cpp:43).                    *)
LEMMA ExtendedPlaced ==
  ASSUME NEW lg \in Seq(Entry), Placed(lg), NEW new, Extended(lg, new)
  PROVE  Placed(new)
  <1>1. CASE new = lg
    BY <1>1
  <1>2. ASSUME NEW term \in Nat \cup {-1}, NEW kind \in Kind, NEW t \in Txn, NEW wait \in BOOLEAN,
               new = Appended(lg, term, kind, t, wait)
        PROVE  Placed(new)
    <2>1. /\ Len(new) = Len(lg) + 1 /\ new \in Seq(Entry)
      BY <1>2, AppendedType
    <2>2. \A p \in DOMAIN lg : new[p] = lg[p]
      BY <1>2 DEF Appended
    <2>3. new[Len(lg) + 1].index = Len(lg)
      BY <1>2 DEF Appended
    <2>4. \A p \in DOMAIN new : p \in DOMAIN lg \/ p = Len(lg) + 1
      BY <2>1
    <2> QED
      BY <2>2, <2>3, <2>4 DEF Placed
  <1>3. ASSUME NEW P, new = Answered(lg, P)
        PROVE  Placed(new)
    <2>1. DOMAIN new = DOMAIN lg
      BY <1>3 DEF Answered
    <2> QED
      BY <1>3, <2>1, AnsweredType DEF Placed
  <1> QED
    BY <1>1, <1>2, <1>3 DEF Extended

(* A merge of placed entries leaves a placed log                           *)
(* (appendEntriesExecutor.cpp:35-59).                                      *)
LEMMA MergePlaced ==
  ASSUME NEW lg \in Seq(Entry), Placed(lg), NEW previndex \in Int, NEW prevterm,
         NEW entries \in Seq(Entry), Matches(lg, previndex, prevterm),
         \A k \in DOMAIN entries : entries[k].index = previndex + k
  PROVE  Placed(Merge(lg, previndex, entries))
  <1> DEFINE base    == previndex + 1
             last    == base + Len(entries)
             kept(p) == \A q \in base + 1 .. p : q <= Len(lg) /\ lg[q].term = entries[q - base].term
             new(p)  == IF kept(p) THEN lg[p] ELSE entries[p - base]
  <1>1. base \in Int /\ last \in Int /\ base <= Len(lg)
    BY DEF Matches
  <1>2. CASE kept(last)
    BY <1>2 DEF Merge
  <1>3. CASE ~kept(last)
    <2>1. Merge(lg, previndex, entries) = [p \in 1 .. last |-> new(p)]
      BY <1>3 DEF Merge
    <2>2. ASSUME NEW p \in 1 .. last PROVE new(p).index = p - 1
      <3>1. CASE kept(p)
        <4>1. p <= Len(lg)
          BY <1>1, <3>1
        <4>2. p \in DOMAIN lg
          BY <4>1
        <4> QED
          BY <3>1, <4>2 DEF Placed
      <3>2. CASE ~kept(p)
        <4>1. p > base
          BY <1>1, <3>2
        <4>2. p - base \in DOMAIN entries /\ previndex + (p - base) = p - 1
          BY <1>1, <4>1
        <4>3. entries[p - base].index = p - 1
          BY <4>2
        <4> QED
          BY <3>2, <4>3
      <3> QED
        BY <3>1, <3>2
    <2> HIDE DEF new
    <2> QED
      BY <2>1, <2>2 DEF Placed
  <1> QED
    BY <1>2, <1>3

(* A heartbeat carries entries at their places (aIOServer.cpp:90-99).      *)
LEMMA HeartBeatPlaced ==
  ASSUME TypeOK, NEW s \in Server, Placed(log[s]), NEW p, NEW size \in Int
  PROVE  \A k \in DOMAIN HeartBeat(s, p, size).entries :
           HeartBeat(s, p, size).entries[k].index = HeartBeat(s, p, size).prevlogindex + k
  <1> DEFINE lg == log[s]
  <1>1. lg \in Seq(Entry)
    BY DEF TypeOK, LogTypeOK
  <1>2. /\ HeartBeat(s, p, size).entries = Slice(lg, size)
        /\ HeartBeat(s, p, size).prevlogindex = size - 1
    BY DEF HeartBeat, prevlogindex
  <1> SUFFICES ASSUME NEW k \in DOMAIN Slice(lg, size)
               PROVE  Slice(lg, size)[k].index = size - 1 + k
    BY <1>2
  <1>3. CASE size < 0
    BY <1>3 DEF Slice
  <1>4. CASE size >= 0
    <2>1. /\ k \in 1 .. Len(lg) - size
          /\ Slice(lg, size)[k] = WithoutFd(lg[size + k])
      BY <1>4 DEF Slice
    <2>2. size + k \in DOMAIN lg /\ lg[size + k] \in Entry
      BY <1>1, <1>4, <2>1
    <2>3. Slice(lg, size)[k].index = lg[size + k].index
      BY <2>1, <2>2, WithoutFdType
    <2>4. lg[size + k].index = (size + k) - 1
      BY <2>2 DEF Placed
    <2> QED
      BY <1>4, <2>1, <2>3, <2>4
  <1> QED
    BY <1>3, <1>4

(* A broadcast puts placed entries on their way.                           *)
LEMMA BroadcastPlaced ==
  ASSUME TypeOK, IndexInv, NEW s \in Server, NEW matched \in [Server -> Int],
         broadcast_heart_beat(s, matched)
  PROVE  EntriesPlaced'
  <1>1. DOMAIN appends' = DOMAIN appends \cup {HeartBeat(s, p, matched[p]) : p \in Peers(s)}
    BY BagUnionDomain DEF broadcast_heart_beat
  <1>2. Placed(log[s])
    BY DEF IndexInv, IndexIsPosition, Placed
  <1>3. \A p \in Peers(s) :
          \A k \in DOMAIN HeartBeat(s, p, matched[p]).entries :
            HeartBeat(s, p, matched[p]).entries[k].index
              = HeartBeat(s, p, matched[p]).prevlogindex + k
    BY <1>2, HeartBeatPlaced DEF Peers
  <1> QED
    BY <1>1, <1>3 DEF IndexInv, EntriesPlaced

(* Messages of a step without a broadcast.                                 *)
LEMMA OldEntriesPlaced ==
  ASSUME EntriesPlaced, NoNewHeartBeats
  PROVE  EntriesPlaced'
  BY DEF EntriesPlaced, NoNewHeartBeats

-----------------------------------------------------------------------------
(* A step keeps logs and messages placed.                                  *)

LEMMA LogsStayPlaced ==
  ASSUME TypeOK, IndexInv, [Next]_vars
  PROVE  IndexIsPosition'
  <1> SUFFICES ASSUME NEW x \in Server PROVE Placed(log'[x])
    BY DEF IndexIsPosition, Placed
  <1>1. log[x] \in Seq(Entry) /\ Placed(log[x])
    BY DEF TypeOK, LogTypeOK, IndexInv, IndexIsPosition, Placed
  <1>2. CASE Extended(log[x], log'[x])
    BY <1>1, <1>2, ExtendedPlaced
  <1>3. ASSUME NEW m \in DOMAIN appends, AcceptAppend(m), m.to = x
        PROVE  Placed(log'[x])
    <2>1. m.prevlogindex \in Int /\ m.entries \in Seq(Entry)
          /\ \A k \in DOMAIN m.entries : m.entries[k].index = m.prevlogindex + k
      BY <1>3, MessageTypes DEF AcceptAppend, AppendReq, IndexInv, EntriesPlaced
    <2>2. Matches(log[x], m.prevlogindex, m.prevlogterm)
      BY <1>3 DEF AcceptAppend
    <2>3. log'[x] = Merge(log[x], m.prevlogindex, m.entries)
      BY <1>3 DEF AcceptAppend, TypeOK, LogTypeOK
    <2> QED
      BY <1>1, <2>1, <2>2, <2>3, MergePlaced
  <1> QED
    BY <1>2, <1>3, LogStep

LEMMA MessagesStayPlaced ==
  ASSUME TypeOK, IndexInv, [Next]_vars
  PROVE  EntriesPlaced'
  <1>1. EntriesPlaced /\ matched_log_size \in [Server -> [Server -> Int]]
        /\ log \in [Server -> Seq(Entry)]
    BY DEF IndexInv, TypeOK, LogTypeOK
  <1>2. ASSUME appends' = appends PROVE EntriesPlaced'
    BY <1>1, <1>2 DEF EntriesPlaced
  <1>3. CASE UNCHANGED vars
    BY <1>2, <1>3 DEF vars
  <1>4. ASSUME NEW s \in Server, Timeouts(s) \/ Requests(s) \/ Stop(s) \/ Resume(s)
        PROVE  EntriesPlaced'
    <2>1. CASE LeaderTimeout(s)
      <3>1. broadcast_heart_beat(s, matched_log_size[s])
        BY <2>1 DEF LeaderTimeout
      <3>2. matched_log_size[s] \in [Server -> Int]
        BY <1>1
      <3> QED
        BY <3>1, <3>2, BroadcastPlaced
    <2>2. CASE FollowerTimeout(s) \/ CandidateTimeout(s) \/ Requests(s) \/ Stop(s) \/ Resume(s)
      BY <1>2, <2>2 DEF FollowerTimeout, CandidateTimeout, Requests, IntraShardReq, PrepareReq,
                        CommitReq, AbortReq, Stop, Resume
    <2> QED
      BY <1>4, <2>1, <2>2 DEF Timeouts
  <1>5. ASSUME NEW m \in votes, VoteMessages(m) PROVE EntriesPlaced'
    <2>1. m.to \in Server
      BY MessageTypes
    <2>2. CASE WinElection(m)
      <3>1. broadcast_heart_beat(m.to, [p \in Server |-> Len(log[m.to])])
        BY <2>2 DEF WinElection
      <3>2. [p \in Server |-> Len(log[m.to])] \in [Server -> Int]
        BY <1>1, <2>1
      <3> QED
        BY <2>1, <3>1, <3>2, BroadcastPlaced
    <2>3. CASE OtherVoteRsp(m)
      <3>1. appends' = appends \/ broadcast_heart_beat(m.to, matched_log_size[m.to])
        BY <2>3 DEF OtherVoteRsp
      <3>2. matched_log_size[m.to] \in [Server -> Int]
        BY <1>1, <2>1
      <3> QED
        BY <1>2, <2>1, <3>1, <3>2, BroadcastPlaced
    <2>4. CASE GrantVote(m) \/ DenyVote(m) \/ DropVote(m)
      BY <1>2, <2>4 DEF GrantVote, DenyVote, DropVote
    <2> QED
      BY <1>5, <2>2, <2>3, <2>4 DEF VoteMessages
  <1>6. ASSUME NEW m \in DOMAIN appends, AppendMessages(m) PROVE EntriesPlaced'
    <2>1. CASE RejectStaleAppend(m) \/ RejectMismatchedAppend(m) \/ AcceptAppend(m)
      <3>1. PICK term, success : ReplyAppend(m, term, success)
        BY <2>1 DEF RejectStaleAppend, RejectMismatchedAppend, AcceptAppend
      <3> QED
        BY <1>1, <3>1, ReplyMessages, OldEntriesPlaced
    <2>2. CASE AppendSucceeded(m)
      <3>1. appends' = BagRemove(appends, m)
        BY <2>2 DEF AppendSucceeded
      <3> QED
        BY <1>1, <3>1, RemoveMessages, OldEntriesPlaced
    <2>3. CASE CrashOnAppend(m) \/ AppendFailed(m) \/ OtherAppendRsp(m) \/ DropAppend(m)
      <3>1. appends' = BagRemove(appends, m)
        BY <2>3 DEF CrashOnAppend, AppendFailed, OtherAppendRsp, DropAppend
      <3> QED
        BY <1>1, <3>1, RemoveMessages, OldEntriesPlaced
    <2> QED
      BY <1>6, <2>1, <2>2, <2>3 DEF AppendMessages
  <1> QED
    BY <1>3, <1>4, <1>5, <1>6 DEF Next

(* The index an entry carries is its place in the log, on every server,    *)
(* after every truncation and copy (raftState.cpp:8,                       *)
(* appendEntriesExecutor.cpp:35-59).                                       *)
THEOREM IndexesArePositions == Spec => []IndexIsPosition
  <1>1. Init => IndexInv
    BY DEF Init, IndexInv, IndexIsPosition, EntriesPlaced, EmptyBag, SetToBag
  <1>2. TypeOK /\ IndexInv /\ [Next]_vars => IndexInv'
    BY LogsStayPlaced, MessagesStayPlaced DEF IndexInv
  <1>3. IndexInv => IndexIsPosition
    BY DEF IndexInv
  <1> QED
    BY <1>1, <1>2, <1>3, TypeCorrect, PTL DEF Spec

=============================================================================
