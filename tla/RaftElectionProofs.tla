------------------------- MODULE RaftElectionProofs -------------------------
(***************************************************************************)
(* Elections of a cluster, for any number of terms and messages: a term    *)
(* has one leader, and a leader gives up only for a later term.            *)
(*                                                                         *)
(* Every vote given is kept in ballots.  ElectionInv ties the ballots to   *)
(* voted_for, to the granted responses on their way and to the leaders:    *)
(* two leaders of one term would need four voters, or a voter with two     *)
(* ballots.                                                                *)
(***************************************************************************)
EXTENDS RaftShardProofs

-----------------------------------------------------------------------------
(* What a step does to the messages of the leaders.                        *)

(* AppendEntries messages of a step: old ones, those of leader s, or       *)
(* responses.                                                              *)
OnlyHeartBeatsOf(s) ==
  \A m \in DOMAIN appends' :
    m.type = "AppendEntriesReq" =>
      m \in DOMAIN appends \/ (m.from = s /\ m.to # s /\ m.term = current_term[s])
NoNewHeartBeats ==
  \A m \in DOMAIN appends' : m.type = "AppendEntriesReq" => m \in DOMAIN appends

LEMMA BroadcastMessages ==
  ASSUME NEW s, NEW matched, broadcast_heart_beat(s, matched)
  PROVE  OnlyHeartBeatsOf(s)
  <1>1. DOMAIN appends' = DOMAIN appends \cup {HeartBeat(s, p, matched[p]) : p \in Peers(s)}
    BY BagUnionDomain DEF broadcast_heart_beat
  <1>2. \A p \in Peers(s) : /\ HeartBeat(s, p, matched[p]).from = s
                            /\ HeartBeat(s, p, matched[p]).to # s
                            /\ HeartBeat(s, p, matched[p]).term = current_term[s]
    BY DEF HeartBeat, Peers
  <1> QED
    BY <1>1, <1>2 DEF OnlyHeartBeatsOf

LEMMA ReplyMessages ==
  ASSUME NEW m, NEW term, NEW success, ReplyAppend(m, term, success)
  PROVE  NoNewHeartBeats
  <1>1. DOMAIN appends' = DOMAIN BagRemove(appends, m) \cup {AppendRsp(m, term, success)}
    BY BagAddDomain DEF ReplyAppend
  <1>2. AppendRsp(m, term, success).type = "AppendEntriesRsp"
    BY DEF AppendRsp
  <1> QED
    BY <1>1, <1>2, BagRemoveDomain DEF NoNewHeartBeats

LEMMA RemoveMessages ==
  ASSUME NEW m, appends' = BagRemove(appends, m)
  PROVE  NoNewHeartBeats
  BY BagRemoveDomain DEF NoNewHeartBeats

-----------------------------------------------------------------------------
(* One lemma for each way a step touches the election.                     *)

(* Steps that leave terms, roles, votes given and elections alone.         *)
LEMMA UnrelatedStep ==
  ASSUME TypeOK, ElectionInv, NEW s \in Server,
         votes' \subseteq votes,
         UNCHANGED <<current_term, voted_for, role, ballots, elections>>,
         NoNewHeartBeats \/ (role[s] = "LEADER" /\ OnlyHeartBeatsOf(s))
  PROVE  ElectionInv'
  <1>1. OneBallotPerTerm' /\ VotedForRemembers' /\ StandsForItself' /\ GrantsAreBallots'
        /\ ElectedByTwo'
    BY DEF ElectionInv, OneBallotPerTerm, VotedForRemembers, StandsForItself, GrantsAreBallots,
           ElectedByTwo, Ballot, Peers
  <1>2. role[s] = "LEADER" => Won(current_term[s], s) \in elections
    BY DEF ElectionInv, LeadersAreElected
  <1>3. LeadersAreElected'
    BY <1>2 DEF ElectionInv, LeadersAreElected, NoNewHeartBeats, OnlyHeartBeatsOf, Won
  <1> QED
    BY <1>1, <1>3 DEF ElectionInv

(* A server becomes a follower, in the same term or in a later one; its    *)
(* voted_for stays (appendEntriesExecutor.cpp:24-29,145-149,               *)
(* requestVoteExecutor.cpp:48-51).                                         *)
LEMMA FollowerStep ==
  ASSUME TypeOK, ElectionInv, NEW s \in Server, NEW term \in Nat, term >= current_term[s],
         current_term' = [current_term EXCEPT ![s] = term],
         role' = [role EXCEPT ![s] = "FOLLOWER"],
         votes' \subseteq votes, UNCHANGED <<voted_for, ballots, elections>>, NoNewHeartBeats
  PROVE  ElectionInv'
  <1>1. current_term \in [Server -> Nat] /\ role \in [Server -> Role]
        /\ ballots \subseteq [voter : Server, term : Nat, candidate : Server]
    BY DEF TypeOK, ElectionTypeOK, Term
  <1>2. OneBallotPerTerm' /\ GrantsAreBallots' /\ ElectedByTwo'
    BY DEF ElectionInv, OneBallotPerTerm, GrantsAreBallots, ElectedByTwo, Ballot, Peers
  <1>3. VotedForRemembers'
    <2> SUFFICES ASSUME NEW b \in ballots
                 PROVE  /\ b.term <= current_term'[b.voter]
                        /\ b.term = current_term'[b.voter] => voted_for[b.voter] = b.candidate
      BY DEF VotedForRemembers
    <2>1. b.voter \in Server /\ b.term \in Nat
      BY <1>1
    <2>2. /\ b.term <= current_term[b.voter]
          /\ b.term = current_term[b.voter] => voted_for[b.voter] = b.candidate
      BY DEF ElectionInv, VotedForRemembers
    <2>3. current_term'[b.voter] = IF b.voter = s THEN term ELSE current_term[b.voter]
      BY <1>1, <2>1
    <2> QED
      BY <1>1, <2>1, <2>2, <2>3
  <1>4. \A x \in Server : role'[x] # "FOLLOWER" =>
          role'[x] = role[x] /\ current_term'[x] = current_term[x]
    BY <1>1
  <1>5. StandsForItself'
    BY <1>4 DEF ElectionInv, StandsForItself, Ballot
  <1>6. LeadersAreElected'
    BY <1>4 DEF ElectionInv, LeadersAreElected, NoNewHeartBeats, Won
  <1> QED
    BY <1>2, <1>3, <1>5, <1>6 DEF ElectionInv

(* A server gives a vote that it has not given in that term: its own in a  *)
(* term it begins, or to a candidate (aIOServer.cpp:36,                    *)
(* requestVoteExecutor.cpp:16-28).                                         *)
LEMMA BallotStep ==
  ASSUME TypeOK, ElectionInv, NEW s \in Server, NEW term \in Nat, NEW c \in Server,
         NEW r \in {"FOLLOWER", "CANDIDATE"}, r = "CANDIDATE" => c = s /\ term > current_term[s],
         term > current_term[s] \/ (term = current_term[s] /\ voted_for[s] = Nobody),
         current_term' = [current_term EXCEPT ![s] = term],
         voted_for' = [voted_for EXCEPT ![s] = c],
         role' = [role EXCEPT ![s] = r],
         ballots' = ballots \cup {Ballot(s, term, c)},
         \A m \in votes' \ votes : /\ m.from # m.to
                                   /\ m.type = "RequestVoteRsp" /\ m.votegranted =>
                                        Ballot(m.from, m.term, m.to) \in ballots',
         UNCHANGED <<appends, elections>>
  PROVE  ElectionInv'
  <1>1. /\ current_term \in [Server -> Nat] /\ role \in [Server -> Role]
        /\ voted_for \in [Server -> Server \cup {Nobody}]
        /\ ballots \subseteq [voter : Server, term : Nat, candidate : Server]
        /\ elections \subseteq [term : Nat, leader : Server]
    BY DEF TypeOK, ElectionTypeOK, Term
  <1>2. \A b \in ballots : b.voter = s => b.term < term
    <2> SUFFICES ASSUME NEW b \in ballots, b.voter = s PROVE b.term < term
      OBVIOUS
    <2>1. b.term \in Nat /\ b.candidate \in Server /\ current_term[s] \in Nat
      BY <1>1
    <2>2. b.term <= current_term[s] /\ (b.term = current_term[s] => voted_for[s] = b.candidate)
      BY DEF ElectionInv, VotedForRemembers
    <2> QED
      BY <2>1, <2>2, ServerAssumption
  <1> DEFINE new == Ballot(s, term, c)
  <1>3. new.voter = s /\ new.term = term /\ new.candidate = c
    BY DEF Ballot
  <1>4. OneBallotPerTerm'
    <2> SUFFICES ASSUME NEW b \in ballots', NEW d \in ballots', b.voter = d.voter, b.term = d.term
                 PROVE  b.candidate = d.candidate
      BY DEF OneBallotPerTerm
    <2>1. CASE b \in ballots /\ d \in ballots
      BY <2>1 DEF ElectionInv, OneBallotPerTerm
    <2>2. CASE b = new \/ d = new
      BY <1>1, <1>2, <1>3, <2>2
    <2> QED
      BY <2>1, <2>2
  <1>5. VotedForRemembers'
    <2> SUFFICES ASSUME NEW b \in ballots'
                 PROVE  /\ b.term <= current_term'[b.voter]
                        /\ b.term = current_term'[b.voter] => voted_for'[b.voter] = b.candidate
      BY DEF VotedForRemembers
    <2>1. CASE b \in ballots
      <3>1. b.voter \in Server /\ b.term \in Nat
        BY <1>1, <2>1
      <3>2. CASE b.voter = s
        BY <1>1, <1>2, <2>1, <3>1, <3>2
      <3>3. CASE b.voter # s
        BY <1>1, <2>1, <3>1, <3>3 DEF ElectionInv, VotedForRemembers
      <3> QED
        BY <3>2, <3>3
    <2>2. CASE b = new
      BY <1>1, <1>3, <2>2
    <2> QED
      BY <2>1, <2>2
  <1>6. StandsForItself'
    <2> SUFFICES ASSUME NEW x \in Server, role'[x] # "FOLLOWER"
                 PROVE  Ballot(x, current_term'[x], x) \in ballots'
      BY DEF StandsForItself, Ballot
    <2>1. CASE x = s
      BY <1>1, <2>1
    <2>2. CASE x # s
      BY <1>1, <2>2 DEF ElectionInv, StandsForItself
    <2> QED
      BY <2>1, <2>2
  <1>7. GrantsAreBallots'
    BY DEF ElectionInv, GrantsAreBallots, Ballot
  <1>8. ElectedByTwo'
    BY DEF ElectionInv, ElectedByTwo, Ballot, Peers
  <1>9. LeadersAreElected'
    <2>1. \A m \in DOMAIN appends' :
            m.type = "AppendEntriesReq" => m.from # m.to /\ Won(m.term, m.from) \in elections'
      BY DEF ElectionInv, LeadersAreElected
    <2>2. ASSUME NEW x \in Server
          PROVE  /\ role'[x] = "LEADER" => Won(current_term'[x], x) \in elections'
                 /\ role'[x] = "CANDIDATE" => Won(current_term'[x], x) \notin elections'
      <3>1. CASE x # s
        BY <1>1, <3>1 DEF ElectionInv, LeadersAreElected
      <3>2. CASE x = s
        <4>1. role'[s] = r /\ current_term'[s] = term
          BY <1>1
        <4>2. Won(term, s) \in elections => Ballot(s, term, s) \in ballots
          <5>1. Won(term, s).leader = s /\ Won(term, s).term = term
            BY DEF Won
          <5> QED
            BY <5>1 DEF ElectionInv, ElectedByTwo
        <4>3. Ballot(s, term, s).voter = s /\ Ballot(s, term, s).term = term
          BY DEF Ballot
        <4>4. Won(term, s) \notin elections
          BY <1>2, <4>2, <4>3
        <4> QED
          BY <3>2, <4>1, <4>4
      <3> QED
        BY <3>1, <3>2
    <2> QED
      BY <2>1, <2>2 DEF LeadersAreElected, Won
  <1> QED
    BY <1>4, <1>5, <1>6, <1>7, <1>8, <1>9 DEF ElectionInv

(* A candidate becomes leader on its second vote                           *)
(* (requestVoteExecutor.cpp:38-46).                                        *)
LEMMA WinStep ==
  ASSUME TypeOK, ElectionInv, NEW m \in votes, WinElection(m)
  PROVE  ElectionInv'
  <1> DEFINE s == m.to
  <1>1. /\ s \in Server /\ m.from \in Server /\ m.from # s
        /\ role[s] = "CANDIDATE" /\ Ballot(m.from, current_term[s], s) \in ballots
        /\ broadcast_heart_beat(s, [p \in Server |-> Len(log[s])])
        /\ role' = [role EXCEPT ![s] = "LEADER"]
        /\ votes' \subseteq votes
        /\ elections' = elections \cup {Won(current_term[s], s)}
        /\ UNCHANGED <<current_term, voted_for, ballots>>
    BY MessageTypes DEF WinElection, Wins, ElectionInv, GrantsAreBallots, Won
  <1>2. OnlyHeartBeatsOf(s)
    BY <1>1, BroadcastMessages
  <1>3. role \in [Server -> Role]
    BY DEF TypeOK, ElectionTypeOK
  <1>4. OneBallotPerTerm' /\ VotedForRemembers' /\ GrantsAreBallots'
    BY <1>1 DEF ElectionInv, OneBallotPerTerm, VotedForRemembers, GrantsAreBallots, Ballot
  <1>5. Ballot(s, current_term[s], s) \in ballots
    BY <1>1 DEF ElectionInv, StandsForItself
  <1>6. StandsForItself'
    BY <1>1, <1>3, <1>5 DEF ElectionInv, StandsForItself, Ballot
  <1>7. ElectedByTwo'
    <2> SUFFICES ASSUME NEW e \in elections'
                 PROVE  /\ Ballot(e.leader, e.term, e.leader) \in ballots
                        /\ \E v \in Peers(e.leader) : Ballot(v, e.term, e.leader) \in ballots
      BY <1>1 DEF ElectedByTwo, Ballot, Peers
    <2>1. CASE e \in elections
      BY <2>1 DEF ElectionInv, ElectedByTwo
    <2>2. CASE e = Won(current_term[s], s)
      <3>1. e.leader = s /\ e.term = current_term[s]
        BY <2>2 DEF Won
      <3>2. m.from \in Peers(s)
        BY <1>1 DEF Peers
      <3> QED
        BY <1>1, <1>5, <3>1, <3>2
    <2> QED
      BY <1>1, <2>1, <2>2
  <1>8. LeadersAreElected'
    <2>1. \A x \in Server :
            /\ role'[x] = "LEADER" => Won(current_term[x], x) \in elections'
            /\ role'[x] = "CANDIDATE" => Won(current_term[x], x) \notin elections'
      <3> SUFFICES ASSUME NEW x \in Server
                   PROVE  /\ role'[x] = "LEADER" => Won(current_term[x], x) \in elections'
                          /\ role'[x] = "CANDIDATE" => Won(current_term[x], x) \notin elections'
        OBVIOUS
      <3>1. CASE x = s
        BY <1>1, <1>3, <3>1
      <3>2. CASE x # s
        <4>1. role'[x] = role[x] /\ Won(current_term[x], x) # Won(current_term[s], s)
          BY <1>1, <1>3, <3>2 DEF Won
        <4> QED
          BY <1>1, <4>1 DEF ElectionInv, LeadersAreElected
      <3> QED
        BY <3>1, <3>2
    <2>2. ASSUME NEW x \in DOMAIN appends', x.type = "AppendEntriesReq"
          PROVE  x.from # x.to /\ Won(x.term, x.from) \in elections'
      BY <1>1, <1>2, <2>2 DEF OnlyHeartBeatsOf, ElectionInv, LeadersAreElected
    <2> QED
      BY <1>1, <2>1, <2>2 DEF LeadersAreElected, Won
  <1> QED
    BY <1>4, <1>6, <1>7, <1>8 DEF ElectionInv

-----------------------------------------------------------------------------
(* The actions.                                                            *)

LEMMA StandStep ==
  ASSUME TypeOK, ElectionInv, NEW s \in Server, broadcast_vote(s), UNCHANGED <<appends, elections>>
  PROVE  ElectionInv'
  <1> DEFINE term == current_term[s] + 1
  <1>1. current_term[s] \in Nat
    BY DEF TypeOK, ElectionTypeOK, Term
  <1>2. term \in Nat /\ term > current_term[s]
    BY <1>1
  <1>3. /\ current_term' = [current_term EXCEPT ![s] = term]
        /\ voted_for' = [voted_for EXCEPT ![s] = s]
        /\ role' = [role EXCEPT ![s] = "CANDIDATE"]
        /\ ballots' = ballots \cup {Ballot(s, term, s)}
        /\ \A m \in votes' \ votes : m.from # m.to /\ m.type = "RequestVoteReq"
    BY DEF broadcast_vote, Ballot, Peers
  <1> HIDE DEF term
  <1>4. \A m \in votes' \ votes : /\ m.from # m.to
                                  /\ m.type = "RequestVoteRsp" /\ m.votegranted =>
                                       Ballot(m.from, m.term, m.to) \in ballots'
    BY <1>3
  <1> QED
    BY <1>2, <1>3, <1>4, BallotStep

LEMMA GrantStep ==
  ASSUME TypeOK, ElectionInv, NEW m \in votes, GrantVote(m)
  PROVE  ElectionInv'
  <1> DEFINE s == m.to
  <1>1. /\ s \in Server /\ m.from \in Server /\ m.term \in Nat /\ m.from # s
        /\ m.term > current_term[s] \/ (m.term = current_term[s] /\ voted_for[s] = Nobody)
        /\ current_term' = [current_term EXCEPT ![s] = m.term]
        /\ voted_for' = [voted_for EXCEPT ![s] = m.from]
        /\ role' = [role EXCEPT ![s] = "FOLLOWER"]
        /\ votes' = (votes \ {m}) \cup {VoteRsp(m, m.term, TRUE)}
        /\ ballots' = ballots \cup {Ballot(s, m.term, m.from)}
        /\ UNCHANGED <<appends, elections>>
    BY MessageTypes DEF GrantVote, Grants, ElectionInv, GrantsAreBallots, Ballot
  <1>2. \A x \in votes' \ votes : /\ x.from # x.to
                                  /\ x.type = "RequestVoteRsp" /\ x.votegranted =>
                                       Ballot(x.from, x.term, x.to) \in ballots'
    <2>1. \A x \in votes' \ votes : x.from = s /\ x.to = m.from /\ x.term = m.term
      BY <1>1 DEF VoteRsp
    <2> QED
      BY <1>1, <2>1
  <1> QED
    BY <1>1, <1>2, BallotStep

LEMMA DenyStep ==
  ASSUME TypeOK, ElectionInv, NEW m \in votes, DenyVote(m)
  PROVE  ElectionInv'
  <1>1. /\ votes' = (votes \ {m}) \cup {VoteRsp(m, current_term[m.to], FALSE)} /\ m.from # m.to
        /\ UNCHANGED <<current_term, voted_for, role, appends, ballots, elections>>
    BY DEF DenyVote, electionVars, historyVars, ElectionInv, GrantsAreBallots
  <1>2. \A x \in votes' : x \in votes \/ (x.from # x.to /\ x.votegranted = FALSE)
    BY <1>1 DEF VoteRsp
  <1>3. GrantsAreBallots'
    BY <1>1, <1>2 DEF ElectionInv, GrantsAreBallots, Ballot
  <1> QED
    BY <1>1, <1>3 DEF ElectionInv, OneBallotPerTerm, VotedForRemembers, StandsForItself,
       ElectedByTwo, LeadersAreElected, Ballot, Peers, Won

LEMMA OtherVoteRspStep ==
  ASSUME TypeOK, ElectionInv, NEW m \in votes, OtherVoteRsp(m)
  PROVE  ElectionInv'
  <1> DEFINE s == m.to
  <1>1. /\ s \in Server /\ m.term \in Nat /\ votes' \subseteq votes
        /\ UNCHANGED <<voted_for, ballots, elections>>
        /\ current_term[s] \in Nat
    BY MessageTypes DEF OtherVoteRsp, historyVars, TypeOK, ElectionTypeOK, Term
  <1>2. CASE m.term > current_term[s]
    <2>1. /\ current_term' = [current_term EXCEPT ![s] = m.term]
          /\ role' = [role EXCEPT ![s] = "FOLLOWER"] /\ appends' = appends
      BY <1>2 DEF OtherVoteRsp
    <2>2. NoNewHeartBeats /\ m.term >= current_term[s]
      BY <1>1, <1>2, <2>1 DEF NoNewHeartBeats
    <2> QED
      BY <1>1, <2>1, <2>2, FollowerStep
  <1>3. CASE ~(m.term > current_term[s])
    <2>1. UNCHANGED <<current_term, role>>
      BY <1>3 DEF OtherVoteRsp
    <2>2. NoNewHeartBeats \/ (role[s] = "LEADER" /\ OnlyHeartBeatsOf(s))
      <3>1. CASE role[s] = "LEADER"
        BY <1>3, <3>1, BroadcastMessages DEF OtherVoteRsp
      <3>2. CASE role[s] # "LEADER"
        BY <1>3, <3>2 DEF OtherVoteRsp, NoNewHeartBeats
      <3> QED
        BY <3>1, <3>2
    <2> QED
      BY <1>1, <2>1, <2>2, UnrelatedStep
  <1> QED
    BY <1>2, <1>3

(* Following a message of term "term", as far as the election goes.        *)
LEMMA FollowStep ==
  ASSUME TypeOK, ElectionInv, NEW s \in Server, NEW term \in Nat, term >= current_term[s],
         Follow(s, term), NoNewHeartBeats, UNCHANGED <<votes, ballots, elections>>
  PROVE  ElectionInv'
  BY FollowerStep DEF Follow

LEMMA AppendStep ==
  ASSUME TypeOK, ElectionInv, NEW m \in DOMAIN appends, AppendMessages(m)
  PROVE  ElectionInv'
  <1>1. m.to \in Server /\ m.term \in Nat /\ current_term[m.to] \in Nat
    BY MessageTypes DEF TypeOK, ElectionTypeOK, Term
  <1>2. CASE RejectStaleAppend(m)
    BY <1>1, <1>2, ReplyMessages, UnrelatedStep DEF RejectStaleAppend, electionVars, historyVars
  <1>3. CASE RejectMismatchedAppend(m)
    BY <1>1, <1>3, ReplyMessages, FollowStep DEF RejectMismatchedAppend, historyVars
  <1>4. CASE AcceptAppend(m)
    <2>1. /\ m.term >= current_term[m.to] /\ Follow(m.to, m.term) /\ ReplyAppend(m, m.term, TRUE)
          /\ UNCHANGED <<votes, ballots, elections>>
      BY <1>4 DEF AcceptAppend, historyVars
    <2> QED
      BY <1>1, <2>1, ReplyMessages, FollowStep
  <1>5. CASE CrashOnAppend(m)
    BY <1>1, <1>5, RemoveMessages, UnrelatedStep DEF CrashOnAppend, electionVars, historyVars
  <1>6. CASE AppendSucceeded(m)
    <2>1. /\ appends' = BagRemove(appends, m)
          /\ UNCHANGED <<current_term, voted_for, role, votes, ballots, elections>>
      BY <1>6 DEF AppendSucceeded, electionVars, historyVars
    <2> QED
      BY <1>1, <2>1, RemoveMessages, UnrelatedStep
  <1>7. CASE AppendFailed(m)
    BY <1>1, <1>7, RemoveMessages, UnrelatedStep DEF AppendFailed, electionVars, historyVars
  <1>8. CASE OtherAppendRsp(m)
    <2>1. NoNewHeartBeats /\ UNCHANGED <<voted_for, votes, ballots, elections>>
      BY <1>8, RemoveMessages DEF OtherAppendRsp, historyVars
    <2>2. CASE m.term > current_term[m.to]
      BY <1>1, <1>8, <2>1, <2>2, FollowerStep DEF OtherAppendRsp
    <2>3. CASE ~(m.term > current_term[m.to])
      BY <1>1, <1>8, <2>1, <2>3, UnrelatedStep DEF OtherAppendRsp
    <2> QED
      BY <2>2, <2>3
  <1>9. CASE DropAppend(m)
    BY <1>1, <1>9, RemoveMessages, UnrelatedStep DEF DropAppend, electionVars, historyVars
  <1> QED
    BY <1>2, <1>3, <1>4, <1>5, <1>6, <1>7, <1>8, <1>9 DEF AppendMessages

(* Timers, requests, Stop and Resume.                                      *)
LEMMA ServerStep ==
  ASSUME TypeOK, ElectionInv, NEW s \in Server,
         Timeouts(s) \/ Requests(s) \/ Stop(s) \/ Resume(s)
  PROVE  ElectionInv'
  <1>1. CASE FollowerTimeout(s)
    <2>1. UNCHANGED <<appends, elections>>
      BY <1>1 DEF FollowerTimeout
    <2>2. CASE heard_heart_beat[s]
      BY <1>1, <2>1, <2>2, UnrelatedStep DEF FollowerTimeout, NoNewHeartBeats
    <2>3. CASE ~heard_heart_beat[s]
      BY <1>1, <2>1, <2>3, StandStep DEF FollowerTimeout
    <2> QED
      BY <2>2, <2>3
  <1>2. CASE CandidateTimeout(s)
    BY <1>2, StandStep DEF CandidateTimeout
  <1>3. CASE LeaderTimeout(s)
    BY <1>3, BroadcastMessages, UnrelatedStep DEF LeaderTimeout, electionVars, historyVars
  <1>4. CASE Requests(s) \/ Stop(s) \/ Resume(s)
    <2>1. UNCHANGED <<current_term, voted_for, role, votes, ballots, elections, appends>>
      BY <1>4 DEF Requests, IntraShardReq, PrepareReq, CommitReq, AbortReq, Stop, Resume,
                  electionVars, historyVars
    <2> QED
      BY <2>1, UnrelatedStep DEF NoNewHeartBeats
  <1> QED
    BY <1>1, <1>2, <1>3, <1>4 DEF Timeouts

LEMMA VoteStep ==
  ASSUME TypeOK, ElectionInv, NEW m \in votes, VoteMessages(m)
  PROVE  ElectionInv'
  <1>1. CASE DropVote(m)
    <2>1. m.to \in Server /\ votes' \subseteq votes
          /\ UNCHANGED <<current_term, voted_for, role, ballots, elections, appends>>
      BY <1>1, MessageTypes DEF DropVote, electionVars, historyVars
    <2> QED
      BY <2>1, UnrelatedStep DEF NoNewHeartBeats
  <1> QED
    BY <1>1, GrantStep, DenyStep, WinStep, OtherVoteRspStep DEF VoteMessages

LEMMA InitElection == Init => ElectionInv
  BY DEF Init, ElectionInv, OneBallotPerTerm, VotedForRemembers, StandsForItself,
         GrantsAreBallots, ElectedByTwo, LeadersAreElected, EmptyBag, SetToBag

LEMMA NextElection == TypeOK /\ ElectionInv /\ [Next]_vars => ElectionInv'
  <1> SUFFICES ASSUME TypeOK, ElectionInv, [Next]_vars PROVE ElectionInv'
    OBVIOUS
  <1>1. CASE UNCHANGED vars
    BY <1>1 DEF vars, electionVars, historyVars, ElectionInv, OneBallotPerTerm, VotedForRemembers,
       StandsForItself, GrantsAreBallots, ElectedByTwo, LeadersAreElected, Ballot, Peers, Won
  <1>2. CASE Next
    BY <1>2, ServerStep, VoteStep, AppendStep DEF Next
  <1> QED
    BY <1>1, <1>2

-----------------------------------------------------------------------------
(* The theorems.                                                           *)

(* Two leaders of a term would have been elected by two voters each; there *)
(* are three servers, so one voter gave two ballots.                       *)
LEMMA NoTwoLeaders == TypeOK /\ ElectionInv => ElectionSafety
  <1> SUFFICES ASSUME TypeOK, ElectionInv, NEW e \in elections, NEW f \in elections, e.term = f.term
               PROVE  e.leader = f.leader
    BY DEF ElectionSafety
  <1>1. e.leader \in Server /\ f.leader \in Server
    BY DEF TypeOK, ElectionTypeOK
  <1>2. PICK v \in Server \ {e.leader} : Ballot(v, e.term, e.leader) \in ballots
    BY DEF ElectionInv, ElectedByTwo, Peers
  <1>3. PICK w \in Server \ {f.leader} : Ballot(w, e.term, f.leader) \in ballots
    BY DEF ElectionInv, ElectedByTwo, Peers
  <1>4. /\ Ballot(e.leader, e.term, e.leader) \in ballots
        /\ Ballot(f.leader, e.term, f.leader) \in ballots
    BY DEF ElectionInv, ElectedByTwo
  <1>5. \A x, c, d : Ballot(x, e.term, c) \in ballots /\ Ballot(x, e.term, d) \in ballots => c = d
    <2> SUFFICES ASSUME NEW x, NEW c, NEW d, Ballot(x, e.term, c) \in ballots,
                        Ballot(x, e.term, d) \in ballots
                 PROVE  c = d
      OBVIOUS
    <2>1. /\ Ballot(x, e.term, c).voter = Ballot(x, e.term, d).voter
          /\ Ballot(x, e.term, c).term = Ballot(x, e.term, d).term
          /\ Ballot(x, e.term, c).candidate = c /\ Ballot(x, e.term, d).candidate = d
      BY DEF Ballot
    <2> QED
      BY <2>1 DEF ElectionInv, OneBallotPerTerm
  <1>6. e.leader = f.leader \/ e.leader = w \/ v = f.leader \/ v = w
    BY <1>1, <1>2, <1>3, ServerAssumption
  <1> QED
    BY <1>2, <1>3, <1>4, <1>5, <1>6

(* Every ballot, vote and election of a run fits together: the inductive   *)
(* invariant of the handlers of RequestVoteExecutor and of the term and    *)
(* role changes in AppendEntriesExecutor.                                  *)
THEOREM ElectionsFitTogether == Spec => []ElectionInv
  <1>1. Init => ElectionInv
    BY InitElection
  <1>2. TypeOK /\ ElectionInv /\ [Next]_vars => ElectionInv'
    BY NextElection
  <1> QED
    BY <1>1, <1>2, TypeCorrect, PTL DEF Spec

(* No term gets two leaders (requestVoteExecutor.cpp:11-31), for any       *)
(* number of terms, messages on their way and stopped servers.             *)
THEOREM ElectionIsSafe == Spec => []ElectionSafety
  <1>1. TypeOK /\ ElectionInv => ElectionSafety
    BY NoTwoLeaders
  <1> QED
    BY <1>1, TypeCorrect, ElectionsFitTogether, PTL

-----------------------------------------------------------------------------
(* What makes a leader give up.                                            *)

(* Granting a vote (requestVoteExecutor.cpp:16-28): a leader voted for     *)
(* itself, so that it grants only in a later term.                         *)
LEMMA LeaderGrantsLater ==
  ASSUME TypeOK, ElectionInv, NEW m \in votes, GrantVote(m), role[m.to] = "LEADER"
  PROVE  m.term > current_term[m.to]
  <1> DEFINE s == m.to
  <1>1. /\ s \in Server
        /\ m.term > current_term[s] \/ (m.term = current_term[s] /\ voted_for[s] = Nobody)
    BY MessageTypes DEF GrantVote, Grants
  <1>2. Ballot(s, current_term[s], s) \in ballots
    BY <1>1 DEF ElectionInv, StandsForItself
  <1>3. voted_for[s] = s
    BY <1>2 DEF ElectionInv, VotedForRemembers, Ballot
  <1> QED
    BY <1>1, <1>3, ServerAssumption

(* Following an AppendEntries (appendEntriesExecutor.cpp:24-29): it comes  *)
(* from the elected leader of its term, another server, so a leader        *)
(* follows only into a later term.                                         *)
LEMMA LeaderFollowsLater ==
  ASSUME TypeOK, ElectionInv, NEW m \in DOMAIN appends, m.type = "AppendEntriesReq",
         m.term >= current_term[m.to], role[m.to] = "LEADER"
  PROVE  m.term > current_term[m.to]
  <1> DEFINE s == m.to
  <1>1. s \in Server /\ m.term \in Nat /\ current_term[s] \in Nat
    BY MessageTypes DEF TypeOK, ElectionTypeOK, Term
  <1>2. CASE m.term = current_term[s]
    <2>1. Won(m.term, m.from) \in elections /\ Won(m.term, s) \in elections /\ m.from # s
      BY <1>1, <1>2 DEF ElectionInv, LeadersAreElected
    <2>2. /\ Won(m.term, m.from).term = Won(m.term, s).term
          /\ Won(m.term, m.from).leader = m.from /\ Won(m.term, s).leader = s
      BY DEF Won
    <2> QED
      BY <2>1, <2>2, NoTwoLeaders DEF ElectionSafety
  <1> QED
    BY <1>1, <1>2

=============================================================================
