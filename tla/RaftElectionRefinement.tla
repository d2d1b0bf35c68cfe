----------------------- MODULE RaftElectionRefinement -----------------------
(***************************************************************************)
(* The cluster's elections implement LeaderElection: every handler is a    *)
(* step of the abstract election, or no step of it at all.                 *)
(***************************************************************************)
EXTENDS RaftElectionProofs

(* A step of the abstract election, or a stutter. *)
AbstractStep == [Election!Next]_(Election!vars)

(* A server enters a later term without leading it                         *)
(* (aIOServer.cpp:36-42, requestVoteExecutor.cpp:16-20,48-51,              *)
(* appendEntriesExecutor.cpp:24-29,145-149).                               *)
LEMMA LaterTerm ==
  ASSUME TypeOK, NEW s \in Server, NEW term \in Nat, term > current_term[s],
         NEW r \in {"FOLLOWER", "CANDIDATE"},
         current_term' = [current_term EXCEPT ![s] = term],
         role' = [role EXCEPT ![s] = r], UNCHANGED elections
  PROVE  AbstractStep
  <1>1. current_term \in [Server -> Nat] /\ role \in [Server -> Role]
    BY DEF TypeOK, ElectionTypeOK, Term
  <1>2. current_term'[s] = term
    BY <1>1
  <1>3. Leading' = Leading \ {s}
    BY <1>1 DEF Leading
  <1>4. Election!Advance(s)
    BY <1>2, <1>3 DEF Election!Advance
  <1> QED
    BY <1>4 DEF AbstractStep, Election!Next

(* A server that does not lead becomes a follower of its own term, or      *)
(* nothing of the election changes.                                        *)
LEMMA SameTerm ==
  ASSUME TypeOK, NEW s \in Server, NEW term, term = current_term[s],
         current_term' = [current_term EXCEPT ![s] = term] \/ UNCHANGED current_term,
         \/ role[s] # "LEADER" /\ role' = [role EXCEPT ![s] = "FOLLOWER"]
         \/ UNCHANGED role,
         UNCHANGED elections
  PROVE  AbstractStep
  <1>1. current_term \in [Server -> Nat] /\ role \in [Server -> Role]
    BY DEF TypeOK, ElectionTypeOK, Term
  <1>2. current_term' = current_term
    BY <1>1
  <1>3. Leading' = Leading
    BY <1>1 DEF Leading
  <1> QED
    BY <1>2, <1>3 DEF AbstractStep, Election!vars

(* Standing for election (AIOServer::broadcast_vote). *)
LEMMA StandImplements ==
  ASSUME TypeOK, NEW s \in Server, broadcast_vote(s), UNCHANGED elections
  PROVE  AbstractStep
  <1>1. current_term[s] + 1 \in Nat /\ current_term[s] + 1 > current_term[s]
    BY DEF TypeOK, ElectionTypeOK, Term
  <1>2. /\ current_term' = [current_term EXCEPT ![s] = current_term[s] + 1]
        /\ role' = [role EXCEPT ![s] = "CANDIDATE"]
    BY DEF broadcast_vote
  <1> QED
    BY <1>1, <1>2, LaterTerm

(* Granting a vote (requestVoteExecutor.cpp:16-28): a server that already  *)
(* voted in the term, as every leader and candidate did, grants only in a  *)
(* later one.                                                              *)
LEMMA GrantImplements ==
  ASSUME TypeOK, ElectionInv, NEW m \in votes, GrantVote(m)
  PROVE  AbstractStep
  <1> DEFINE s == m.to
  <1>1. /\ s \in Server /\ m.term \in Nat
        /\ m.term > current_term[s] \/ (m.term = current_term[s] /\ voted_for[s] = Nobody)
        /\ current_term' = [current_term EXCEPT ![s] = m.term]
        /\ role' = [role EXCEPT ![s] = "FOLLOWER"]
        /\ UNCHANGED elections
    BY MessageTypes DEF GrantVote, Grants
  <1>2. CASE m.term > current_term[s]
    BY <1>1, <1>2, LaterTerm
  <1>3. CASE m.term = current_term[s] /\ voted_for[s] = Nobody
    <2>1. role[s] # "LEADER"
      BY <1>1, <1>3, LeaderGrantsLater
    <2> QED
      BY <1>1, <1>3, <2>1, SameTerm
  <1> QED
    BY <1>1, <1>2, <1>3

(* Winning (requestVoteExecutor.cpp:38-46): no other server was elected in *)
(* the term, or the cluster would now have two leaders of it.              *)
LEMMA WinImplements ==
  ASSUME TypeOK, ElectionInv, NEW m \in votes, WinElection(m), ElectionSafety'
  PROVE  AbstractStep
  <1> DEFINE s == m.to
  <1>1. /\ s \in Server /\ role[s] = "CANDIDATE"
        /\ role' = [role EXCEPT ![s] = "LEADER"]
        /\ elections' = elections \cup {Won(current_term[s], s)}
        /\ UNCHANGED current_term
    BY MessageTypes DEF WinElection, Wins, Won
  <1>2. role \in [Server -> Role] /\ elections \subseteq [term : Nat, leader : Server]
    BY DEF TypeOK, ElectionTypeOK, Term
  <1>3. \A e \in elections : e.term # current_term[s]
    <2> SUFFICES ASSUME NEW e \in elections, e.term = current_term[s] PROVE FALSE
      OBVIOUS
    <2>1. Won(current_term[s], s).term = current_term[s] /\ Won(current_term[s], s).leader = s
      BY DEF Won
    <2>2. e.leader = s
      BY <1>1, <2>1 DEF ElectionSafety
    <2>3. e = Won(current_term[s], s)
      BY <1>2, <2>2 DEF Won
    <2> QED
      BY <1>1, <2>3 DEF ElectionInv, LeadersAreElected
  <1>4. Leading' = Leading \cup {s}
    BY <1>1, <1>2 DEF Leading
  <1>5. Election!Elect(s)
    BY <1>1, <1>3, <1>4 DEF Election!Elect, Won
  <1> QED
    BY <1>1, <1>5 DEF AbstractStep, Election!Next

(* Following an AppendEntries (appendEntriesExecutor.cpp:24-29): it comes  *)
(* from the elected leader of its term, another server, so a leader        *)
(* follows only into a later term.                                         *)
LEMMA FollowImplements ==
  ASSUME TypeOK, ElectionInv, NEW m \in DOMAIN appends, m.type = "AppendEntriesReq",
         m.term >= current_term[m.to], Follow(m.to, m.term), UNCHANGED elections
  PROVE  AbstractStep
  <1> DEFINE s == m.to
  <1>1. s \in Server /\ m.term \in Nat /\ current_term[s] \in Nat
    BY MessageTypes DEF TypeOK, ElectionTypeOK, Term
  <1>2. /\ current_term' = [current_term EXCEPT ![s] = m.term]
        /\ role' = [role EXCEPT ![s] = "FOLLOWER"]
    BY DEF Follow
  <1>3. CASE m.term > current_term[s]
    BY <1>1, <1>2, <1>3, LaterTerm
  <1>4. CASE m.term = current_term[s]
    <2>1. role[s] # "LEADER"
      BY <1>1, <1>4, LeaderFollowsLater
    <2> QED
      BY <1>1, <1>2, <1>4, <2>1, SameTerm
  <1> QED
    BY <1>1, <1>3, <1>4

(* A response, to a vote or to AppendEntries, may only carry a server into *)
(* a later term (requestVoteExecutor.cpp:48-51,                            *)
(* appendEntriesExecutor.cpp:145-149).                                     *)
LEMMA ResponseImplements ==
  ASSUME TypeOK, NEW s \in Server, NEW term \in Nat,
         IF term > current_term[s]
         THEN /\ current_term' = [current_term EXCEPT ![s] = term]
              /\ role' = [role EXCEPT ![s] = "FOLLOWER"]
         ELSE UNCHANGED <<current_term, role>>,
         UNCHANGED elections
  PROVE  AbstractStep
  BY LaterTerm, SameTerm

-----------------------------------------------------------------------------
(* Every step of the cluster is one of the above, or leaves the terms, the *)
(* roles and the elections as they are.                                    *)
LEMMA StepImplements ==
  TypeOK /\ ElectionInv /\ ElectionSafety' /\ [Next]_vars => AbstractStep
  <1> SUFFICES ASSUME TypeOK, ElectionInv, ElectionSafety', [Next]_vars PROVE AbstractStep
    OBVIOUS
  <1>1. ASSUME UNCHANGED <<current_term, role, elections>> PROVE AbstractStep
    BY <1>1, ServerAssumption, SameTerm
  <1>2. CASE UNCHANGED vars
    BY <1>1, <1>2 DEF vars, electionVars, historyVars
  <1>3. ASSUME NEW s \in Server, Timeouts(s) \/ Requests(s) \/ Stop(s) \/ Resume(s)
        PROVE  AbstractStep
    <2>1. CASE FollowerTimeout(s)
      BY <1>1, <2>1, StandImplements DEF FollowerTimeout
    <2>2. CASE CandidateTimeout(s)
      BY <2>2, StandImplements DEF CandidateTimeout
    <2>3. CASE LeaderTimeout(s)
      BY <1>1, <2>3 DEF LeaderTimeout, electionVars, historyVars
    <2>4. CASE Requests(s)
      BY <1>1, <2>4 DEF Requests, IntraShardReq, PrepareReq, CommitReq, AbortReq, electionVars,
                        historyVars
    <2>5. CASE Stop(s) \/ Resume(s)
      BY <1>1, <2>5 DEF Stop, Resume, electionVars, historyVars
    <2> QED
      BY <1>3, <2>1, <2>2, <2>3, <2>4, <2>5 DEF Timeouts
  <1>4. ASSUME NEW m \in votes, VoteMessages(m) PROVE AbstractStep
    <2>1. m.to \in Server /\ m.term \in Nat
      BY MessageTypes
    <2>2. CASE GrantVote(m)
      BY <2>2, GrantImplements
    <2>3. CASE WinElection(m)
      BY <2>3, WinImplements
    <2>4. CASE OtherVoteRsp(m)
      <3>1. /\ IF m.term > current_term[m.to]
               THEN /\ current_term' = [current_term EXCEPT ![m.to] = m.term]
                    /\ role' = [role EXCEPT ![m.to] = "FOLLOWER"]
               ELSE UNCHANGED <<current_term, role>>
            /\ UNCHANGED elections
        BY <2>4 DEF OtherVoteRsp, historyVars
      <3> QED
        BY <2>1, <3>1, ResponseImplements
    <2>5. CASE DenyVote(m) \/ DropVote(m)
      BY <1>1, <2>5 DEF DenyVote, DropVote, electionVars, historyVars
    <2> QED
      BY <1>4, <2>2, <2>3, <2>4, <2>5 DEF VoteMessages
  <1>5. ASSUME NEW m \in DOMAIN appends, AppendMessages(m) PROVE AbstractStep
    <2>1. m.to \in Server /\ m.term \in Nat
      BY MessageTypes
    <2>2. CASE RejectMismatchedAppend(m)
      BY <2>2, FollowImplements DEF RejectMismatchedAppend, historyVars
    <2>3. CASE AcceptAppend(m)
      <3>1. /\ m.type = "AppendEntriesReq" /\ m.term >= current_term[m.to]
            /\ Follow(m.to, m.term) /\ UNCHANGED elections
        BY <2>3 DEF AcceptAppend, historyVars
      <3> QED
        BY <3>1, FollowImplements
    <2>4. CASE OtherAppendRsp(m)
      <3>1. /\ IF m.term > current_term[m.to]
               THEN /\ current_term' = [current_term EXCEPT ![m.to] = m.term]
                    /\ role' = [role EXCEPT ![m.to] = "FOLLOWER"]
               ELSE UNCHANGED <<current_term, role>>
            /\ UNCHANGED elections
        BY <2>4 DEF OtherAppendRsp, historyVars
      <3> QED
        BY <2>1, <3>1, ResponseImplements
    <2>5. CASE AppendSucceeded(m)
      <3>1. UNCHANGED <<current_term, role, elections>>
        BY <2>5 DEF AppendSucceeded, electionVars, historyVars
      <3> QED
        BY <1>1, <3>1
    <2>6. CASE RejectStaleAppend(m) \/ CrashOnAppend(m) \/ AppendFailed(m) \/ DropAppend(m)
      BY <1>1, <2>6 DEF RejectStaleAppend, CrashOnAppend, AppendFailed, DropAppend, electionVars,
                        historyVars
    <2> QED
      BY <1>5, <2>2, <2>3, <2>4, <2>5, <2>6 DEF AppendMessages
  <1> QED
    BY <1>2, <1>3, <1>4, <1>5 DEF Next

(* The cluster's elections implement LeaderElection: terms only grow, a    *)
(* term has one leader, and who changes its term stops leading             *)
(* (requestVoteExecutor.cpp, appendEntriesExecutor.cpp, aIOServer.cpp:36). *)
THEOREM ElectionsImplementLeaderElection == Spec => ImplementsLeaderElection
  <1>1. Init => Election!Init
    BY DEF Init, Election!Init, Leading
  <1>2. TypeOK /\ ElectionInv /\ ElectionSafety' /\ [Next]_vars => [Election!Next]_(Election!vars)
    BY StepImplements DEF AbstractStep
  <1> QED
    BY <1>1, <1>2, TypeCorrect, ElectionsFitTogether, ElectionIsSafe, PTL
    DEF Spec, ImplementsLeaderElection, Election!Spec

=============================================================================
