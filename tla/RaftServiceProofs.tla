------------------------- MODULE RaftServiceProofs -------------------------
(***************************************************************************)
(* What a cluster promises to those who use it: a client is answered once  *)
(* in any number of terms, and until a second leader is elected the first  *)
(* one keeps its locks, its balances and its followers in order.           *)
(***************************************************************************)
EXTENDS RaftReplicationProofs

-----------------------------------------------------------------------------
(* The copies in a bag.                                                    *)

(* The copy that one more x in bag B is. *)
NextCopy(B, x) == <<x, IF x \in DOMAIN B THEN B[x] + 1 ELSE 1>>

(* A bag of finitely many messages. *)
FiniteBag(B) == IsABag(B) /\ IsFiniteSet(Copies(B))

LEMMA CopiesMembers ==
  ASSUME NEW B, NEW x, NEW n
  PROVE  <<x, n>> \in Copies(B) <=> x \in DOMAIN B /\ n \in 1 .. B[x]
  BY DEF Copies

LEMMA CopiesArePairs ==
  ASSUME NEW B, NEW u \in Copies(B)
  PROVE  u = <<u[1], u[2]>> /\ u[1] \in DOMAIN B /\ u[2] \in 1 .. B[u[1]]
  BY DEF Copies

(* One more copy (BagAdd of the library).                                  *)
LEMMA CopiesOfAdd ==
  ASSUME NEW B, IsABag(B), NEW x
  PROVE  /\ IsABag(BagAdd(B, x))
         /\ Copies(BagAdd(B, x)) = Copies(B) \cup {NextCopy(B, x)}
         /\ NextCopy(B, x) \notin Copies(B)
  <1> DEFINE C == BagAdd(B, x)
  <1>1. B \in [DOMAIN B -> Nat \ {0}]
    BY DEF IsABag
  <1>2. /\ DOMAIN C = DOMAIN B \cup {x}
        /\ C[x] = IF x \in DOMAIN B THEN B[x] + 1 ELSE 1
        /\ \A y \in DOMAIN B : y # x => C[y] = B[y]
    BY DEF BagAdd
  <1>3. IsABag(C)
    <2>1. \A y \in DOMAIN C : C[y] \in {n \in Nat : n > 0}
      BY <1>1, <1>2
    <2>2. C = [y \in DOMAIN C |-> C[y]]
      BY DEF BagAdd
    <2> HIDE DEF C
    <2> QED
      BY <2>1, <2>2 DEF IsABag
  <1> HIDE DEF C
  <1>4. NextCopy(B, x) \notin Copies(B)
    BY <1>1, CopiesMembers DEF NextCopy
  <1>5. ASSUME NEW y, NEW n
        PROVE  <<y, n>> \in Copies(C) <=> <<y, n>> \in Copies(B) \/ <<y, n>> = NextCopy(B, x)
    <2>1. CASE y = x
      BY <1>1, <1>2, <2>1, CopiesMembers DEF NextCopy
    <2>2. CASE y # x
      BY <1>1, <1>2, <2>2, CopiesMembers DEF NextCopy
    <2> QED
      BY <2>1, <2>2
  <1>6. Copies(C) \subseteq Copies(B) \cup {NextCopy(B, x)}
    BY <1>5, CopiesArePairs
  <1>7. Copies(B) \cup {NextCopy(B, x)} \subseteq Copies(C)
    BY <1>5, CopiesArePairs DEF NextCopy
  <1> QED
    BY <1>3, <1>4, <1>6, <1>7 DEF C

(* One more copy of each element of a set ((+) and SetToBag).              *)
LEMMA CopiesOfUnion ==
  ASSUME NEW B, IsABag(B), NEW S
  PROVE  /\ IsABag(B (+) SetToBag(S))
         /\ Copies(B (+) SetToBag(S)) \subseteq Copies(B) \cup {NextCopy(B, x) : x \in S}
  <1> DEFINE C == B (+) SetToBag(S)
  <1>1. B \in [DOMAIN B -> Nat \ {0}]
    BY DEF IsABag
  <1>2. /\ DOMAIN C = DOMAIN B \cup S
        /\ \A y \in DOMAIN B \ S : C[y] = B[y]
        /\ \A y \in S : C[y] = IF y \in DOMAIN B THEN B[y] + 1 ELSE 1
        /\ C = [y \in DOMAIN C |-> C[y]]
    BY <1>1 DEF (+), SetToBag
  <1> HIDE DEF C
  <1>3. IsABag(C)
    <2>1. \A y \in DOMAIN C : C[y] \in {n \in Nat : n > 0}
      BY <1>1, <1>2
    <2> QED
      BY <1>2, <2>1 DEF IsABag
  <1>4. ASSUME NEW u \in Copies(C), u \notin Copies(B) PROVE u[1] \in S /\ u = NextCopy(B, u[1])
    <2>1. u = <<u[1], u[2]>> /\ u[1] \in DOMAIN C /\ u[2] \in 1 .. C[u[1]]
      BY CopiesArePairs
    <2>2. ~ (u[1] \in DOMAIN B /\ u[2] \in 1 .. B[u[1]])
      BY <1>4, <2>1, CopiesMembers
    <2> QED
      BY <1>1, <1>2, <2>1, <2>2 DEF NextCopy
  <1> QED
    BY <1>3, <1>4 DEF C

-----------------------------------------------------------------------------
(* A client is answered once.                                              *)

(* Nobody waits for an entry in a message: broadcast_heart_beat copies no  *)
(* req_fd (aIOServer.cpp:93).                                              *)
MessagesDontWait ==
  \A m \in DOMAIN appends :
    m.type = "AppendEntriesReq" => \A k \in DOMAIN m.entries : ~m.entries[k].wait

(* The inductive invariant: who was answered or waits, was asked for; the  *)
(* copies can be counted.                                                  *)
AnswerInv ==
  AnsweredOnce /\ MessagesDontWait /\ FiniteBag(arrived) /\ FiniteBag(replies)

LEMMA HeartBeatDoesNotWait ==
  ASSUME TypeOK, NEW s \in Server, NEW p, NEW size \in Int
  PROVE  \A k \in DOMAIN HeartBeat(s, p, size).entries : ~HeartBeat(s, p, size).entries[k].wait
  <1>1. log[s] \in Seq(Entry)
    BY DEF TypeOK, LogTypeOK
  <1>2. HeartBeat(s, p, size).entries = Slice(log[s], size)
    BY DEF HeartBeat
  <1>3. ASSUME NEW k \in DOMAIN Slice(log[s], size) PROVE ~Slice(log[s], size)[k].wait
    <2>1. size >= 0 /\ k \in 1 .. Len(log[s]) - size
      BY <1>1, <1>3 DEF Slice
    <2>2. Slice(log[s], size)[k] = WithoutFd(log[s][size + k])
      BY <2>1 DEF Slice
    <2> QED
      BY <2>2 DEF WithoutFd
  <1> QED
    BY <1>2, <1>3

LEMMA BroadcastDoesNotWait ==
  ASSUME TypeOK, MessagesDontWait, NEW s \in Server, NEW matched \in [Server -> Int],
         broadcast_heart_beat(s, matched)
  PROVE  MessagesDontWait'
  <1>1. DOMAIN appends' = DOMAIN appends \cup {HeartBeat(s, p, matched[p]) : p \in Peers(s)}
    BY BagUnionDomain DEF broadcast_heart_beat
  <1>2. \A p \in Peers(s) :
          \A k \in DOMAIN HeartBeat(s, p, matched[p]).entries :
            ~HeartBeat(s, p, matched[p]).entries[k].wait
    BY HeartBeatDoesNotWait DEF Peers
  <1> QED
    BY <1>1, <1>2 DEF MessagesDontWait

LEMMA OldMessagesDontWait ==
  ASSUME MessagesDontWait, NoNewHeartBeats
  PROVE  MessagesDontWait'
  BY DEF MessagesDontWait, NoNewHeartBeats

(* What a step does to the messages: nothing new, or a broadcast of a      *)
(* leader.                                                                 *)
LEMMA AppendsStep ==
  ASSUME TypeOK, [Next]_vars
  PROVE  \/ NoNewHeartBeats
         \/ \E s \in Server, matched \in [Server -> Int] :
              broadcast_heart_beat(s, matched) /\ role'[s] = "LEADER"
              /\ log' = log /\ commit_index' = commit_index
  <1>0. /\ matched_log_size \in [Server -> [Server -> Int]] /\ log \in [Server -> Seq(Entry)]
        /\ role \in [Server -> Role]
    BY DEF TypeOK, LogTypeOK, ElectionTypeOK
  <1>1. ASSUME appends' = appends PROVE NoNewHeartBeats
    BY <1>1 DEF NoNewHeartBeats
  <1>2. CASE UNCHANGED vars
    BY <1>1, <1>2 DEF vars
  <1>3. ASSUME NEW s \in Server, LeaderTimeout(s)
        PROVE  \E matched \in [Server -> Int] :
                 broadcast_heart_beat(s, matched) /\ role'[s] = "LEADER"
                 /\ log' = log /\ commit_index' = commit_index
    <2>1. /\ broadcast_heart_beat(s, matched_log_size[s])
          /\ role'[s] = "LEADER" /\ log' = log /\ commit_index' = commit_index
      BY <1>3 DEF LeaderTimeout, electionVars
    <2>2. matched_log_size[s] \in [Server -> Int]
      BY <1>0
    <2> QED
      BY <2>1, <2>2
  <1>4. ASSUME NEW s \in Server, Timeouts(s) \/ Requests(s) \/ Stop(s) \/ Resume(s),
               ~LeaderTimeout(s)
        PROVE  appends' = appends
    BY <1>4 DEF Timeouts, FollowerTimeout, CandidateTimeout, Requests, IntraShardReq, PrepareReq,
                CommitReq, AbortReq, Stop, Resume
  <1>5. ASSUME NEW m \in votes, WinElection(m)
        PROVE  \E s \in Server, matched \in [Server -> Int] :
                 broadcast_heart_beat(s, matched) /\ role'[s] = "LEADER"
                 /\ log' = log /\ commit_index' = commit_index
    <2>1. m.to \in Server
      BY MessageTypes
    <2>2. /\ broadcast_heart_beat(m.to, [p \in Server |-> Len(log[m.to])])
          /\ role'[m.to] = "LEADER" /\ log' = log /\ commit_index' = commit_index
      BY <1>0, <1>5, <2>1 DEF WinElection
    <2>3. [p \in Server |-> Len(log[m.to])] \in [Server -> Int]
      BY <1>0, <2>1
    <2> QED
      BY <2>1, <2>2, <2>3
  <1>6. ASSUME NEW m \in votes, OtherVoteRsp(m), appends' # appends
        PROVE  \E s \in Server, matched \in [Server -> Int] :
                 broadcast_heart_beat(s, matched) /\ role'[s] = "LEADER"
                 /\ log' = log /\ commit_index' = commit_index
    <2>1. m.to \in Server
      BY MessageTypes
    <2>2. /\ broadcast_heart_beat(m.to, matched_log_size[m.to])
          /\ role'[m.to] = "LEADER" /\ log' = log /\ commit_index' = commit_index
      BY <1>6, <2>1 DEF OtherVoteRsp
    <2>3. matched_log_size[m.to] \in [Server -> Int]
      BY <1>0, <2>1
    <2> QED
      BY <2>1, <2>2, <2>3
  <1>7. ASSUME NEW m \in votes, GrantVote(m) \/ DenyVote(m) \/ DropVote(m)
        PROVE  appends' = appends
    BY <1>7 DEF GrantVote, DenyVote, DropVote
  <1>8. ASSUME NEW m \in DOMAIN appends, AppendMessages(m) PROVE NoNewHeartBeats
    <2>1. CASE RejectStaleAppend(m) \/ RejectMismatchedAppend(m) \/ AcceptAppend(m)
      <3>1. PICK term, success : ReplyAppend(m, term, success)
        BY <2>1 DEF RejectStaleAppend, RejectMismatchedAppend, AcceptAppend
      <3> QED
        BY <3>1, ReplyMessages
    <2>2. CASE AppendSucceeded(m)
      <3>1. appends' = BagRemove(appends, m)
        BY <2>2 DEF AppendSucceeded
      <3> QED
        BY <3>1, RemoveMessages
    <2>3. CASE CrashOnAppend(m) \/ AppendFailed(m) \/ OtherAppendRsp(m) \/ DropAppend(m)
      <3>1. appends' = BagRemove(appends, m)
        BY <2>3 DEF CrashOnAppend, AppendFailed, OtherAppendRsp, DropAppend
      <3> QED
        BY <3>1, RemoveMessages
    <2> QED
      BY <1>8, <2>1, <2>2, <2>3 DEF AppendMessages
  <1> HIDE DEF NoNewHeartBeats
  <1>9. ASSUME NEW s \in Server, Timeouts(s) \/ Requests(s) \/ Stop(s) \/ Resume(s)
        PROVE  NoNewHeartBeats \/ LeaderTimeout(s)
    BY <1>1, <1>4, <1>9
  <1>10. ASSUME NEW m \in votes, VoteMessages(m)
         PROVE  NoNewHeartBeats \/ WinElection(m) \/ (OtherVoteRsp(m) /\ appends' # appends)
    BY <1>1, <1>7, <1>10 DEF VoteMessages
  <1> QED
    BY <1>2, <1>3, <1>5, <1>6, <1>8, <1>9, <1>10 DEF Next

LEMMA MessagesStayUnanswered ==
  ASSUME TypeOK, MessagesDontWait, [Next]_vars
  PROVE  MessagesDontWait'
  BY AppendsStep, OldMessagesDontWait, BroadcastDoesNotWait

(* Sets that can be counted.                                               *)
LEMMA AnswerSetsFinite ==
  ASSUME TypeOK, FiniteBag(arrived), FiniteBag(replies), NEW s \in Server, NEW t \in Txn
  PROVE  /\ IsFiniteSet(AskedFor(s, t)) /\ Cardinality(AskedFor(s, t)) \in Nat
         /\ IsFiniteSet(AnswersOf(s, t)) /\ Cardinality(AnswersOf(s, t)) \in Nat
         /\ IsFiniteSet(WaitingFor(s, t)) /\ Cardinality(WaitingFor(s, t)) \in Nat
  <1>1. log[s] \in Seq(Entry)
    BY DEF TypeOK, LogTypeOK
  <1>2. IsFiniteSet(DOMAIN log[s])
    BY <1>1, LogIsFinite
  <1>3. IsFiniteSet(AskedFor(s, t))
    <2>1. AskedFor(s, t) \in SUBSET Copies(arrived)
      BY DEF AskedFor
    <2> QED
      BY <2>1, FS_Subset DEF FiniteBag
  <1>4. IsFiniteSet(AnswersOf(s, t))
    <2>1. AnswersOf(s, t) \in SUBSET Copies(replies)
      BY DEF AnswersOf
    <2> QED
      BY <2>1, FS_Subset DEF FiniteBag
  <1>5. IsFiniteSet(WaitingFor(s, t))
    <2>1. WaitingFor(s, t) \in SUBSET (DOMAIN log[s])
      BY DEF WaitingFor
    <2> QED
      BY <1>2, <2>1, FS_Subset
  <1> QED
    BY <1>3, <1>4, <1>5, FS_CardinalityType

(* The bags after a step.                                                  *)
LEMMA FiniteAdd ==
  ASSUME NEW B, FiniteBag(B), NEW x
  PROVE  FiniteBag(BagAdd(B, x))
  <1>1. /\ IsABag(BagAdd(B, x))
        /\ Copies(BagAdd(B, x)) = Copies(B) \cup {NextCopy(B, x)}
    BY CopiesOfAdd DEF FiniteBag
  <1>2. IsFiniteSet(Copies(B) \cup {NextCopy(B, x)})
    BY FS_AddElement DEF FiniteBag
  <1> QED
    BY <1>1, <1>2 DEF FiniteBag

(* Nobody asks or is answered, and nobody else waits.                      *)
LEMMA QuietStep ==
  ASSUME TypeOK, AnswerInv, UNCHANGED <<arrived, replies>>,
         \A s \in Server, t \in Txn : WaitingFor(s, t)' \subseteq WaitingFor(s, t)
  PROVE  AnsweredOnce'
  <1> SUFFICES ASSUME NEW s \in Server, NEW t \in Txn
               PROVE  Cardinality(AnswersOf(s, t)') + Cardinality(WaitingFor(s, t)')
                        <= Cardinality(AskedFor(s, t)')
    BY DEF AnsweredOnce
  <1>1. AnswersOf(s, t)' = AnswersOf(s, t) /\ AskedFor(s, t)' = AskedFor(s, t)
    BY DEF AnswersOf, AskedFor
  <1>2. /\ IsFiniteSet(WaitingFor(s, t)) /\ Cardinality(WaitingFor(s, t)) \in Nat
        /\ Cardinality(AnswersOf(s, t)) \in Nat /\ Cardinality(AskedFor(s, t)) \in Nat
    BY AnswerSetsFinite DEF AnswerInv
  <1>3. WaitingFor(s, t)' \in SUBSET WaitingFor(s, t)
    OBVIOUS
  <1>4. /\ Cardinality(WaitingFor(s, t)') <= Cardinality(WaitingFor(s, t))
        /\ Cardinality(WaitingFor(s, t)') \in Nat
    BY <1>2, <1>3, FS_Subset, FS_CardinalityType
  <1>5. Cardinality(AnswersOf(s, t)) + Cardinality(WaitingFor(s, t)) <= Cardinality(AskedFor(s, t))
    BY DEF AnswerInv, AnsweredOnce
  <1> QED
    BY <1>1, <1>2, <1>4, <1>5

(* A request arrives: only what is asked of this server for this           *)
(* transaction grows.                                                      *)
LEMMA ArriveStep ==
  ASSUME FiniteBag(arrived), NEW phase, NEW x, NEW y, Arrive(phase, x, y), NEW s, NEW t
  PROVE  /\ IsFiniteSet(AskedFor(s, t)) =>
              IF s = x /\ t = y /\ phase \in {"PAY", "PREPARE"}
              THEN Cardinality(AskedFor(s, t)') = Cardinality(AskedFor(s, t)) + 1
              ELSE AskedFor(s, t)' = AskedFor(s, t)
  <1> DEFINE r == [phase |-> phase, to |-> x, id |-> y]
             c == NextCopy(arrived, r)
  <1>1. Copies(arrived') = Copies(arrived) \cup {c} /\ c \notin Copies(arrived)
    BY CopiesOfAdd DEF Arrive, FiniteBag
  <1>2. c[1] = r
    BY DEF NextCopy
  <1>3. r.to = x /\ r.id = y /\ r.phase = phase
    OBVIOUS
  <1> HIDE DEF c, r
  <1>4. CASE s = x /\ t = y /\ phase \in {"PAY", "PREPARE"}
    <2>1. AskedFor(s, t)' = AskedFor(s, t) \cup {c} /\ c \notin AskedFor(s, t)
      BY <1>1, <1>2, <1>3, <1>4 DEF AskedFor
    <2> QED
      BY <1>4, <2>1, FS_AddElement
  <1>5. CASE ~(s = x /\ t = y /\ phase \in {"PAY", "PREPARE"})
    <2>1. AskedFor(s, t)' = AskedFor(s, t)
      BY <1>1, <1>2, <1>3, <1>5 DEF AskedFor
    <2> QED
      BY <1>5, <2>1
  <1> QED
    BY <1>4, <1>5

LEMMA AnswerStep ==
  ASSUME FiniteBag(replies), NEW x, NEW y, NEW result, Answer(x, y, result), NEW s, NEW t
  PROVE  /\ IsFiniteSet(AnswersOf(s, t)) =>
              IF s = x /\ t = y
              THEN Cardinality(AnswersOf(s, t)') = Cardinality(AnswersOf(s, t)) + 1
              ELSE AnswersOf(s, t)' = AnswersOf(s, t)
  <1> DEFINE r == [id |-> y, from |-> x, result |-> result]
             c == NextCopy(replies, r)
  <1>1. Copies(replies') = Copies(replies) \cup {c} /\ c \notin Copies(replies)
    BY CopiesOfAdd DEF Answer, FiniteBag
  <1>2. c[1] = r
    BY DEF NextCopy
  <1>3. r.from = x /\ r.id = y
    OBVIOUS
  <1> HIDE DEF c, r
  <1>4. CASE s = x /\ t = y
    <2>1. AnswersOf(s, t)' = AnswersOf(s, t) \cup {c} /\ c \notin AnswersOf(s, t)
      BY <1>1, <1>2, <1>3, <1>4 DEF AnswersOf
    <2> QED
      BY <1>4, <2>1, FS_AddElement
  <1>5. CASE ~(s = x /\ t = y)
    <2>1. AnswersOf(s, t)' = AnswersOf(s, t)
      BY <1>1, <1>2, <1>3, <1>5 DEF AnswersOf
    <2> QED
      BY <1>5, <2>1
  <1> QED
    BY <1>4, <1>5

(* An entry is pushed: one more waits, if a client waits for it.           *)
LEMMA PushWaits ==
  ASSUME TypeOK, NEW x \in Server, NEW term \in Nat \cup {-1}, NEW kind \in Kind, NEW y \in Txn,
         log'[x] = Appended(log[x], term, kind, y, TRUE),
         \A r \in Server \ {x} : log'[r] = log[r],
         NEW s \in Server, NEW t \in Txn, IsFiniteSet(WaitingFor(s, t))
  PROVE  /\ s = x /\ t = y => Cardinality(WaitingFor(s, t)') = Cardinality(WaitingFor(s, t)) + 1
         /\ ~(s = x /\ t = y) => WaitingFor(s, t)' = WaitingFor(s, t)
  <1> DEFINE lg == log[x]
             e  == [term |-> term, index |-> Len(lg), kind |-> kind, id |-> y, wait |-> TRUE]
  <1>1. log \in [Server -> Seq(Entry)] /\ lg \in Seq(Entry)
    BY DEF TypeOK, LogTypeOK
  <1>2. log'[x] = Append(lg, e)
    BY DEF Appended
  <1>3. CASE s # x
    <2>1. log'[s] = log[s]
      BY <1>3
    <2> QED
      BY <1>3, <2>1 DEF WaitingFor
  <1>4. CASE s = x
    <2>1. /\ DOMAIN log'[s] = DOMAIN lg \cup {Len(lg) + 1} /\ Len(lg) + 1 \notin DOMAIN lg
          /\ log'[s][Len(lg) + 1] = e
          /\ \A p \in DOMAIN lg : log'[s][p] = lg[p]
      BY <1>1, <1>2, <1>4
    <2>2. e.wait = TRUE /\ e.id = y
      OBVIOUS
    <2> HIDE DEF e
    <2>3. CASE t = y
      <3>1. /\ WaitingFor(s, t)' = WaitingFor(s, t) \cup {Len(lg) + 1}
            /\ Len(lg) + 1 \notin WaitingFor(s, t)
        BY <1>4, <2>1, <2>2, <2>3 DEF WaitingFor
      <3>2. Cardinality(WaitingFor(s, t)') = Cardinality(WaitingFor(s, t)) + 1
        BY <3>1, FS_AddElement
      <3> QED
        BY <1>4, <2>3, <3>2
    <2>4. CASE t # y
      <3>1. WaitingFor(s, t)' = WaitingFor(s, t)
        BY <1>4, <2>1, <2>2, <2>4 DEF WaitingFor
      <3> QED
        BY <2>4, <3>1
    <2> QED
      BY <2>3, <2>4
  <1> QED
    BY <1>3, <1>4

LEMMA PushDoesNotWait ==
  ASSUME TypeOK, NEW x \in Server, NEW term \in Nat \cup {-1}, NEW kind \in Kind, NEW y \in Txn,
         log'[x] = Appended(log[x], term, kind, y, FALSE),
         \A r \in Server \ {x} : log'[r] = log[r],
         NEW s \in Server, NEW t \in Txn
  PROVE  WaitingFor(s, t)' = WaitingFor(s, t)
  <1> DEFINE lg == log[x]
             e  == [term |-> term, index |-> Len(lg), kind |-> kind, id |-> y, wait |-> FALSE]
  <1>1. log \in [Server -> Seq(Entry)] /\ lg \in Seq(Entry)
    BY DEF TypeOK, LogTypeOK
  <1>2. log'[x] = Append(lg, e)
    BY DEF Appended
  <1>3. CASE s # x
    <2>1. log'[s] = log[s]
      BY <1>3
    <2> QED
      BY <1>3, <2>1 DEF WaitingFor
  <1>4. CASE s = x
    <2>1. /\ DOMAIN log'[s] = DOMAIN lg \cup {Len(lg) + 1} /\ Len(lg) + 1 \notin DOMAIN lg
          /\ log'[s][Len(lg) + 1] = e
          /\ \A p \in DOMAIN lg : log'[s][p] = lg[p]
      BY <1>1, <1>2, <1>4
    <2>2. e.wait = FALSE
      OBVIOUS
    <2> HIDE DEF e
    <2> QED
      BY <1>4, <2>1, <2>2 DEF WaitingFor
  <1> QED
    BY <1>3, <1>4

(* A payment or a PREPARE is answered at once or pushed with its client.   *)
LEMMA AskedStep ==
  ASSUME TypeOK, AnswerInv, NEW x \in Server, NEW y \in Txn,
         IntraShardReq(x, y) \/ PrepareReq(x, y)
  PROVE  AnsweredOnce'
  <1> SUFFICES ASSUME NEW s \in Server, NEW t \in Txn
               PROVE  Cardinality(AnswersOf(s, t)') + Cardinality(WaitingFor(s, t)')
                        <= Cardinality(AskedFor(s, t)')
    BY DEF AnsweredOnce
  <1>1. FiniteBag(arrived) /\ FiniteBag(replies)
    BY DEF AnswerInv
  <1>2. /\ IsFiniteSet(AskedFor(s, t)) /\ Cardinality(AskedFor(s, t)) \in Nat
        /\ IsFiniteSet(AnswersOf(s, t)) /\ Cardinality(AnswersOf(s, t)) \in Nat
        /\ IsFiniteSet(WaitingFor(s, t)) /\ Cardinality(WaitingFor(s, t)) \in Nat
    BY <1>1, AnswerSetsFinite
  <1>3. Cardinality(AnswersOf(s, t)) + Cardinality(WaitingFor(s, t)) <= Cardinality(AskedFor(s, t))
    BY DEF AnswerInv, AnsweredOnce
  <1>4. IF s = x /\ t = y
        THEN Cardinality(AskedFor(s, t)') = Cardinality(AskedFor(s, t)) + 1
        ELSE AskedFor(s, t)' = AskedFor(s, t)
    <2>1. PICK phase \in {"PAY", "PREPARE"} : Arrive(phase, x, y)
      BY DEF IntraShardReq, PrepareReq
    <2> QED
      BY <1>1, <1>2, <2>1, ArriveStep
  <1>5. current_term[x] \in Nat \cup {-1}
    BY DEF TypeOK, ElectionTypeOK, Term
  <1>6. CASE \E result : Answer(x, y, result) /\ log' = log
    <2>1. PICK result : Answer(x, y, result) /\ log' = log
      BY <1>6
    <2>2. IF s = x /\ t = y
          THEN Cardinality(AnswersOf(s, t)') = Cardinality(AnswersOf(s, t)) + 1
          ELSE AnswersOf(s, t)' = AnswersOf(s, t)
      BY <1>1, <1>2, <2>1, AnswerStep
    <2>3. WaitingFor(s, t)' = WaitingFor(s, t)
      BY <2>1 DEF WaitingFor
    <2>4. CASE s = x /\ t = y
      <3>1. /\ Cardinality(AskedFor(s, t)') = Cardinality(AskedFor(s, t)) + 1
            /\ Cardinality(AnswersOf(s, t)') = Cardinality(AnswersOf(s, t)) + 1
            /\ Cardinality(WaitingFor(s, t)') = Cardinality(WaitingFor(s, t))
        BY <1>4, <2>2, <2>3, <2>4
      <3> QED
        BY <1>2, <1>3, <3>1
    <2>5. CASE ~(s = x /\ t = y)
      <3>1. /\ Cardinality(AskedFor(s, t)') = Cardinality(AskedFor(s, t))
            /\ Cardinality(AnswersOf(s, t)') = Cardinality(AnswersOf(s, t))
            /\ Cardinality(WaitingFor(s, t)') = Cardinality(WaitingFor(s, t))
        BY <1>4, <2>2, <2>3, <2>5
      <3> QED
        BY <1>2, <1>3, <3>1
    <2> QED
      BY <2>4, <2>5
  <1>7. CASE \E kind \in Kind :
               /\ log' = [log EXCEPT ![x] = Appended(@, current_term[x], kind, y, TRUE)]
               /\ replies' = replies
    <2>1. PICK kind \in Kind :
            /\ log' = [log EXCEPT ![x] = Appended(@, current_term[x], kind, y, TRUE)]
            /\ replies' = replies
      BY <1>7
    <2>2. IF s = x /\ t = y
          THEN Cardinality(WaitingFor(s, t)') = Cardinality(WaitingFor(s, t)) + 1
          ELSE WaitingFor(s, t)' = WaitingFor(s, t)
      <3>1. PICK term \in Nat \cup {-1} : term = current_term[x]
        BY <1>5
      <3>2. /\ log'[x] = Appended(log[x], term, kind, y, TRUE)
            /\ \A r \in Server \ {x} : log'[r] = log[r]
        BY <2>1, <3>1 DEF TypeOK, LogTypeOK
      <3> QED
        BY <1>2, <3>2, PushWaits
    <2>3. AnswersOf(s, t)' = AnswersOf(s, t)
      BY <2>1 DEF AnswersOf
    <2>4. CASE s = x /\ t = y
      <3>1. /\ Cardinality(AskedFor(s, t)') = Cardinality(AskedFor(s, t)) + 1
            /\ Cardinality(AnswersOf(s, t)') = Cardinality(AnswersOf(s, t))
            /\ Cardinality(WaitingFor(s, t)') = Cardinality(WaitingFor(s, t)) + 1
        BY <1>4, <2>2, <2>3, <2>4
      <3> QED
        BY <1>2, <1>3, <3>1
    <2>5. CASE ~(s = x /\ t = y)
      <3>1. /\ Cardinality(AskedFor(s, t)') = Cardinality(AskedFor(s, t))
            /\ Cardinality(AnswersOf(s, t)') = Cardinality(AnswersOf(s, t))
            /\ Cardinality(WaitingFor(s, t)') = Cardinality(WaitingFor(s, t))
        BY <1>4, <2>2, <2>3, <2>5
      <3> QED
        BY <1>2, <1>3, <3>1
    <2> QED
      BY <2>4, <2>5
  <1> QED
    BY <1>6, <1>7 DEF IntraShardReq, PrepareReq, Kind

(* A decision is no question, and nobody waits for its entry.              *)
LEMMA DecidedStep ==
  ASSUME TypeOK, AnswerInv, NEW x \in Server, NEW y \in Txn, CommitReq(x, y) \/ AbortReq(x, y)
  PROVE  AnsweredOnce'
  <1> SUFFICES ASSUME NEW s \in Server, NEW t \in Txn
               PROVE  Cardinality(AnswersOf(s, t)') + Cardinality(WaitingFor(s, t)')
                        <= Cardinality(AskedFor(s, t)')
    BY DEF AnsweredOnce
  <1>1. FiniteBag(arrived) /\ FiniteBag(replies)
    BY DEF AnswerInv
  <1>2. IsFiniteSet(AskedFor(s, t)) /\ IsFiniteSet(WaitingFor(s, t))
    BY <1>1, AnswerSetsFinite
  <1>3. Cardinality(AnswersOf(s, t)) + Cardinality(WaitingFor(s, t)) <= Cardinality(AskedFor(s, t))
    BY DEF AnswerInv, AnsweredOnce
  <1>4. AskedFor(s, t)' = AskedFor(s, t)
    <2>1. PICK phase \in {"COMMIT", "ABORT"} : Arrive(phase, x, y)
      BY DEF CommitReq, AbortReq
    <2> QED
      BY <1>1, <1>2, <2>1, ArriveStep
  <1>5. AnswersOf(s, t)' = AnswersOf(s, t)
    BY DEF CommitReq, AbortReq, AnswersOf
  <1>6. WaitingFor(s, t)' = WaitingFor(s, t)
    <2>1. DecisionTerm(x) \in Nat \cup {-1}
      BY DEF DecisionTerm, TypeOK, ElectionTypeOK, Term
    <2>2. CASE log' = log
      BY <2>2 DEF WaitingFor
    <2>3. CASE \E kind \in Kind :
                 log' = [log EXCEPT ![x] = Appended(@, DecisionTerm(x), kind, y, FALSE)]
      <3>1. PICK term \in Nat \cup {-1}, kind \in Kind :
              log' = [log EXCEPT ![x] = Appended(@, term, kind, y, FALSE)]
        BY <2>1, <2>3
      <3>2. /\ log'[x] = Appended(log[x], term, kind, y, FALSE)
            /\ \A r \in Server \ {x} : log'[r] = log[r]
        BY <3>1 DEF TypeOK, LogTypeOK
      <3> QED
        BY <1>2, <3>2, PushDoesNotWait
    <2> QED
      BY <2>2, <2>3 DEF CommitReq, AbortReq, Kind
  <1> QED
    BY <1>3, <1>4, <1>5, <1>6

(* What is merged into a log waits only where it waited before             *)
(* (appendEntriesExecutor.cpp:35-59).                                      *)
LEMMA MergeWaits ==
  ASSUME NEW lg \in Seq(Entry), NEW previndex \in Int, NEW prevterm, NEW entries \in Seq(Entry),
         Matches(lg, previndex, prevterm), \A k \in DOMAIN entries : ~entries[k].wait,
         NEW p \in DOMAIN Merge(lg, previndex, entries), Merge(lg, previndex, entries)[p].wait
  PROVE  p \in DOMAIN lg /\ Merge(lg, previndex, entries)[p] = lg[p]
  <1> DEFINE base    == previndex + 1
             last    == base + Len(entries)
             kept(i) == \A q \in base + 1 .. i : q <= Len(lg) /\ lg[q].term = entries[q - base].term
             new(i)  == IF kept(i) THEN lg[i] ELSE entries[i - base]
  <1>1. base \in Int /\ last \in Int /\ base <= Len(lg)
    BY DEF Matches
  <1>2. CASE kept(last)
    BY <1>2 DEF Merge
  <1>3. CASE ~kept(last)
    <2>1. Merge(lg, previndex, entries) = [i \in 1 .. last |-> new(i)]
      BY <1>3 DEF Merge
    <2>2. p \in 1 .. last /\ new(p).wait
      BY <2>1
    <2>3. kept(p)
      <3>1. SUFFICES ASSUME ~kept(p) PROVE FALSE
        OBVIOUS
      <3>2. p > base
        BY <1>1, <2>2, <3>1
      <3>3. p - base \in 1 .. Len(entries)
        BY <1>1, <2>2, <3>2
      <3> QED
        BY <2>2, <3>1, <3>3
    <2>4. p <= Len(lg)
      BY <1>1, <2>2, <2>3
    <2> QED
      BY <2>1, <2>2, <2>3, <2>4
  <1> QED
    BY <1>2, <1>3


(* A message of a leader merged into a log brings nobody who waits.        *)
LEMMA AcceptStep ==
  ASSUME TypeOK, AnswerInv, NEW m \in DOMAIN appends, AcceptAppend(m)
  PROVE  AnsweredOnce'
  <1>1. m \in AppendReq /\ m.to \in Server
    BY MessageTypes DEF AcceptAppend
  <1>2. PICK x \in Server : x = m.to
    BY <1>1
  <1>3. PICK lg \in Seq(Entry) : lg = log[x]
    BY DEF TypeOK, LogTypeOK
  <1>4. /\ Matches(lg, m.prevlogindex, m.prevlogterm)
        /\ log' = [log EXCEPT ![x] = Merge(lg, m.prevlogindex, m.entries)]
        /\ UNCHANGED <<arrived, replies>>
    BY <1>2, <1>3 DEF AcceptAppend, requestVars
  <1>5. /\ m.prevlogindex \in Int /\ m.entries \in Seq(Entry)
        /\ \A k \in DOMAIN m.entries : ~m.entries[k].wait
    BY <1>1 DEF AcceptAppend, AppendReq, AnswerInv, MessagesDontWait
  <1>6. log \in [Server -> Seq(Entry)]
    BY DEF TypeOK, LogTypeOK
  <1>7. ASSUME NEW s \in Server, NEW t \in Txn
        PROVE  WaitingFor(s, t)' \subseteq WaitingFor(s, t)
    <2>1. CASE s # x
      <3>1. log'[s] = log[s]
        BY <1>4, <1>6, <2>1
      <3> QED
        BY <3>1 DEF WaitingFor
    <2>2. CASE s = x
      <3>1. log'[s] = Merge(lg, m.prevlogindex, m.entries) /\ log[s] = lg
        BY <1>3, <1>4, <1>6, <2>2
      <3>2. ASSUME NEW p \in WaitingFor(s, t)'
            PROVE  p \in WaitingFor(s, t)
        <4>1. /\ p \in DOMAIN Merge(lg, m.prevlogindex, m.entries)
              /\ Merge(lg, m.prevlogindex, m.entries)[p].wait
              /\ Merge(lg, m.prevlogindex, m.entries)[p].id = t
          BY <3>1, <3>2 DEF WaitingFor
        <4>2. p \in DOMAIN lg /\ Merge(lg, m.prevlogindex, m.entries)[p] = lg[p]
          BY <1>4, <1>5, <4>1, MergeWaits
        <4> QED
          BY <3>1, <4>1, <4>2 DEF WaitingFor
      <3> QED
        BY <3>2
    <2> QED
      BY <2>1, <2>2
  <1> QED
    BY <1>4, <1>7, QuietStep

(* A commit answers clients that waited, each once                         *)
(* (appendEntriesExecutor.cpp:107,126).                                    *)
LEMMA CommitStep ==
  ASSUME TypeInv, AnswerInv, NEW m \in DOMAIN appends, AppendSucceeded(m)
  PROVE  AnsweredOnce' /\ FiniteBag(replies)'
  <1>1. /\ TypeOK /\ m.to \in Server /\ log \in [Server -> Seq(Entry)]
        /\ commit_index \in [Server -> Index] /\ coming_commit_index \in [Server -> Index]
    BY MessageTypes DEF TypeInv, TypeOK, LogTypeOK
  <1>2. PICK x \in Server : x = m.to
    BY <1>1
  <1>3. PICK due : due = IF LeaderCommits(x) THEN Due(x, coming_commit_index[x]) ELSE {}
    OBVIOUS
  <1>4. /\ log' = [log EXCEPT ![x] = Answered(@, due)]
        /\ replies' = replies (+) SetToBag(Answers(x, due))
        /\ arrived' = arrived /\ role[x] = "LEADER"
    BY <1>2, <1>3 DEF AppendSucceeded
  <1>5. due \subseteq DOMAIN log[x] /\ IsFiniteSet(DOMAIN log[x]) /\ IsFiniteSet(due)
    <2>1. coming_commit_index[x] < Len(log[x])
      BY <1>4 DEF TypeInv, LeaderIndexesInRange, Leading
    <2>2. /\ log[x] \in Seq(Entry) /\ commit_index[x] \in Nat \cup {-1}
          /\ coming_commit_index[x] \in Nat \cup {-1}
      BY <1>1 DEF Index
    <2>3. DOMAIN log[x] = 1 .. Len(log[x]) /\ Len(log[x]) \in Int
      BY <2>2
    <2>4. due \subseteq DOMAIN log[x]
      BY <1>3, <2>1, <2>2, <2>3 DEF Due
    <2>5. IsFiniteSet(DOMAIN log[x])
      BY <2>2, LogIsFinite
    <2>6. due \in SUBSET (DOMAIN log[x])
      BY <2>4
    <2>7. IsFiniteSet(due)
      BY <2>5, <2>6, FS_Subset
    <2> QED
      BY <2>4, <2>5, <2>7
  <1> DEFINE r(p) == [id |-> log[x][p].id, from |-> x,
                      result |-> IF log[x][p].kind = "PREPARE" THEN "YES" ELSE "SUCCESS"]
  <1>6. PICK f : f = [p \in due |-> NextCopy(replies, r(p))]
    OBVIOUS
  <1>7. FiniteBag(replies)
    BY DEF AnswerInv
  <1>8. \A u \in Copies(replies') :
          u \in Copies(replies) \/ \E p \in due : log[x][p].wait /\ u = f[p] /\ u[1] = r(p)
    <2>1. Copies(replies') \subseteq Copies(replies) \cup {NextCopy(replies, y) : y \in Answers(x, due)}
      BY <1>4, <1>7, CopiesOfUnion DEF FiniteBag
    <2>2. ASSUME NEW y \in Answers(x, due) PROVE \E p \in due : log[x][p].wait /\ y = r(p)
      <3>1. PICK p \in {q \in due : log[x][q].wait} : y = r(p)
        BY <2>2, Zenon DEF Answers
      <3> HIDE DEF r
      <3> QED
        BY <3>1
    <2> HIDE DEF r
    <2>3. \A y : NextCopy(replies, y)[1] = y
      BY DEF NextCopy
    <2> QED
      BY <1>6, <2>1, <2>2, <2>3
  <1>9. \A p \in due : r(p).id = log[x][p].id /\ r(p).from = x
    OBVIOUS
  <1> HIDE DEF r
  <1>10. FiniteBag(replies')
    <2>1. IsABag(replies')
      BY <1>4, <1>7, CopiesOfUnion DEF FiniteBag
    <2>2. f = [p \in due |-> f[p]]
      BY <1>6
    <2>3. IsFiniteSet(Copies(replies'))
      BY <1>5, <1>7, <1>8, <2>2, CardinalityOfImage DEF FiniteBag
    <2> QED
      BY <2>1, <2>3 DEF FiniteBag
  <1>11. ASSUME NEW s \in Server, NEW t \in Txn
         PROVE  Cardinality(AnswersOf(s, t)') + Cardinality(WaitingFor(s, t)')
                  <= Cardinality(AskedFor(s, t)')
    <2>1. /\ IsFiniteSet(WaitingFor(s, t)) /\ Cardinality(WaitingFor(s, t)) \in Nat
          /\ IsFiniteSet(AnswersOf(s, t)) /\ Cardinality(AnswersOf(s, t)) \in Nat
          /\ Cardinality(AskedFor(s, t)) \in Nat
      BY <1>1, AnswerSetsFinite DEF AnswerInv
    <2>2. Cardinality(AnswersOf(s, t)) + Cardinality(WaitingFor(s, t)) <= Cardinality(AskedFor(s, t))
      BY DEF AnswerInv, AnsweredOnce
    <2>3. AskedFor(s, t)' = AskedFor(s, t)
      BY <1>4 DEF AskedFor
    <2>4. PICK D : D = {p \in due : s = x /\ log[x][p].wait /\ log[x][p].id = t}
      OBVIOUS
    <2>5. D \subseteq WaitingFor(s, t) /\ IsFiniteSet(D) /\ Cardinality(D) \in Nat
      <3>1. D \subseteq WaitingFor(s, t)
        BY <1>5, <2>4 DEF WaitingFor
      <3> QED
        BY <2>1, <3>1, FS_Subset, FS_CardinalityType
    <2>6. Cardinality(WaitingFor(s, t)') = Cardinality(WaitingFor(s, t)) - Cardinality(D)
      <3>1. WaitingFor(s, t)' = WaitingFor(s, t) \ D
        <4>1. CASE s # x
          <5>1. log'[s] = log[s] /\ D = {}
            BY <1>1, <1>4, <2>4, <4>1
          <5> QED
            BY <5>1 DEF WaitingFor
        <4>2. CASE s = x
          <5>1. log'[s] = [p \in DOMAIN log[s] |-> IF p \in due THEN WithoutFd(log[s][p]) ELSE log[s][p]]
            BY <1>1, <1>4, <4>2 DEF Answered
          <5>2. \A p : ~WithoutFd(log[s][p]).wait
            BY DEF WithoutFd
          <5> QED
            BY <2>4, <4>2, <5>1, <5>2 DEF WaitingFor
        <4> QED
          BY <4>1, <4>2
      <3>2. WaitingFor(s, t) \cap D = D
        BY <2>5
      <3> QED
        BY <2>1, <3>1, <3>2, FS_Difference
    <2>7. /\ Cardinality(AnswersOf(s, t)') <= Cardinality(AnswersOf(s, t)) + Cardinality(D)
          /\ Cardinality(AnswersOf(s, t)') \in Nat
      <3>1. PICK g : g = [p \in D |-> f[p]]
        OBVIOUS
      <3>2. \A u \in AnswersOf(s, t)' : u \in AnswersOf(s, t) \/ \E p \in D : u = g[p]
        <4> SUFFICES ASSUME NEW u \in AnswersOf(s, t)', u \notin AnswersOf(s, t)
                     PROVE  \E p \in D : u = g[p]
          OBVIOUS
        <4>1. u \in Copies(replies') /\ u[1].from = s /\ u[1].id = t /\ u \notin Copies(replies)
          BY DEF AnswersOf
        <4>2. PICK p \in due : log[x][p].wait /\ u = f[p] /\ u[1] = r(p)
          BY <1>8, <4>1
        <4> QED
          BY <1>9, <2>4, <3>1, <4>1, <4>2
      <3>3. g = [p \in D |-> g[p]]
        BY <3>1
      <3>4. /\ IsFiniteSet(AnswersOf(s, t)')
            /\ Cardinality(AnswersOf(s, t)') <= Cardinality(AnswersOf(s, t)) + Cardinality(D)
        BY <2>1, <2>5, <3>2, <3>3, CardinalityOfImage
      <3> QED
        BY <3>4, FS_CardinalityType
    <2> QED
      BY <2>1, <2>2, <2>3, <2>5, <2>6, <2>7
  <1> QED
    BY <1>10, <1>11 DEF AnsweredOnce, FiniteBag

(* The other handlers answer nobody and leave the log alone.               *)
LEMMA OtherStep ==
  ASSUME TypeOK, [Next]_vars,
         \A x \in Server, t \in Txn :
           ~IntraShardReq(x, t) /\ ~PrepareReq(x, t) /\ ~CommitReq(x, t) /\ ~AbortReq(x, t),
         \A m \in DOMAIN appends : ~AcceptAppend(m) /\ ~AppendSucceeded(m)
  PROVE  UNCHANGED <<log, arrived, replies, local_balance_tb, local_lock, commit_index>>
  <1>1. CASE UNCHANGED vars
    BY <1>1 DEF vars, requestVars, dataVars, commitVars
  <1>2. ASSUME NEW s \in Server, Timeouts(s)
        PROVE  UNCHANGED <<log, arrived, replies, local_balance_tb, local_lock, commit_index>>
    BY <1>2 DEF Timeouts, FollowerTimeout, CandidateTimeout, LeaderTimeout, requestVars, dataVars,
                commitVars
  <1>3. ASSUME NEW s \in Server, Stop(s) \/ Resume(s)
        PROVE  UNCHANGED <<log, arrived, replies, local_balance_tb, local_lock, commit_index>>
    BY <1>3 DEF Stop, Resume, requestVars, dataVars, commitVars
  <1>4. ASSUME NEW s \in Server PROVE ~Requests(s)
    BY TxnAssumption DEF Requests
  <1>5. ASSUME NEW m \in votes, VoteMessages(m)
        PROVE  UNCHANGED <<log, arrived, replies, local_balance_tb, local_lock, commit_index>>
    BY <1>5 DEF VoteMessages, GrantVote, DenyVote, WinElection, OtherVoteRsp, DropVote,
                requestVars, dataVars, commitVars
  <1>6. ASSUME NEW m \in DOMAIN appends, AppendMessages(m)
        PROVE  UNCHANGED <<log, arrived, replies, local_balance_tb, local_lock, commit_index>>
    BY <1>6 DEF AppendMessages, RejectStaleAppend, RejectMismatchedAppend, CrashOnAppend,
                AppendFailed, OtherAppendRsp, DropAppend, requestVars, dataVars, commitVars
  <1> QED
    BY <1>1, <1>2, <1>3, <1>4, <1>5, <1>6 DEF Next

(* The bags stay finite.                                                   *)
LEMMA ArrivedFinite ==
  ASSUME FiniteBag(arrived), NEW phase, NEW x, NEW y, Arrive(phase, x, y)
  PROVE  FiniteBag(arrived)'
  <1>1. FiniteBag(BagAdd(arrived, [phase |-> phase, to |-> x, id |-> y]))
    BY FiniteAdd
  <1> QED
    BY <1>1 DEF Arrive, FiniteBag

LEMMA RepliesFinite ==
  ASSUME FiniteBag(replies), NEW x, NEW y, NEW result, Answer(x, y, result)
  PROVE  FiniteBag(replies)'
  <1>1. FiniteBag(BagAdd(replies, [id |-> y, from |-> x, result |-> result]))
    BY FiniteAdd
  <1> QED
    BY <1>1 DEF Answer, FiniteBag

LEMMA AnswerInvNext ==
  ASSUME TypeInv, AnswerInv, [Next]_vars
  PROVE  AnswerInv'
  <1>1. TypeOK /\ MessagesDontWait'
    BY MessagesStayUnanswered DEF TypeInv, AnswerInv
  <1>2. FiniteBag(arrived) /\ FiniteBag(replies)
    BY DEF AnswerInv
  <1>3. ASSUME UNCHANGED replies PROVE FiniteBag(replies)'
    BY <1>2, <1>3 DEF FiniteBag
  <1>4. ASSUME UNCHANGED arrived PROVE FiniteBag(arrived)'
    BY <1>2, <1>4 DEF FiniteBag
  <1>5. CASE \E x \in Server, y \in Txn : IntraShardReq(x, y) \/ PrepareReq(x, y)
    <2>1. PICK x \in Server, y \in Txn : IntraShardReq(x, y) \/ PrepareReq(x, y)
      BY <1>5
    <2>2. AnsweredOnce'
      BY <1>1, <2>1, AskedStep
    <2>3. FiniteBag(arrived)'
      BY <1>2, <2>1, ArrivedFinite DEF IntraShardReq, PrepareReq
    <2>4. FiniteBag(replies)'
      BY <1>2, <1>3, <2>1, RepliesFinite DEF IntraShardReq, PrepareReq
    <2> QED
      BY <1>1, <2>2, <2>3, <2>4 DEF AnswerInv
  <1>6. CASE \E x \in Server, y \in Txn : CommitReq(x, y) \/ AbortReq(x, y)
    <2>1. PICK x \in Server, y \in Txn : CommitReq(x, y) \/ AbortReq(x, y)
      BY <1>6
    <2>2. AnsweredOnce'
      BY <1>1, <2>1, DecidedStep
    <2>3. FiniteBag(arrived)'
      BY <1>2, <2>1, ArrivedFinite DEF CommitReq, AbortReq
    <2>4. FiniteBag(replies)'
      BY <1>3, <2>1 DEF CommitReq, AbortReq
    <2> QED
      BY <1>1, <2>2, <2>3, <2>4 DEF AnswerInv
  <1>7. CASE \E m \in DOMAIN appends : AppendSucceeded(m)
    <2>1. PICK m \in DOMAIN appends : AppendSucceeded(m)
      BY <1>7
    <2>2. AnsweredOnce' /\ FiniteBag(replies)'
      BY <2>1, CommitStep
    <2>3. FiniteBag(arrived)'
      BY <1>4, <2>1 DEF AppendSucceeded
    <2> QED
      BY <1>1, <2>2, <2>3 DEF AnswerInv
  <1>8. CASE \E m \in DOMAIN appends : AcceptAppend(m)
    <2>1. PICK m \in DOMAIN appends : AcceptAppend(m)
      BY <1>8
    <2>2. AnsweredOnce'
      BY <1>1, <2>1, AcceptStep
    <2>3. UNCHANGED <<arrived, replies>>
      BY <2>1 DEF AcceptAppend, requestVars
    <2> QED
      BY <1>1, <1>3, <1>4, <2>2, <2>3 DEF AnswerInv
  <1>9. CASE /\ \A x \in Server, t \in Txn :
                  ~IntraShardReq(x, t) /\ ~PrepareReq(x, t) /\ ~CommitReq(x, t) /\ ~AbortReq(x, t)
             /\ \A m \in DOMAIN appends : ~AcceptAppend(m) /\ ~AppendSucceeded(m)
    <2>1. UNCHANGED <<log, arrived, replies>>
      BY <1>1, <1>9, OtherStep
    <2>2. \A s \in Server, t \in Txn : WaitingFor(s, t)' \subseteq WaitingFor(s, t)
      BY <2>1 DEF WaitingFor
    <2>3. AnsweredOnce'
      BY <1>1, <2>1, <2>2, QuietStep
    <2> QED
      BY <1>1, <1>3, <1>4, <2>1, <2>3 DEF AnswerInv
  <1> QED
    BY <1>5, <1>6, <1>7, <1>8, <1>9

(* A client is answered at most once, and never while it still waits, in   *)
(* every execution of any cluster: AnsweredOnce of the replication run.    *)
THEOREM ClientsAreAnsweredOnce == Spec => []AnsweredOnce
  <1>1. Init => AnswerInv
    <2> SUFFICES ASSUME Init PROVE AnswerInv
      OBVIOUS
    <2>1. DOMAIN arrived = {} /\ DOMAIN replies = {} /\ DOMAIN appends = {}
      BY DEF Init, EmptyBag, SetToBag
    <2>2. IsABag(arrived) /\ IsABag(replies)
      BY DEF Init, EmptyBag, SetToBag, IsABag
    <2>3. Copies(arrived) = {} /\ Copies(replies) = {}
      BY <2>1, CopiesArePairs
    <2>4. FiniteBag(arrived) /\ FiniteBag(replies)
      BY <2>2, <2>3, FS_EmptySet DEF FiniteBag
    <2>5. ASSUME NEW s \in Server, NEW t \in Txn
          PROVE  Cardinality(AnswersOf(s, t)) + Cardinality(WaitingFor(s, t))
                   <= Cardinality(AskedFor(s, t))
      <3>1. log[s] = << >>
        BY DEF Init
      <3>2. AnswersOf(s, t) = {} /\ WaitingFor(s, t) = {} /\ AskedFor(s, t) = {}
        BY <2>3, <3>1 DEF AnswersOf, WaitingFor, AskedFor
      <3> QED
        BY <3>2, FS_EmptySet
    <2> QED
      BY <2>1, <2>4, <2>5 DEF AnswerInv, AnsweredOnce, MessagesDontWait
  <1>2. TypeInv /\ AnswerInv /\ [Next]_vars => AnswerInv'
    BY AnswerInvNext
  <1>3. AnswerInv => AnsweredOnce
    BY DEF AnswerInv
  <1>4. Spec => []TypeInv
    BY TypeCorrect, IndexesStayInRange, PTL DEF TypeInv
  <1> QED
    BY <1>1, <1>2, <1>3, <1>4, PTL DEF Spec

-----------------------------------------------------------------------------
(* Until a second leader is elected.                                       *)

(* Nobody was elected yet, or s was: what holds of every server before the *)
(* election is what its winner starts with.                                *)
Settled(s) == elections = {} \/ role[s] = "LEADER"

(* Who leads after a step, led before it or wins the only election.        *)
LEMMA SettledBefore ==
  ASSUME TypeOK, ElectionInv, [Next]_vars, OneLeader', NEW s \in Server, Settled(s)'
  PROVE  OneLeader /\ Settled(s)
  <1>1. ElectionInv'
    BY NextElection
  <1>2. role \in [Server -> Role]
    BY DEF TypeOK, ElectionTypeOK
  <1>3. CASE \E m \in votes : WinElection(m)
    <2>1. PICK m \in votes : WinElection(m)
      BY <1>3
    <2>2. /\ m.to \in Server /\ role[m.to] = "CANDIDATE"
          /\ role' = [role EXCEPT ![m.to] = "LEADER"]
          /\ elections' = elections \cup {Won(current_term[m.to], m.to)}
      BY <2>1, MessageTypes DEF WinElection, Wins, Won
    <2>3. Won(current_term[m.to], m.to) \notin elections
      BY <2>2 DEF ElectionInv, LeadersAreElected
    <2>4. elections = {}
      BY <2>2, <2>3 DEF OneLeader
    <2> QED
      BY <2>4 DEF OneLeader, Settled
  <1>4. CASE ~ \E m \in votes : WinElection(m)
    <2>1. elections' = elections /\ (role'[s] = "LEADER" => role[s] = "LEADER")
      <3>1. CASE UNCHANGED vars
        BY <3>1 DEF vars, electionVars, historyVars
      <3>2. ASSUME NEW x \in Server, Timeouts(x) \/ Requests(x) \/ Stop(x) \/ Resume(x)
            PROVE  elections' = elections /\ (role'[s] = "LEADER" => role[s] = "LEADER")
        <4>1. CASE Timeouts(x)
          BY <1>2, <4>1 DEF Timeouts, FollowerTimeout, CandidateTimeout, LeaderTimeout,
                            broadcast_vote, electionVars, historyVars
        <4>2. CASE Requests(x)
          BY <4>2 DEF Requests, IntraShardReq, PrepareReq, CommitReq, AbortReq, electionVars,
                      historyVars
        <4>3. CASE Stop(x) \/ Resume(x)
          BY <4>3 DEF Stop, Resume, electionVars, historyVars
        <4> QED
          BY <3>2, <4>1, <4>2, <4>3
      <3>3. ASSUME NEW m \in votes, VoteMessages(m)
            PROVE  elections' = elections /\ (role'[s] = "LEADER" => role[s] = "LEADER")
        <4>1. m.to \in Server
          BY MessageTypes
        <4>2. CASE GrantVote(m) \/ OtherVoteRsp(m)
          BY <1>2, <4>1, <4>2 DEF GrantVote, OtherVoteRsp, historyVars
        <4>3. CASE DenyVote(m) \/ DropVote(m)
          BY <4>3 DEF DenyVote, DropVote, electionVars, historyVars
        <4> QED
          BY <1>4, <3>3, <4>2, <4>3 DEF VoteMessages
      <3>4. ASSUME NEW m \in DOMAIN appends, AppendMessages(m)
            PROVE  elections' = elections /\ (role'[s] = "LEADER" => role[s] = "LEADER")
        <4>1. m.to \in Server
          BY MessageTypes
        <4>2. CASE RejectMismatchedAppend(m) \/ AcceptAppend(m) \/ OtherAppendRsp(m)
          BY <1>2, <4>1, <4>2 DEF RejectMismatchedAppend, AcceptAppend, OtherAppendRsp, Follow,
                                  historyVars
        <4>3. CASE RejectStaleAppend(m) \/ CrashOnAppend(m) \/ AppendFailed(m) \/ DropAppend(m)
          BY <4>3 DEF RejectStaleAppend, CrashOnAppend, AppendFailed, DropAppend, electionVars,
                      historyVars
        <4>4. CASE AppendSucceeded(m)
          BY <4>4 DEF AppendSucceeded, electionVars, historyVars
        <4> QED
          BY <3>4, <4>2, <4>3, <4>4 DEF AppendMessages
      <3> QED
        BY <3>1, <3>2, <3>3, <3>4 DEF Next
    <2> QED
      BY <2>1 DEF OneLeader, Settled
  <1> QED
    BY <1>3, <1>4

(* Requests at s: what IntraShardExecutor and CrossShardExecutor are       *)
(* called with.                                                            *)
Requested(s) ==
  \/ \E t \in Txn : IntraShardReq(s, t) \/ PrepareReq(s, t)
  \/ \E t \in CrossShard : CommitReq(s, t)
  \/ \E t \in Txn : AbortReq(s, t)

(* The handler is not one that changes the log or the data of s.           *)
Unaffected(s) ==
  /\ log'[s] = log[s] /\ commit_index'[s] = commit_index[s]
  /\ local_balance_tb'[s] = local_balance_tb[s] /\ local_lock'[s] = local_lock[s]

(* What a step can do to a server, whoever leads.                          *)
LEMMA ServerChanges ==
  ASSUME TypeOK, [Next]_vars, NEW s \in Server
  PROVE  \/ Unaffected(s)
         \/ Requested(s)
         \/ \E m \in DOMAIN appends : AcceptAppend(m) /\ m.to = s
         \/ \E m \in DOMAIN appends : AppendSucceeded(m) /\ m.to = s
  <1>1. /\ log \in [Server -> Seq(Entry)] /\ commit_index \in [Server -> Index]
        /\ local_balance_tb \in [Server -> [Account -> Int]]
        /\ local_lock \in [Server -> [Account -> BOOLEAN]]
    BY DEF TypeOK, LogTypeOK, ServiceTypeOK
  <1>2. CASE \E x \in Server : Requests(x)
    <2>1. PICK x \in Server : Requests(x)
      BY <1>2
    <2>2. Requested(x)
      BY <2>1, TxnAssumption DEF Requests, Requested
    <2>3. CASE x # s
      <3>1. CASE \E t \in Txn : IntraShardReq(x, t) \/ PrepareReq(x, t)
        BY <1>1, <2>3, <3>1 DEF IntraShardReq, PrepareReq, LockOwn, commitVars, Unaffected
      <3>2. CASE \E t \in CrossShard : CommitReq(x, t)
        BY <1>1, <2>3, <3>2 DEF CommitReq, commitVars, Unaffected
      <3>3. CASE \E t \in Txn : AbortReq(x, t)
        BY <1>1, <2>3, <3>3 DEF AbortReq, commitVars, dataVars, Unaffected
      <3> QED
        BY <2>2, <3>1, <3>2, <3>3 DEF Requested
    <2> QED
      BY <2>2, <2>3
  <1>3. CASE \E m \in DOMAIN appends : AcceptAppend(m) \/ AppendSucceeded(m)
    <2>1. PICK m \in DOMAIN appends : AcceptAppend(m) \/ AppendSucceeded(m)
      BY <1>3
    <2>2. CASE m.to # s
      <3>1. CASE AcceptAppend(m)
        BY <1>1, <2>2, <3>1 DEF AcceptAppend, Unaffected
      <3>2. CASE AppendSucceeded(m)
        BY <1>1, <2>2, <3>2 DEF AppendSucceeded, Unaffected
      <3> QED
        BY <2>1, <3>1, <3>2
    <2> QED
      BY <2>1, <2>2
  <1>4. CASE UNCHANGED vars
    BY <1>4 DEF vars, commitVars, dataVars, Unaffected
  <1>5. ASSUME NEW x \in Server, Timeouts(x) \/ Stop(x) \/ Resume(x) PROVE Unaffected(s)
    BY <1>5 DEF Timeouts, FollowerTimeout, CandidateTimeout, LeaderTimeout, Stop, Resume,
                commitVars, dataVars, Unaffected
  <1>6. ASSUME NEW m \in votes, VoteMessages(m) PROVE Unaffected(s)
    BY <1>6 DEF VoteMessages, GrantVote, DenyVote, WinElection, OtherVoteRsp, DropVote,
                commitVars, dataVars, Unaffected
  <1>7. ASSUME NEW m \in DOMAIN appends, AppendMessages(m), ~AcceptAppend(m), ~AppendSucceeded(m)
        PROVE  Unaffected(s)
    BY <1>7 DEF AppendMessages, RejectStaleAppend, RejectMismatchedAppend, CrashOnAppend,
                AppendFailed, OtherAppendRsp, DropAppend, commitVars, dataVars, Unaffected
  <1> QED
    BY <1>2, <1>3, <1>4, <1>5, <1>6, <1>7 DEF Next

(* The server that leads or will, does not follow a message of another.    *)
LEMMA SettledDoesNotFollow ==
  ASSUME TypeOK, ElectionInv, NEW s \in Server, Settled(s)', NEW m \in DOMAIN appends, m.to = s
  PROVE  ~AcceptAppend(m)
  <1> SUFFICES ASSUME AcceptAppend(m) PROVE FALSE
    OBVIOUS
  <1>1. m.type = "AppendEntriesReq" /\ elections' = elections
    BY DEF AcceptAppend, historyVars
  <1>2. elections # {}
    BY <1>1 DEF ElectionInv, LeadersAreElected
  <1>3. role'[s] = "FOLLOWER"
    BY DEF AcceptAppend, Follow, TypeOK, ElectionTypeOK
  <1> QED
    BY <1>1, <1>2, <1>3 DEF Settled

(* It changes by requests and commits only.                                *)
LEMMA SettledChanges ==
  ASSUME TypeOK, ElectionInv, [Next]_vars, NEW s \in Server, Settled(s)'
  PROVE  \/ Unaffected(s)
         \/ Requested(s)
         \/ \E m \in DOMAIN appends : AppendSucceeded(m) /\ m.to = s
  BY SettledDoesNotFollow, ServerChanges

(* coming_commit_index only moves to the end of the log                    *)
(* (aIOServer.cpp:98).                                                     *)
LEMMA ComingStep ==
  ASSUME TypeOK, [Next]_vars, NEW s \in Server
  PROVE  \/ coming_commit_index'[s] = coming_commit_index[s]
         \/ coming_commit_index'[s] = Len(log[s]) - 1 /\ Unaffected(s)
  <1>0. coming_commit_index \in [Server -> Index]
    BY DEF TypeOK, LogTypeOK
  <1>1. ASSUME NEW x \in Server, NEW matched, broadcast_heart_beat(x, matched),
               UNCHANGED <<log, commit_index, local_balance_tb, local_lock>>
        PROVE  \/ coming_commit_index'[s] = coming_commit_index[s]
               \/ coming_commit_index'[s] = Len(log[s]) - 1 /\ Unaffected(s)
    BY <1>0, <1>1 DEF broadcast_heart_beat, LastIndex, Unaffected
  <1>2. CASE coming_commit_index' = coming_commit_index
    BY <1>2
  <1>3. CASE UNCHANGED vars
    BY <1>3 DEF vars, commitVars
  <1>4. ASSUME NEW x \in Server, Timeouts(x) \/ Requests(x) \/ Stop(x) \/ Resume(x)
        PROVE  \/ coming_commit_index' = coming_commit_index
               \/ LeaderTimeout(x)
    BY <1>4 DEF Timeouts, FollowerTimeout, CandidateTimeout, Stop, Resume, Requests,
                IntraShardReq, PrepareReq, CommitReq, AbortReq, commitVars
  <1>5. ASSUME NEW x \in Server, LeaderTimeout(x)
        PROVE  /\ broadcast_heart_beat(x, matched_log_size[x])
               /\ UNCHANGED <<log, commit_index, local_balance_tb, local_lock>>
    BY <1>5 DEF LeaderTimeout, dataVars
  <1>6. ASSUME NEW m \in votes, VoteMessages(m)
        PROVE  \/ coming_commit_index' = coming_commit_index
               \/ /\ \E matched : broadcast_heart_beat(m.to, matched)
                  /\ UNCHANGED <<log, commit_index, local_balance_tb, local_lock>>
    BY <1>6 DEF VoteMessages, GrantVote, DenyVote, WinElection, OtherVoteRsp, DropVote, commitVars,
                dataVars
  <1>7. ASSUME NEW m \in DOMAIN appends, AppendMessages(m)
        PROVE  coming_commit_index' = coming_commit_index
    BY <1>7 DEF AppendMessages, RejectStaleAppend, RejectMismatchedAppend, AcceptAppend,
                CrashOnAppend, AppendSucceeded, AppendFailed, OtherAppendRsp, DropAppend, commitVars
  <1>8. \A m \in votes : m.to \in Server
    BY MessageTypes
  <1> QED
    BY <1>1, <1>2, <1>3, <1>4, <1>5, <1>6, <1>7, <1>8 DEF Next

(* new is lg with one more entry, a command of this kind for t.            *)
Pushed(lg, new, kind, t) ==
  /\ Len(new) = Len(lg) + 1 /\ DOMAIN new = 1 .. Len(lg) + 1
  /\ \A p \in DOMAIN lg : new[p] = lg[p]
  /\ new[Len(lg) + 1].kind = kind /\ new[Len(lg) + 1].id = t

LEMMA AppendedPushes ==
  ASSUME NEW lg \in Seq(Entry), NEW term, NEW kind, NEW t, NEW wait
  PROVE  Pushed(lg, Appended(lg, term, kind, t, wait), kind, t)
  <1> DEFINE e == [term |-> term, index |-> Len(lg), kind |-> kind, id |-> t, wait |-> wait]
  <1>1. e.kind = kind /\ e.id = t
    OBVIOUS
  <1>2. Appended(lg, term, kind, t, wait) = Append(lg, e)
    BY DEF Appended
  <1> HIDE DEF e
  <1> QED
    BY <1>1, <1>2 DEF Pushed

(* A request at s: a payment or a PREPARE that locks what it touches, a    *)
(* COMMIT that moves money at once, an ABORT, or nothing.                  *)
Locks(s, kind, t) ==
  /\ Pushed(log[s], log'[s], kind, t)
  /\ \A a \in Own(t) : ~local_lock[s][a]
  /\ ~Short(s, t)
  /\ \A a \in Account : local_lock'[s][a] <=> local_lock[s][a] \/ a \in Own(t)
  /\ local_balance_tb'[s] = local_balance_tb[s]
Moves(s, t) ==
  /\ Pushed(log[s], log'[s], "COMMIT", t)
  /\ ~Logged(log[s], {"COMMIT"}, t)
  /\ local_lock'[s] = local_lock[s]
  /\ local_balance_tb'[s] = Transfer(local_balance_tb[s], t)
Aborts(s, t) ==
  /\ Pushed(log[s], log'[s], "ABORT", t)
  /\ local_lock'[s] = local_lock[s] /\ local_balance_tb'[s] = local_balance_tb[s]

LEMMA RequestChanges ==
  ASSUME TypeOK, NEW s \in Server, Requested(s)
  PROVE  /\ commit_index'[s] = commit_index[s]
         /\ coming_commit_index'[s] = coming_commit_index[s]
         /\ \/ Unaffected(s)
            \/ \E t \in Txn, kind \in {"PAY", "PREPARE"} : Locks(s, kind, t)
            \/ \E t \in CrossShard : Moves(s, t) /\ Arrive("COMMIT", s, t)
            \/ \E t \in Txn : Aborts(s, t)
  <1>1. /\ log \in [Server -> Seq(Entry)] /\ log[s] \in Seq(Entry)
        /\ local_balance_tb \in [Server -> [Account -> Int]]
        /\ local_lock \in [Server -> [Account -> BOOLEAN]]
    BY DEF TypeOK, LogTypeOK, ServiceTypeOK
  <1>2. UNCHANGED commitVars
    BY DEF Requested, IntraShardReq, PrepareReq, CommitReq, AbortReq
  <1>3. ASSUME NEW t \in Txn, LockOwn(s, t)
        PROVE  \A a \in Account : local_lock'[s][a] <=> local_lock[s][a] \/ a \in Own(t)
    <2>1. local_lock'[s] = [a \in Account |-> local_lock[s][a] \/ a \in Own(t)]
      BY <1>1, <1>3 DEF LockOwn
    <2> QED
      BY <2>1
  <1>4. ASSUME NEW t \in Txn, IntraShardReq(s, t) PROVE Unaffected(s) \/ Locks(s, "PAY", t)
    <2>1. CASE RefusesPay(s, t)
      BY <1>2, <1>4, <2>1 DEF IntraShardReq, Unaffected, commitVars
    <2>2. CASE ~RefusesPay(s, t)
      <3>1. log'[s] = Appended(log[s], current_term[s], "PAY", t, TRUE)
        BY <1>1, <1>4, <2>2 DEF IntraShardReq
      <3>2. Pushed(log[s], log'[s], "PAY", t)
        BY <1>1, <3>1, AppendedPushes
      <3>3. LockOwn(s, t) /\ UNCHANGED local_balance_tb
        BY <1>4, <2>2 DEF IntraShardReq
      <3>4. \A a \in Account : local_lock'[s][a] <=> local_lock[s][a] \/ a \in Own(t)
        BY <1>3, <3>3
      <3> QED
        BY <2>2, <3>2, <3>3, <3>4 DEF Locks, RefusesPay
    <2> QED
      BY <2>1, <2>2
  <1>5. ASSUME NEW t \in Txn, PrepareReq(s, t) PROVE Unaffected(s) \/ Locks(s, "PREPARE", t)
    <2>1. CASE RefusesPrepare(s, t)
      BY <1>2, <1>5, <2>1 DEF PrepareReq, Unaffected, commitVars
    <2>2. CASE ~RefusesPrepare(s, t)
      <3>1. log'[s] = Appended(log[s], current_term[s], "PREPARE", t, TRUE)
        BY <1>1, <1>5, <2>2 DEF PrepareReq
      <3>2. Pushed(log[s], log'[s], "PREPARE", t)
        BY <1>1, <3>1, AppendedPushes
      <3>3. LockOwn(s, t) /\ UNCHANGED local_balance_tb
        BY <1>5, <2>2 DEF PrepareReq
      <3>4. \A a \in Account : local_lock'[s][a] <=> local_lock[s][a] \/ a \in Own(t)
        BY <1>3, <3>3
      <3> QED
        BY <2>2, <3>2, <3>3, <3>4 DEF Locks, RefusesPrepare
    <2> QED
      BY <2>1, <2>2
  <1>6. ASSUME NEW t \in CrossShard, CommitReq(s, t)
        PROVE  Unaffected(s) \/ (Moves(s, t) /\ Arrive("COMMIT", s, t))
    <2>1. CASE Logged(log[s], {"COMMIT"}, t)
      BY <1>2, <1>6, <2>1 DEF CommitReq, Unaffected, commitVars
    <2>2. CASE ~Logged(log[s], {"COMMIT"}, t)
      <3>1. /\ log'[s] = Appended(log[s], DecisionTerm(s), "COMMIT", t, FALSE)
            /\ local_balance_tb'[s] = Transfer(local_balance_tb[s], t)
            /\ local_lock' = local_lock /\ Arrive("COMMIT", s, t)
        BY <1>1, <1>6, <2>2 DEF CommitReq
      <3>2. Pushed(log[s], log'[s], "COMMIT", t)
        BY <1>1, <3>1, AppendedPushes
      <3> QED
        BY <2>2, <3>1, <3>2 DEF Moves
    <2> QED
      BY <2>1, <2>2
  <1>7. ASSUME NEW t \in Txn, AbortReq(s, t) PROVE Unaffected(s) \/ Aborts(s, t)
    <2>1. CASE Logged(log[s], {"ABORT"}, t)
      BY <1>2, <1>7, <2>1 DEF AbortReq, Unaffected, commitVars, dataVars
    <2>2. CASE ~Logged(log[s], {"ABORT"}, t)
      <3>1. /\ log'[s] = Appended(log[s], DecisionTerm(s), "ABORT", t, FALSE)
            /\ UNCHANGED <<local_balance_tb, local_lock>>
        BY <1>1, <1>7, <2>2 DEF AbortReq, dataVars
      <3>2. Pushed(log[s], log'[s], "ABORT", t)
        BY <1>1, <3>1, AppendedPushes
      <3> QED
        BY <3>1, <3>2 DEF Aborts
    <2> QED
      BY <2>1, <2>2
  <1>8. commit_index'[s] = commit_index[s] /\ coming_commit_index'[s] = coming_commit_index[s]
    BY <1>2 DEF commitVars
  <1> HIDE DEF Unaffected, Locks, Moves, Aborts
  <1> QED
    BY <1>4, <1>5, <1>6, <1>7, <1>8 DEF Requested

(* What the leader will commit next is in its log, and not less than what  *)
(* it committed.                                                           *)
CommitsInLog(s) ==
  commit_index[s] <= coming_commit_index[s] /\ coming_commit_index[s] < Len(log[s])

(* A commit at s pays out the pending entries "due" and gives up their     *)
(* locks (appendEntriesExecutor.cpp:88-137).                               *)
Commits(s, due) ==
  /\ due \subseteq Pending(s) /\ IsFiniteSet(due)
  /\ Committed(s)' = Committed(s) \cup due /\ Pending(s)' = Pending(s) \ due
  /\ DOMAIN log'[s] = DOMAIN log[s] /\ Len(log'[s]) = Len(log[s])
  /\ \A p \in DOMAIN log[s] : log'[s][p].kind = log[s][p].kind /\ log'[s][p].id = log[s][p].id
  /\ \A a \in Account : local_lock'[s][a] <=> local_lock[s][a] /\ a \notin Touched(log[s], due)
  /\ local_balance_tb'[s] = ApplyPayments(local_balance_tb[s], log[s], due)

LEMMA CommitChanges ==
  ASSUME TypeOK, NEW s \in Server, CommitsInLog(s),
         NEW m \in DOMAIN appends, AppendSucceeded(m), m.to = s
  PROVE  /\ commit_index'[s] \in {commit_index[s], coming_commit_index[s]}
         /\ coming_commit_index'[s] = coming_commit_index[s]
         /\ \E due : Commits(s, due)
  <1>1. /\ log \in [Server -> Seq(Entry)] /\ log[s] \in Seq(Entry)
        /\ commit_index \in [Server -> Index] /\ commit_index[s] \in Nat \cup {-1}
        /\ coming_commit_index[s] \in Nat \cup {-1}
        /\ local_balance_tb \in [Server -> [Account -> Int]]
        /\ local_lock \in [Server -> [Account -> BOOLEAN]]
    BY DEF TypeOK, LogTypeOK, ServiceTypeOK, Index
  <1>2. PICK due : due = IF LeaderCommits(s) THEN Due(s, coming_commit_index[s]) ELSE {}
    OBVIOUS
  <1>3. /\ local_lock' = [local_lock EXCEPT ![s] =
                            [a \in Account |-> @[a] /\ a \notin Touched(log[s], due)]]
        /\ local_balance_tb' = [local_balance_tb EXCEPT ![s] = ApplyPayments(@, log[s], due)]
        /\ log' = [log EXCEPT ![s] = Answered(@, due)]
        /\ commit_index' =
             [commit_index EXCEPT ![s] = IF LeaderCommits(s) THEN coming_commit_index[s] ELSE @]
        /\ coming_commit_index' = coming_commit_index
    BY <1>2 DEF AppendSucceeded
  <1>4. DOMAIN log[s] = 1 .. Len(log[s]) /\ Len(log[s]) \in Nat
    BY <1>1
  <1>5. log'[s] = Answered(log[s], due)
    BY <1>1, <1>3
  <1>6. DOMAIN log'[s] = DOMAIN log[s] /\ Len(log'[s]) = Len(log[s])
    BY <1>1, <1>5, AnsweredType DEF Answered
  <1>7. ASSUME NEW p \in DOMAIN log[s]
        PROVE  log'[s][p].kind = log[s][p].kind /\ log'[s][p].id = log[s][p].id
    BY <1>5, <1>7 DEF Answered, WithoutFd
  <1>8. commit_index'[s] = IF LeaderCommits(s) THEN coming_commit_index[s] ELSE commit_index[s]
    BY <1>1, <1>3
  <1>9. due \subseteq Pending(s)
    <2>1. \A i \in due : i \in Int /\ i >= commit_index[s] + 2 /\ i <= coming_commit_index[s] + 1
      BY <1>1, <1>2 DEF Due
    <2> QED
      BY <1>1, <1>4, <2>1 DEF Pending, Committed, CommitsInLog
  <1>10. IsFiniteSet(due)
    <2>1. due \in SUBSET (DOMAIN log[s])
      BY <1>9 DEF Pending
    <2>2. IsFiniteSet(DOMAIN log[s])
      BY <1>1, LogIsFinite
    <2> QED
      BY <2>1, <2>2, FS_Subset
  <1>11. Committed(s)' = Committed(s) \cup due /\ Pending(s)' = Pending(s) \ due
    <2>1. Committed(s)' = Committed(s) \cup due
      <3>1. CASE LeaderCommits(s)
        BY <1>1, <1>2, <1>8, <3>1 DEF Committed, Due, CommitsInLog
      <3>2. CASE ~LeaderCommits(s)
        BY <1>2, <1>8, <3>2 DEF Committed
      <3> QED
        BY <3>1, <3>2
    <2> QED
      BY <1>6, <2>1 DEF Pending
  <1>12. \A a \in Account : local_lock'[s][a] <=> local_lock[s][a] /\ a \notin Touched(log[s], due)
    <2>1. local_lock'[s] = [a \in Account |-> local_lock[s][a] /\ a \notin Touched(log[s], due)]
      BY <1>1, <1>3
    <2> QED
      BY <2>1
  <1>13. local_balance_tb'[s] = ApplyPayments(local_balance_tb[s], log[s], due)
    BY <1>1, <1>3
  <1>14. Commits(s, due)
    BY <1>6, <1>7, <1>9, <1>10, <1>11, <1>12, <1>13 DEF Commits
  <1> QED
    BY <1>3, <1>8, <1>14

LEMMA CommitsStayInLog ==
  ASSUME TypeOK, ElectionInv, [Next]_vars, NEW s \in Server, Settled(s)', CommitsInLog(s)
  PROVE  CommitsInLog(s)'
  <1>1. /\ log[s] \in Seq(Entry) /\ Len(log[s]) \in Nat
        /\ commit_index[s] \in Nat \cup {-1} /\ coming_commit_index[s] \in Nat \cup {-1}
    BY DEF TypeOK, LogTypeOK, Index
  <1>2. CASE Unaffected(s)
    BY <1>1, <1>2, ComingStep DEF Unaffected, CommitsInLog
  <1>3. CASE Requested(s)
    <2>1. /\ commit_index'[s] = commit_index[s]
          /\ coming_commit_index'[s] = coming_commit_index[s]
      BY <1>3, RequestChanges
    <2>2. Len(log'[s]) \in {Len(log[s]), Len(log[s]) + 1}
      BY <1>3, RequestChanges DEF Unaffected, Locks, Moves, Aborts, Pushed
    <2> QED
      BY <1>1, <2>1, <2>2 DEF CommitsInLog
  <1>4. CASE \E m \in DOMAIN appends : AppendSucceeded(m) /\ m.to = s
    <2>1. /\ commit_index'[s] \in {commit_index[s], coming_commit_index[s]}
          /\ coming_commit_index'[s] = coming_commit_index[s]
          /\ \E due : Commits(s, due)
      BY <1>4, CommitChanges
    <2>2. Len(log'[s]) = Len(log[s])
      BY <2>1 DEF Commits
    <2> QED
      BY <1>1, <2>1, <2>2 DEF CommitsInLog
  <1> QED
    BY <1>2, <1>3, <1>4, SettledChanges

-----------------------------------------------------------------------------
(* Locks.                                                                  *)

(* An entry that locks what it touches.                                    *)
Locking(e) == e.kind \in {"PAY", "PREPARE"}

(* The locks of s are those of its pending entries, and no two of these    *)
(* share an item.                                                          *)
LocksHeld(s) ==
  /\ \A a \in Account : local_lock[s][a] <=> a \in Touched(log[s], Pending(s))
  /\ \A p, q \in Pending(s) : p # q /\ Locking(log[s][p]) /\ Locking(log[s][q]) =>
       Own(log[s][p].id) \cap Own(log[s][q].id) = {}

LEMMA TouchedByOne ==
  ASSUME NEW lg, NEW P, NEW a
  PROVE  a \in Touched(lg, P) <=> \E p \in P : Locking(lg[p]) /\ a \in Own(lg[p].id)
  <1> DEFINE Q == {q \in P : lg[q].kind \in {"PAY", "PREPARE"}}
  <1>1. \A p : p \in Q <=> p \in P /\ Locking(lg[p])
    BY DEF Locking
  <1>2. Touched(lg, P) = (UNION {{Sender[lg[p].id], Receiver[lg[p].id]} : p \in Q}) \cap Account
    BY DEF Touched
  <1> HIDE DEF Q
  <1>3. a \in Touched(lg, P) <=> \E p \in Q : a \in Own(lg[p].id)
    <2> DEFINE Items(p) == {Sender[lg[p].id], Receiver[lg[p].id]}
    <2>1. Touched(lg, P) = (UNION {Items(p) : p \in Q}) \cap Account
      BY <1>2
    <2>2. \A p : Own(lg[p].id) = Items(p) \cap Account
      BY DEF Own
    <2> HIDE DEF Items
    <2> QED
      BY <2>1, <2>2
  <1> QED
    BY <1>1, <1>3

LEMMA PendingAfterPush ==
  ASSUME TypeOK, NEW s \in Server, CommitsInLog(s), NEW kind, NEW t,
         Pushed(log[s], log'[s], kind, t), commit_index'[s] = commit_index[s]
  PROVE  /\ Pending(s)' = Pending(s) \cup {Len(log[s]) + 1} /\ Len(log[s]) + 1 \notin Pending(s)
         /\ Pending(s) \subseteq DOMAIN log[s] /\ Committed(s) \subseteq DOMAIN log[s]
         /\ Committed(s)' = Committed(s)
  <1>1. /\ log[s] \in Seq(Entry) /\ Len(log[s]) \in Nat /\ DOMAIN log[s] = 1 .. Len(log[s])
        /\ commit_index[s] \in Nat \cup {-1} /\ coming_commit_index[s] \in Nat \cup {-1}
    BY DEF TypeOK, LogTypeOK, Index
  <1> QED
    BY <1>1 DEF Pending, Committed, Pushed, CommitsInLog

LEMMA LockingKeepsLocks ==
  ASSUME TypeOK, NEW s \in Server, CommitsInLog(s), LocksHeld(s), commit_index'[s] = commit_index[s],
         NEW t \in Txn, NEW kind \in {"PAY", "PREPARE"}, Locks(s, kind, t)
  PROVE  LocksHeld(s)'
  <1> DEFINE n == Len(log[s]) + 1
  <1>1. /\ Pending(s)' = Pending(s) \cup {n} /\ n \notin Pending(s)
        /\ \A p \in Pending(s) : log'[s][p] = log[s][p]
        /\ log'[s][n].kind = kind /\ log'[s][n].id = t
    BY PendingAfterPush DEF Locks, Pushed
  <1>2. /\ Locking(log'[s][n]) /\ log'[s][n].id = t
    BY <1>1 DEF Locking
  <1> HIDE DEF n
  <1>3. \A p \in Pending(s) : Locking(log[s][p]) => Own(log[s][p].id) \cap Own(t) = {}
    <2> SUFFICES ASSUME NEW p \in Pending(s), Locking(log[s][p]), NEW a \in Own(log[s][p].id),
                        a \in Own(t)
                 PROVE  FALSE
      OBVIOUS
    <2>1. a \in Account
      BY DEF Own
    <2>2. local_lock[s][a]
      BY <2>1, TouchedByOne DEF LocksHeld
    <2> QED
      BY <2>2 DEF Locks
  <1>4. ASSUME NEW a \in Account
        PROVE  local_lock'[s][a] <=> a \in Touched(log'[s], Pending(s)')
    <2>1. a \in Touched(log'[s], Pending(s)')
            <=> a \in Touched(log[s], Pending(s)) \/ a \in Own(t)
      BY <1>1, <1>2, TouchedByOne
    <2> QED
      BY <2>1 DEF Locks, LocksHeld
  <1>5. \A p, q \in Pending(s)' : p # q /\ Locking(log'[s][p]) /\ Locking(log'[s][q]) =>
          Own(log'[s][p].id) \cap Own(log'[s][q].id) = {}
    BY <1>1, <1>2, <1>3 DEF LocksHeld
  <1> QED
    BY <1>4, <1>5 DEF LocksHeld

LEMMA OthersKeepLocks ==
  ASSUME TypeOK, NEW s \in Server, CommitsInLog(s), LocksHeld(s), commit_index'[s] = commit_index[s],
         NEW t \in Txn, NEW kind \in {"COMMIT", "ABORT"}, Pushed(log[s], log'[s], kind, t),
         local_lock'[s] = local_lock[s]
  PROVE  LocksHeld(s)'
  <1> DEFINE n == Len(log[s]) + 1
  <1>1. /\ Pending(s)' = Pending(s) \cup {n} /\ n \notin Pending(s)
        /\ \A p \in Pending(s) : log'[s][p] = log[s][p]
        /\ log'[s][n].kind = kind
    BY PendingAfterPush DEF Pushed
  <1>2. ~Locking(log'[s][n])
    BY <1>1 DEF Locking
  <1> HIDE DEF n
  <1>3. ASSUME NEW a \in Account
        PROVE  local_lock'[s][a] <=> a \in Touched(log'[s], Pending(s)')
    <2>1. a \in Touched(log'[s], Pending(s)') <=> a \in Touched(log[s], Pending(s))
      BY <1>1, <1>2, TouchedByOne
    <2> QED
      BY <2>1 DEF LocksHeld
  <1>4. \A p, q \in Pending(s)' : p # q /\ Locking(log'[s][p]) /\ Locking(log'[s][q]) =>
          Own(log'[s][p].id) \cap Own(log'[s][q].id) = {}
    BY <1>1, <1>2 DEF LocksHeld
  <1> QED
    BY <1>3, <1>4 DEF LocksHeld

LEMMA CommitKeepsLocks ==
  ASSUME NEW s \in Server, LocksHeld(s), NEW due, Commits(s, due)
  PROVE  LocksHeld(s)'
  <1>1. \A p \in Pending(s) :
          /\ Locking(log'[s][p]) <=> Locking(log[s][p])
          /\ log'[s][p].id = log[s][p].id
    BY DEF Commits, Pending, Locking
  <1>2. due \subseteq Pending(s) /\ Pending(s)' = Pending(s) \ due
    BY DEF Commits
  <1>3. ASSUME NEW a \in Account
        PROVE  local_lock'[s][a] <=> a \in Touched(log'[s], Pending(s)')
    <2>1. a \in Touched(log'[s], Pending(s)')
            <=> \E p \in Pending(s) \ due : Locking(log[s][p]) /\ a \in Own(log[s][p].id)
      BY <1>1, <1>2, TouchedByOne
    <2>2. a \in Touched(log[s], Pending(s)) /\ a \notin Touched(log[s], due)
            <=> \E p \in Pending(s) \ due : Locking(log[s][p]) /\ a \in Own(log[s][p].id)
      BY <1>2, TouchedByOne DEF LocksHeld
    <2> QED
      BY <2>1, <2>2 DEF Commits, LocksHeld
  <1>4. \A p, q \in Pending(s)' : p # q /\ Locking(log'[s][p]) /\ Locking(log'[s][q]) =>
          Own(log'[s][p].id) \cap Own(log'[s][q].id) = {}
    BY <1>1, <1>2 DEF LocksHeld
  <1> QED
    BY <1>3, <1>4 DEF LocksHeld

LEMMA LocksStayHeld ==
  ASSUME TypeOK, ElectionInv, [Next]_vars, NEW s \in Server, Settled(s)', CommitsInLog(s),
         LocksHeld(s)
  PROVE  LocksHeld(s)'
  <1>1. CASE Unaffected(s)
    BY <1>1 DEF Unaffected, LocksHeld, Pending, Committed
  <1>2. CASE Requested(s)
    <2>1. commit_index'[s] = commit_index[s]
      BY <1>2, RequestChanges
    <2>2. CASE \E t \in Txn, kind \in {"PAY", "PREPARE"} : Locks(s, kind, t)
      BY <2>1, <2>2, LockingKeepsLocks
    <2>3. CASE \E t \in CrossShard : Moves(s, t)
      BY <2>1, <2>3, OthersKeepLocks, TxnAssumption DEF Moves
    <2>4. CASE \E t \in Txn : Aborts(s, t)
      BY <2>1, <2>4, OthersKeepLocks DEF Aborts
    <2> QED
      BY <1>1, <1>2, <2>2, <2>3, <2>4, RequestChanges
  <1>3. CASE \E m \in DOMAIN appends : AppendSucceeded(m) /\ m.to = s
    <2>1. PICK due : Commits(s, due)
      BY <1>3, CommitChanges
    <2> QED
      BY <2>1, CommitKeepsLocks
  <1> QED
    BY <1>1, <1>2, <1>3, SettledChanges

-----------------------------------------------------------------------------
(* Balances.                                                               *)

LEMMA MovedFinite ==
  ASSUME NEW lg \in Seq(Entry)
  PROVE  IsFiniteSet(Moved(lg))
  <1> DEFINE f == [p \in DOMAIN lg |-> lg[p].id]
  <1>1. \A t \in Moved(lg) : t \in {} \/ \E p \in DOMAIN lg : f[p] = t
    BY DEF Moved, Logged
  <1>2. IsFiniteSet(DOMAIN lg)
    BY LogIsFinite
  <1>3. IsFiniteSet({})
    BY FS_EmptySet
  <1>4. f = [p \in DOMAIN lg |-> f[p]]
    OBVIOUS
  <1> HIDE DEF f
  <1> QED
    BY <1>1, <1>2, <1>3, <1>4, CardinalityOfImage

LEMMA MovedType ==
  ASSUME NEW lg, IsFiniteSet(Moved(lg)), NEW a
  PROVE  MovedOut(lg, a) \in Nat /\ MovedIn(lg, a) \in Nat
  <1> DEFINE N == 1 .. MaxAmount
             out == {u \in Moved(lg) \X N : u[2] <= Debit(u[1], a)}
             in  == {u \in Moved(lg) \X N : u[2] <= Credit(u[1], a)}
  <1>1. out \in SUBSET (Moved(lg) \X N) /\ in \in SUBSET (Moved(lg) \X N)
    OBVIOUS
  <1>2. MovedOut(lg, a) = Cardinality(out) /\ MovedIn(lg, a) = Cardinality(in)
    BY DEF MovedOut, MovedIn
  <1> HIDE DEF out, in
  <1> QED
    BY <1>1, <1>2, UnitsFinite

(* One more cross-shard transaction moves its units.                       *)
LEMMA MovedByOne ==
  ASSUME NEW lg, NEW new, IsFiniteSet(Moved(lg)), NEW t \in Txn, t \notin Moved(lg),
         Moved(new) = Moved(lg) \cup {t}, NEW a
  PROVE  /\ MovedOut(new, a) = MovedOut(lg, a) + Debit(t, a)
         /\ MovedIn(new, a) = MovedIn(lg, a) + Credit(t, a)
  <1> DEFINE N == 1 .. MaxAmount
             M == Moved(lg)
             O == {t}
             out(T) == {u \in T \X N : u[2] <= Debit(u[1], a)}
             in(T)  == {u \in T \X N : u[2] <= Credit(u[1], a)}
             d == Debit(t, a)
             c == Credit(t, a)
  <1>1. /\ out(M) \in SUBSET (M \X N) /\ in(M) \in SUBSET (M \X N)
        /\ out(M \cup {t}) = out(M) \cup out({t}) /\ in(M \cup {t}) = in(M) \cup in({t})
    OBVIOUS
  <1>2. /\ MovedOut(lg, a) = Cardinality(out(M)) /\ MovedOut(new, a) = Cardinality(out(M \cup {t}))
        /\ MovedIn(lg, a) = Cardinality(in(M)) /\ MovedIn(new, a) = Cardinality(in(M \cup {t}))
    BY DEF MovedOut, MovedIn
  <1>3. /\ d \in Nat /\ c \in Nat /\ d <= MaxAmount /\ c <= MaxAmount /\ MaxAmount \in Nat
    BY DebitType, TxnAssumption
  <1>4. out({t}) = {t} \X (1 .. d) /\ in({t}) = {t} \X (1 .. c)
    <2>1. /\ \A u \in {t} \X N : u[1] = t
          /\ \A i : i \in N /\ i <= d <=> i \in 1 .. d
          /\ \A i : i \in N /\ i <= c <=> i \in 1 .. c
      BY <1>3
    <2> HIDE DEF N, d, c
    <2>2. /\ out({t}) = {u \in {t} \X N : u[2] <= d}
          /\ in({t}) = {u \in {t} \X N : u[2] <= c}
      BY <2>1 DEF d, c
    <2> HIDE DEF out, in
    <2> QED
      BY <2>1, <2>2
  <1>5. /\ out(O) \in SUBSET (O \X N) /\ in(O) \in SUBSET (O \X N)
    OBVIOUS
  <1> HIDE DEF out, in, d, c
  <1>6. Cardinality(out(O)) = d /\ Cardinality(in(O)) = c
    BY <1>3, <1>4, UnitsOfOne
  <1>7. IsFiniteSet(O) /\ M \cap O = {} /\ IsFiniteSet(M)
    BY FS_Singleton
  <1>8. /\ out(M) \in SUBSET (M \X N) /\ in(M) \in SUBSET (M \X N)
        /\ out(M \cup O) = out(M) \cup out(O) /\ in(M \cup O) = in(M) \cup in(O)
    BY <1>1
  <1> HIDE DEF M, O
  <1>9. Cardinality(out(M) \cup out(O)) = Cardinality(out(M)) + Cardinality(out(O))
    BY <1>5, <1>7, <1>8, UnitsAddUp
  <1>10. Cardinality(in(M) \cup in(O)) = Cardinality(in(M)) + Cardinality(in(O))
    BY <1>5, <1>7, <1>8, UnitsAddUp
  <1> QED
    BY <1>2, <1>6, <1>8, <1>9, <1>10 DEF d, c, M, O

(* The same commands have moved the same units.                            *)
LEMMA MovedByCommands ==
  ASSUME NEW lg, NEW new, Moved(new) = Moved(lg), NEW a
  PROVE  MovedOut(new, a) = MovedOut(lg, a) /\ MovedIn(new, a) = MovedIn(lg, a)
  BY DEF MovedOut, MovedIn

(* What is earned, account by account, before and after a step.            *)
LEMMA EarnedAt ==
  ASSUME NEW s \in Server
  PROVE  /\ \A a \in Account :
              Earned(s)[a] = (InitialBalance[a] - PaidOut(log[s], Committed(s), a)
                                + PaidIn(log[s], Committed(s), a))
                               - MovedOut(log[s], a) + MovedIn(log[s], a)
         /\ Earned(s)' =
              [a \in Account |-> (InitialBalance[a] - PaidOut(log'[s], Committed(s)', a)
                                    + PaidIn(log'[s], Committed(s)', a))
                                   - MovedOut(log'[s], a) + MovedIn(log'[s], a)]
  BY DEF Earned, ApplyPayments

LEMMA CommittedFinite ==
  ASSUME TypeOK, NEW s \in Server
  PROVE  IsFiniteSet(Committed(s))
  <1>1. commit_index[s] \in Nat \cup {-1}
    BY DEF TypeOK, LogTypeOK, Index
  <1>2. commit_index[s] + 1 \in Int
    BY <1>1
  <1> QED
    BY <1>2, FS_Interval DEF Committed

(* What has been committed and moved before, still is after a request.     *)
LEMMA EarnedAfterPush ==
  ASSUME TypeOK, NEW s \in Server, CommitsInLog(s), NEW kind, NEW t,
         Pushed(log[s], log'[s], kind, t), commit_index'[s] = commit_index[s], NEW a
  PROVE  /\ PaidOut(log'[s], Committed(s)', a) = PaidOut(log[s], Committed(s), a)
         /\ PaidIn(log'[s], Committed(s)', a) = PaidIn(log[s], Committed(s), a)
  <1>1. Committed(s)' = Committed(s) /\ Committed(s) \subseteq DOMAIN log[s]
    BY PendingAfterPush
  <1>2. \A p \in Committed(s) : log'[s][p].kind = log[s][p].kind /\ log'[s][p].id = log[s][p].id
    BY <1>1 DEF Pushed
  <1>3. /\ PaidOut(log'[s], Committed(s), a) = PaidOut(log[s], Committed(s), a)
        /\ PaidIn(log'[s], Committed(s), a) = PaidIn(log[s], Committed(s), a)
    BY <1>2, PaidByCommands
  <1> QED
    BY <1>1, <1>3

LEMMA MovedAfterPush ==
  ASSUME NEW lg \in Seq(Entry), NEW new, NEW kind, NEW t, Pushed(lg, new, kind, t)
  PROVE  /\ kind # "COMMIT" => Moved(new) = Moved(lg)
         /\ kind = "COMMIT" /\ t \in CrossShard => Moved(new) = Moved(lg) \cup {t}
  <1> DEFINE n == Len(lg) + 1
  <1>1. /\ DOMAIN new = DOMAIN lg \cup {n}
        /\ \A p \in DOMAIN lg : new[p] = lg[p]
        /\ new[n].kind = kind /\ new[n].id = t
    BY DEF Pushed
  <1> HIDE DEF n
  <1>2. \A x : Logged(new, {"COMMIT"}, x) <=> Logged(lg, {"COMMIT"}, x) \/ (kind = "COMMIT" /\ x = t)
    BY <1>1 DEF Logged
  <1> QED
    BY <1>2 DEF Moved

(* A request that moves no money, one that moves the money of a            *)
(* cross-shard transaction, and a commit.                                  *)
LEMMA PushKeepsEarned ==
  ASSUME TypeOK, NEW s \in Server, CommitsInLog(s), local_balance_tb[s] = Earned(s),
         commit_index'[s] = commit_index[s], NEW kind, kind # "COMMIT", NEW t,
         Pushed(log[s], log'[s], kind, t), local_balance_tb'[s] = local_balance_tb[s]
  PROVE  local_balance_tb'[s] = Earned(s)'
  <1>1. log[s] \in Seq(Entry) /\ local_balance_tb[s] \in [Account -> Int]
    BY DEF TypeOK, LogTypeOK, ServiceTypeOK
  <1>2. Moved(log'[s]) = Moved(log[s])
    BY <1>1, MovedAfterPush
  <1>3. ASSUME NEW a \in Account
        PROVE  local_balance_tb[s][a] = (InitialBalance[a] - PaidOut(log'[s], Committed(s)', a)
                                           + PaidIn(log'[s], Committed(s)', a))
                                          - MovedOut(log'[s], a) + MovedIn(log'[s], a)
    <2>1. /\ PaidOut(log'[s], Committed(s)', a) = PaidOut(log[s], Committed(s), a)
          /\ PaidIn(log'[s], Committed(s)', a) = PaidIn(log[s], Committed(s), a)
      BY EarnedAfterPush
    <2>2. /\ MovedOut(log'[s], a) = MovedOut(log[s], a)
          /\ MovedIn(log'[s], a) = MovedIn(log[s], a)
      BY <1>2, MovedByCommands
    <2> QED
      BY <2>1, <2>2, EarnedAt
  <1> QED
    BY <1>1, <1>3, EarnedAt

LEMMA MoveKeepsEarned ==
  ASSUME TypeOK, NEW s \in Server, CommitsInLog(s), local_balance_tb[s] = Earned(s),
         commit_index'[s] = commit_index[s], NEW t \in CrossShard, Moves(s, t)
  PROVE  local_balance_tb'[s] = Earned(s)'
  <1>1. /\ log[s] \in Seq(Entry) /\ t \in Txn
        /\ local_balance_tb'[s] = [a \in Account |-> local_balance_tb[s][a] - Debit(t, a) + Credit(t, a)]
        /\ Pushed(log[s], log'[s], "COMMIT", t)
    BY TxnAssumption DEF TypeOK, LogTypeOK, ServiceTypeOK, Moves, Transfer
  <1>2. Moved(log'[s]) = Moved(log[s]) \cup {t} /\ t \notin Moved(log[s])
    BY <1>1, MovedAfterPush DEF Moves, Moved
  <1>3. IsFiniteSet(Moved(log[s])) /\ IsFiniteSet(Committed(s))
    BY <1>1, MovedFinite, CommittedFinite
  <1>4. ASSUME NEW a \in Account
        PROVE  local_balance_tb[s][a] - Debit(t, a) + Credit(t, a)
                 = (InitialBalance[a] - PaidOut(log'[s], Committed(s)', a)
                      + PaidIn(log'[s], Committed(s)', a))
                     - MovedOut(log'[s], a) + MovedIn(log'[s], a)
    <2>1. /\ PaidOut(log'[s], Committed(s)', a) = PaidOut(log[s], Committed(s), a)
          /\ PaidIn(log'[s], Committed(s)', a) = PaidIn(log[s], Committed(s), a)
      BY <1>1, EarnedAfterPush
    <2>2. /\ MovedOut(log'[s], a) = MovedOut(log[s], a) + Debit(t, a)
          /\ MovedIn(log'[s], a) = MovedIn(log[s], a) + Credit(t, a)
      BY <1>1, <1>2, <1>3, MovedByOne
    <2>3. /\ InitialBalance[a] \in Int /\ Debit(t, a) \in Nat /\ Credit(t, a) \in Nat
          /\ PaidOut(log[s], Committed(s), a) \in Nat /\ PaidIn(log[s], Committed(s), a) \in Nat
          /\ MovedOut(log[s], a) \in Nat /\ MovedIn(log[s], a) \in Nat
      BY <1>1, <1>3, BalanceAssumption, DebitType, PaidType, MovedType, TxnAssumption
    <2>4. local_balance_tb[s][a] = (InitialBalance[a] - PaidOut(log[s], Committed(s), a)
                                      + PaidIn(log[s], Committed(s), a))
                                     - MovedOut(log[s], a) + MovedIn(log[s], a)
      BY EarnedAt
    <2> QED
      BY <2>1, <2>2, <2>3, <2>4
  <1> QED
    BY <1>1, <1>4, EarnedAt

LEMMA CommitKeepsEarned ==
  ASSUME TypeOK, NEW s \in Server, CommitsInLog(s), local_balance_tb[s] = Earned(s),
         NEW due, Commits(s, due)
  PROVE  local_balance_tb'[s] = Earned(s)'
  <1>1. /\ log[s] \in Seq(Entry) /\ DOMAIN log'[s] = DOMAIN log[s]
        /\ \A p \in DOMAIN log[s] : log'[s][p].kind = log[s][p].kind /\ log'[s][p].id = log[s][p].id
        /\ local_balance_tb'[s] = [a \in Account |-> local_balance_tb[s][a]
                                     - PaidOut(log[s], due, a) + PaidIn(log[s], due, a)]
    BY DEF TypeOK, LogTypeOK, Commits, ApplyPayments
  <1>2. Moved(log'[s]) = Moved(log[s])
    <2>1. \A x : Logged(log'[s], {"COMMIT"}, x) <=> Logged(log[s], {"COMMIT"}, x)
      BY <1>1 DEF Logged
    <2> QED
      BY <2>1 DEF Moved
  <1>3. IsFiniteSet(Moved(log[s])) /\ IsFiniteSet(Committed(s)) /\ IsFiniteSet(due)
    BY <1>1, MovedFinite, CommittedFinite DEF Commits
  <1>4. Committed(s)' = Committed(s) \cup due /\ Committed(s) \cap due = {}
    BY DEF Commits, Pending
  <1>5. Committed(s) \cup due \subseteq DOMAIN log[s]
    <2>1. Len(log[s]) \in Nat /\ DOMAIN log[s] = 1 .. Len(log[s]) /\ commit_index[s] \in Nat \cup {-1}
          /\ coming_commit_index[s] \in Nat \cup {-1}
      BY <1>1 DEF TypeOK, LogTypeOK, Index
    <2>2. Committed(s) \subseteq DOMAIN log[s]
      BY <2>1 DEF Committed, CommitsInLog
    <2> QED
      BY <2>2 DEF Commits, Pending
  <1>6. ASSUME NEW a \in Account
        PROVE  local_balance_tb[s][a] - PaidOut(log[s], due, a) + PaidIn(log[s], due, a)
                 = (InitialBalance[a] - PaidOut(log'[s], Committed(s)', a)
                      + PaidIn(log'[s], Committed(s)', a))
                     - MovedOut(log'[s], a) + MovedIn(log'[s], a)
    <2>1. /\ PaidOut(log'[s], Committed(s) \cup due, a) = PaidOut(log[s], Committed(s) \cup due, a)
          /\ PaidIn(log'[s], Committed(s) \cup due, a) = PaidIn(log[s], Committed(s) \cup due, a)
      BY <1>1, <1>5, PaidByCommands
    <2>2. /\ PaidOut(log[s], Committed(s) \cup due, a)
               = PaidOut(log[s], Committed(s), a) + PaidOut(log[s], due, a)
          /\ PaidIn(log[s], Committed(s) \cup due, a)
               = PaidIn(log[s], Committed(s), a) + PaidIn(log[s], due, a)
      BY <1>3, <1>4, PaidAddsUp
    <2>3. /\ MovedOut(log'[s], a) = MovedOut(log[s], a)
          /\ MovedIn(log'[s], a) = MovedIn(log[s], a)
      BY <1>2, MovedByCommands
    <2>4. /\ InitialBalance[a] \in Int
          /\ PaidOut(log[s], Committed(s), a) \in Nat /\ PaidIn(log[s], Committed(s), a) \in Nat
          /\ PaidOut(log[s], due, a) \in Nat /\ PaidIn(log[s], due, a) \in Nat
          /\ MovedOut(log[s], a) \in Nat /\ MovedIn(log[s], a) \in Nat
      BY <1>3, BalanceAssumption, PaidType, MovedType
    <2>5. local_balance_tb[s][a] = (InitialBalance[a] - PaidOut(log[s], Committed(s), a)
                                      + PaidIn(log[s], Committed(s), a))
                                     - MovedOut(log[s], a) + MovedIn(log[s], a)
      BY EarnedAt
    <2> QED
      BY <1>4, <2>1, <2>2, <2>3, <2>4, <2>5
  <1> QED
    BY <1>1, <1>6, EarnedAt

LEMMA BalanceStaysEarned ==
  ASSUME TypeOK, ElectionInv, [Next]_vars, NEW s \in Server, Settled(s)', CommitsInLog(s),
         local_balance_tb[s] = Earned(s)
  PROVE  local_balance_tb'[s] = Earned(s)'
  <1>1. CASE Unaffected(s)
    BY <1>1 DEF Unaffected, Earned, Committed
  <1>2. CASE Requested(s)
    <2>1. commit_index'[s] = commit_index[s]
      BY <1>2, RequestChanges
    <2>2. CASE \E t \in Txn, kind \in {"PAY", "PREPARE"} : Locks(s, kind, t)
      <3>1. PICK t \in Txn, kind \in {"PAY", "PREPARE"} : Locks(s, kind, t)
        BY <2>2
      <3>2. kind # "COMMIT"
        OBVIOUS
      <3> QED
        BY <2>1, <3>1, <3>2, PushKeepsEarned DEF Locks
    <2>3. CASE \E t \in CrossShard : Moves(s, t)
      BY <2>1, <2>3, MoveKeepsEarned
    <2>4. CASE \E t \in Txn : Aborts(s, t)
      <3>1. PICK t \in Txn : Aborts(s, t)
        BY <2>4
      <3> QED
        BY <2>1, <3>1, PushKeepsEarned DEF Aborts
    <2> QED
      BY <1>1, <1>2, <2>2, <2>3, <2>4, RequestChanges
  <1>3. CASE \E m \in DOMAIN appends : AppendSucceeded(m) /\ m.to = s
    <2>1. PICK due : Commits(s, due)
      BY <1>3, CommitChanges
    <2> QED
      BY <2>1, CommitKeepsEarned
  <1> QED
    BY <1>1, <1>2, <1>3, SettledChanges

-----------------------------------------------------------------------------
(* Solvency.                                                               *)

(* The sender of t has what it sends, where its account is here.           *)
Affords(bal, t) == Sender[t] \in Account => ~(bal[Sender[t]] < Amount[t])

(* Until a COMMIT reached s, no account that was not overdrawn is, and     *)
(* the payments that wait to be committed are covered.                     *)
Covered(s) ==
  ~CommitsReached(s) =>
    /\ \A a \in Account : InitialBalance[a] >= 0 => local_balance_tb[s][a] >= 0
    /\ \A p \in Pending(s) :
         log[s][p].kind = "PAY" => Affords(local_balance_tb[s], log[s][p].id)

(* What arrived is not forgotten.                                          *)
LEMMA ArrivedGrows ==
  ASSUME TypeOK, [Next]_vars
  PROVE  DOMAIN arrived \subseteq DOMAIN arrived'
  <1>1. ASSUME NEW phase, NEW x, NEW t, Arrive(phase, x, t)
        PROVE  DOMAIN arrived \subseteq DOMAIN arrived'
    BY <1>1, BagAddDomain DEF Arrive
  <1>2. ASSUME NEW x \in Server, NEW t \in Txn,
               IntraShardReq(x, t) \/ PrepareReq(x, t) \/ CommitReq(x, t) \/ AbortReq(x, t)
        PROVE  DOMAIN arrived \subseteq DOMAIN arrived'
    <2>1. \E phase : Arrive(phase, x, t)
      BY <1>2 DEF IntraShardReq, PrepareReq, CommitReq, AbortReq
    <2> QED
      BY <1>1, <2>1
  <1>3. ASSUME NEW m \in DOMAIN appends, AcceptAppend(m) \/ AppendSucceeded(m)
        PROVE  arrived' = arrived
    BY <1>3 DEF AcceptAppend, AppendSucceeded, requestVars
  <1> QED
    BY <1>2, <1>3, OtherStep

LEMMA CommitsStayReached ==
  ASSUME TypeOK, [Next]_vars, NEW s \in Server, ~CommitsReached(s)'
  PROVE  ~CommitsReached(s)
  BY ArrivedGrows DEF CommitsReached

LEMMA CommitReaches ==
  ASSUME NEW s \in Server, NEW t, Arrive("COMMIT", s, t)
  PROVE  CommitsReached(s)'
  <1> DEFINE x == [phase |-> "COMMIT", to |-> s, id |-> t]
  <1>1. x \in DOMAIN arrived'
    BY BagAddDomain DEF Arrive
  <1>2. x.to = s /\ x.phase = "COMMIT"
    OBVIOUS
  <1> HIDE DEF x
  <1> QED
    BY <1>1, <1>2 DEF CommitsReached

(* The new payment is covered when it comes, the older ones stay so.       *)
LEMMA PushKeepsCovered ==
  ASSUME TypeOK, NEW s \in Server, CommitsInLog(s), Covered(s), ~CommitsReached(s),
         commit_index'[s] = commit_index[s], NEW kind, NEW t \in Txn, kind = "PAY" => ~Short(s, t),
         Pushed(log[s], log'[s], kind, t), local_balance_tb'[s] = local_balance_tb[s]
  PROVE  Covered(s)'
  <1> DEFINE n == Len(log[s]) + 1
  <1>1. /\ Pending(s)' = Pending(s) \cup {n}
        /\ \A p \in Pending(s) : log'[s][p] = log[s][p]
        /\ log'[s][n].kind = kind /\ log'[s][n].id = t
    BY PendingAfterPush DEF Pushed
  <1>2. kind = "PAY" => Affords(local_balance_tb[s], t)
    BY DEF Short, Affords
  <1> HIDE DEF n
  <1>3. \A p \in Pending(s)' :
          log'[s][p].kind = "PAY" => Affords(local_balance_tb'[s], log'[s][p].id)
    BY <1>1, <1>2 DEF Covered
  <1>4. \A a \in Account : InitialBalance[a] >= 0 => local_balance_tb'[s][a] >= 0
    BY DEF Covered
  <1> QED
    BY <1>3, <1>4 DEF Covered

(* A commit takes out of an account what one pending payment may, and      *)
(* nothing out of the accounts of the payments that still wait: no two of  *)
(* them share an account.                                                  *)
LEMMA CommitKeepsCovered ==
  ASSUME TypeOK, NEW s \in Server, CommitsInLog(s), LocksHeld(s), Covered(s), ~CommitsReached(s),
         NEW due, Commits(s, due)
  PROVE  Covered(s)'
  <1>1. /\ log[s] \in Seq(Entry)
        /\ local_balance_tb[s] \in [Account -> Int]
        /\ \A p \in DOMAIN log[s] : log[s][p].id \in Txn
        /\ \A p \in DOMAIN log[s] : log'[s][p].kind = log[s][p].kind /\ log'[s][p].id = log[s][p].id
        /\ due \subseteq Pending(s) /\ IsFiniteSet(due) /\ Pending(s)' = Pending(s) \ due
        /\ Pending(s) \subseteq DOMAIN log[s]
    <2>1. log[s] \in Seq(Entry) /\ local_balance_tb[s] \in [Account -> Int]
      BY DEF TypeOK, LogTypeOK, ServiceTypeOK
    <2>2. \A p \in DOMAIN log[s] : log[s][p] \in Entry
      BY <2>1
    <2>3. \A p \in DOMAIN log[s] : log[s][p].id \in Txn
      BY <2>2 DEF Entry
    <2>4. Pending(s) \subseteq DOMAIN log[s]
      BY DEF Pending
    <2> QED
      BY <2>1, <2>3, <2>4 DEF Commits
  <1>2. ASSUME NEW a \in Account
        PROVE  /\ local_balance_tb'[s][a] = local_balance_tb[s][a] - PaidOut(log[s], due, a)
                                              + PaidIn(log[s], due, a)
               /\ PaidOut(log[s], due, a) \in Nat /\ PaidIn(log[s], due, a) \in Nat
    BY <1>1, PaidType DEF Commits, ApplyPayments
  <1>3. ASSUME NEW p \in Pending(s), log[s][p].kind = "PAY",
               NEW q \in Pending(s), log[s][q].kind = "PAY", p # q,
               NEW a \in Account, Sender[log[s][p].id] = a
        PROVE  Sender[log[s][q].id] # a
    <2>1. Locking(log[s][p]) /\ Locking(log[s][q])
      BY <1>3 DEF Locking
    <2>2. Own(log[s][p].id) \cap Own(log[s][q].id) = {}
      BY <1>3, <2>1 DEF LocksHeld
    <2> QED
      BY <1>3, <2>2 DEF Own
  <1>4. \A p \in Pending(s) :
          log[s][p].kind = "PAY" => Affords(local_balance_tb[s], log[s][p].id)
    BY DEF Covered
  <1>5. ASSUME NEW a \in Account, InitialBalance[a] >= 0 PROVE local_balance_tb'[s][a] >= 0
    <2>1. local_balance_tb[s][a] >= 0 /\ local_balance_tb[s][a] \in Int
      BY <1>1, <1>5 DEF Covered
    <2>2. CASE \E p \in due : log[s][p].kind = "PAY" /\ Sender[log[s][p].id] = a
      <3>1. PICK p \in due : log[s][p].kind = "PAY" /\ Sender[log[s][p].id] = a
        BY <2>2
      <3>2. \A q \in due \ {p} : log[s][q].kind = "PAY" => Sender[log[s][q].id] # a
        BY <1>1, <1>3, <3>1
      <3>3. log[s][p].id \in Txn /\ \A q \in due : log[s][q].id \in Txn
        BY <1>1
      <3>4. PaidOut(log[s], due, a) <= Amount[log[s][p].id]
        BY <3>2, <3>3, PaidByOne
      <3>5. Affords(local_balance_tb[s], log[s][p].id)
        BY <1>1, <1>4, <3>1
      <3>6. ~(local_balance_tb[s][a] < Amount[log[s][p].id]) /\ Amount[log[s][p].id] \in Nat
        BY <3>1, <3>3, <3>5, TxnAssumption DEF Affords
      <3> QED
        BY <1>2, <2>1, <3>4, <3>6
    <2>3. CASE ~ \E p \in due : log[s][p].kind = "PAY" /\ Sender[log[s][p].id] = a
      <3>1. PaidOut(log[s], due, a) = 0
        BY <2>3, PaidByNone
      <3> QED
        BY <1>2, <2>1, <3>1
    <2> QED
      BY <2>2, <2>3
  <1>6. ASSUME NEW p \in Pending(s) \ due, log[s][p].kind = "PAY"
        PROVE  Affords(local_balance_tb'[s], log[s][p].id)
    <2> DEFINE t == log[s][p].id
    <2>1. Affords(local_balance_tb[s], t) /\ t \in Txn
      BY <1>1, <1>4, <1>6
    <2>2. CASE Sender[t] \in Account
      <3>1. PICK a \in Account : a = Sender[t]
        BY <2>2
      <3>2. \A q \in due : log[s][q].kind = "PAY" => Sender[log[s][q].id] # a
        BY <1>1, <1>3, <1>6, <3>1
      <3>3. PaidOut(log[s], due, a) = 0
        BY <3>2, PaidByNone
      <3>4. local_balance_tb'[s][a] >= local_balance_tb[s][a] /\ local_balance_tb'[s][a] \in Int
            /\ local_balance_tb[s][a] \in Int
        BY <1>1, <1>2, <3>3
      <3>5. Amount[t] \in Nat /\ ~(local_balance_tb[s][a] < Amount[t])
        BY <2>1, <3>1, TxnAssumption DEF Affords
      <3>6. ~(local_balance_tb'[s][a] < Amount[t])
        BY <3>4, <3>5
      <3> QED
        BY <3>1, <3>6 DEF Affords
    <2>3. CASE Sender[t] \notin Account
      BY <2>3 DEF Affords
    <2> QED
      BY <2>2, <2>3
  <1>7. \A p \in Pending(s)' :
          log'[s][p].kind = "PAY" => Affords(local_balance_tb'[s], log'[s][p].id)
    BY <1>1, <1>6
  <1> QED
    BY <1>5, <1>7 DEF Covered

LEMMA CoverStays ==
  ASSUME TypeOK, ElectionInv, [Next]_vars, NEW s \in Server, Settled(s)', CommitsInLog(s),
         LocksHeld(s), Covered(s)
  PROVE  Covered(s)'
  <1>1. CASE CommitsReached(s)'
    BY <1>1 DEF Covered
  <1>2. CASE ~CommitsReached(s)'
    <2>1. ~CommitsReached(s)
      BY <1>2, CommitsStayReached
    <2>2. CASE Unaffected(s)
      BY <2>1, <2>2 DEF Unaffected, Covered, Pending, Committed
    <2>3. CASE Requested(s)
      <3>1. commit_index'[s] = commit_index[s]
        BY <2>3, RequestChanges
      <3>2. CASE \E t \in Txn, kind \in {"PAY", "PREPARE"} : Locks(s, kind, t)
        BY <2>1, <3>1, <3>2, PushKeepsCovered DEF Locks
      <3>3. ASSUME NEW t \in CrossShard, Arrive("COMMIT", s, t) PROVE FALSE
        BY <1>2, <3>3, CommitReaches
      <3>4. CASE \E t \in Txn : Aborts(s, t)
        <4>1. PICK t \in Txn : Aborts(s, t)
          BY <3>4
        <4>2. "ABORT" # "PAY"
          OBVIOUS
        <4> QED
          BY <2>1, <3>1, <4>1, <4>2, PushKeepsCovered DEF Aborts
      <3> QED
        BY <2>2, <2>3, <3>2, <3>3, <3>4, RequestChanges
    <2>4. CASE \E m \in DOMAIN appends : AppendSucceeded(m) /\ m.to = s
      <3>1. PICK due : Commits(s, due)
        BY <2>4, CommitChanges
      <3> QED
        BY <2>1, <3>1, CommitKeepsCovered
    <2> QED
      BY <2>2, <2>3, <2>4, SettledChanges
  <1> QED
    BY <1>1, <1>2

(* Until a second leader is elected, the first one is in order.            *)
InOrder(s) ==
  CommitsInLog(s) /\ LocksHeld(s) /\ local_balance_tb[s] = Earned(s) /\ Covered(s)
LeaderInv == OneLeader => \A s \in Server : Settled(s) => InOrder(s)

LEMMA LeaderInvNext ==
  ASSUME TypeOK, ElectionInv, LeaderInv, [Next]_vars
  PROVE  LeaderInv'
  <1> SUFFICES ASSUME OneLeader', NEW s \in Server, Settled(s)'
               PROVE  InOrder(s)'
    BY DEF LeaderInv
  <1>1. InOrder(s)
    BY SettledBefore DEF LeaderInv
  <1>2. CommitsInLog(s)'
    BY <1>1, CommitsStayInLog DEF InOrder
  <1>3. LocksHeld(s)'
    BY <1>1, LocksStayHeld DEF InOrder
  <1>4. local_balance_tb'[s] = Earned(s)'
    BY <1>1, BalanceStaysEarned DEF InOrder
  <1>5. Covered(s)'
    BY <1>1, CoverStays DEF InOrder
  <1> QED
    BY <1>2, <1>3, <1>4, <1>5 DEF InOrder

LEMMA NothingMoved ==
  ASSUME NEW lg, lg = << >>, NEW a
  PROVE  MovedOut(lg, a) = 0 /\ MovedIn(lg, a) = 0
  <1>1. \A u : u \notin Moved(lg) \X (1 .. MaxAmount)
    BY DEF Moved, Logged
  <1>2. /\ {u \in Moved(lg) \X (1 .. MaxAmount) : u[2] <= Debit(u[1], a)} = {}
        /\ {u \in Moved(lg) \X (1 .. MaxAmount) : u[2] <= Credit(u[1], a)} = {}
    BY <1>1
  <1> QED
    BY <1>2, FS_EmptySet DEF MovedOut, MovedIn

LEMMA LeaderInvInit == Init => LeaderInv
  <1> SUFFICES ASSUME Init, NEW s \in Server PROVE InOrder(s)
    BY DEF LeaderInv
  <1>1. /\ log[s] = << >> /\ commit_index[s] = -1 /\ coming_commit_index[s] = -1
        /\ local_balance_tb[s] = InitialBalance
        /\ \A a \in Account : local_lock[s][a] = FALSE
    BY DEF Init
  <1>2. Committed(s) = {} /\ Pending(s) = {}
    BY <1>1 DEF Committed, Pending
  <1>3. CommitsInLog(s)
    BY <1>1 DEF CommitsInLog
  <1>4. LocksHeld(s)
    <2>1. \A a : a \notin Touched(log[s], {})
      BY TouchedByOne
    <2> QED
      BY <1>1, <1>2, <2>1 DEF LocksHeld
  <1>5. local_balance_tb[s] = Earned(s)
    <2>1. ASSUME NEW a \in Account PROVE Earned(s)[a] = InitialBalance[a]
      <3>1. /\ PaidOut(log[s], Committed(s), a) = 0 /\ PaidIn(log[s], Committed(s), a) = 0
            /\ MovedOut(log[s], a) = 0 /\ MovedIn(log[s], a) = 0
        BY <1>1, <1>2, PaidNothing, NothingMoved
      <3>2. InitialBalance[a] \in Int
        BY BalanceAssumption
      <3>3. Earned(s)[a] = (InitialBalance[a] - 0 + 0) - 0 + 0
        BY <3>1, EarnedAt
      <3> QED
        BY <3>2, <3>3
    <2>2. Earned(s) = [a \in Account |-> Earned(s)[a]]
      BY DEF Earned
    <2>3. InitialBalance = [a \in Account |-> InitialBalance[a]]
      BY BalanceAssumption
    <2> QED
      BY <1>1, <2>1, <2>2, <2>3
  <1>6. Covered(s)
    BY <1>1, <1>2 DEF Covered
  <1> QED
    BY <1>3, <1>4, <1>5, <1>6 DEF InOrder

(* The inductive invariant of the payments, in every execution: as long as *)
(* only one server was ever elected, what it committed, locked, paid and   *)
(* still has to pay fits its log (appendEntriesExecutor.cpp:83-152,        *)
(* intraShardExecutor.cpp:9-54, crossShardExecutor.cpp:10-157).            *)
THEOREM FirstLeaderIsInOrder == Spec => []LeaderInv
  <1>1. Init => LeaderInv
    BY LeaderInvInit
  <1>2. TypeOK /\ ElectionInv /\ LeaderInv /\ [Next]_vars => LeaderInv'
    BY LeaderInvNext
  <1> QED
    BY <1>1, <1>2, TypeCorrect, ElectionsFitTogether, PTL DEF Spec

(* The locks of the first leader are those of the entries that wait to be  *)
(* committed: LocksArePending of the leader_payments and cross_shard runs. *)
THEOREM LeaderLocksArePending == Spec => []LocksArePending
  <1>1. LeaderInv => LocksArePending
    <2> SUFFICES ASSUME LeaderInv, OneLeader, NEW s \in Leading
                 PROVE  {a \in Account : local_lock[s][a]} = Touched(log[s], Pending(s))
      BY DEF LocksArePending
    <2>1. LocksHeld(s)
      BY DEF LeaderInv, Leading, Settled, InOrder
    <2>2. Touched(log[s], Pending(s)) \subseteq Account
      BY DEF Touched
    <2> QED
      BY <2>1, <2>2 DEF LocksHeld
  <1> QED
    BY <1>1, FirstLeaderIsInOrder, PTL

(* Its balance table holds every committed transaction exactly once:       *)
(* LeaderBalanceIsEarned of the same runs.                                 *)
THEOREM LeaderEarnsItsBalance == Spec => []LeaderBalanceIsEarned
  <1>1. LeaderInv => LeaderBalanceIsEarned
    BY DEF LeaderInv, LeaderBalanceIsEarned, Leading, Settled, InOrder
  <1> QED
    BY <1>1, FirstLeaderIsInOrder, PTL

(* And it never pays out more than an account holds: LeaderSolvent of the  *)
(* leader_payments run.                                                    *)
THEOREM LeaderStaysSolvent == Spec => []LeaderSolvent
  <1>1. LeaderInv => LeaderSolvent
    BY DEF LeaderInv, LeaderSolvent, Leading, Settled, InOrder, Covered
  <1> QED
    BY <1>1, FirstLeaderIsInOrder, PTL

-----------------------------------------------------------------------------
(* Followers of the first leader.                                          *)

(* What a message carries is in the log lg, at the place it names, and its *)
(* commit index is not ahead of "committed".                               *)
Carries(previndex, entries, lg) ==
  /\ previndex < -1 => entries = << >>
  /\ \A k \in DOMAIN entries :
       /\ previndex + 1 + k \in DOMAIN lg
       /\ Command(entries[k]) = Command(lg[previndex + 1 + k])
Behind(m, lg, committed) ==
  m.commitindex <= committed /\ Carries(m.prevlogindex, m.entries, lg)

(* The servers that only replicate are behind s, and so are the messages.  *)
Follows(s) ==
  /\ \A p \in Peers(s) :
       OnlyReplicates(p) => IsPrefixOf(log[p], log[s]) /\ commit_index[p] <= commit_index[s]
  /\ \A m \in DOMAIN appends : m.type = "AppendEntriesReq" => Behind(m, log[s], commit_index[s])
FollowInv == OneLeader => \A s \in Server : Settled(s) => Follows(s)

LEMMA PrefixIsTransitive ==
  ASSUME NEW lg \in Seq(Entry), NEW mid \in Seq(Entry), NEW long \in Seq(Entry),
         IsPrefixOf(lg, mid), IsPrefixOf(mid, long)
  PROVE  IsPrefixOf(lg, long)
  <1>1. /\ Len(lg) \in Nat /\ Len(mid) \in Nat /\ Len(long) \in Nat
        /\ DOMAIN lg = 1 .. Len(lg) /\ DOMAIN mid = 1 .. Len(mid)
    OBVIOUS
  <1>2. Len(lg) <= Len(long) /\ DOMAIN lg \subseteq DOMAIN mid
    BY <1>1 DEF IsPrefixOf
  <1> QED
    BY <1>2 DEF IsPrefixOf

LEMMA BehindGrows ==
  ASSUME NEW m \in AppendReq, NEW lg \in Seq(Entry), NEW new \in Seq(Entry), NEW i \in Int,
         NEW j \in Int, IsPrefixOf(lg, new), i <= j, Behind(m, lg, i)
  PROVE  Behind(m, new, j)
  <1>1. /\ DOMAIN lg \subseteq DOMAIN new
        /\ \A p \in DOMAIN lg : Command(lg[p]) = Command(new[p])
    <2>1. /\ Len(lg) \in Nat /\ Len(new) \in Nat /\ DOMAIN lg = 1 .. Len(lg)
          /\ DOMAIN new = 1 .. Len(new)
      OBVIOUS
    <2> QED
      BY <2>1 DEF IsPrefixOf
  <1>2. Carries(m.prevlogindex, m.entries, new)
    BY <1>1 DEF Behind, Carries
  <1>3. m.commitindex \in Int /\ m.commitindex <= i
    BY DEF AppendReq, Index, Behind
  <1> QED
    BY <1>2, <1>3 DEF Behind

(* A heartbeat carries a slice of its sender's log (aIOServer.cpp:90-99).  *)
LEMMA HeartBeatBehind ==
  ASSUME TypeOK, NEW s \in Server, NEW p, NEW size \in Int
  PROVE  Behind(HeartBeat(s, p, size), log[s], commit_index[s])
  <1> DEFINE lg == log[s]
  <1>1. lg \in Seq(Entry) /\ commit_index[s] \in Int
    BY DEF TypeOK, LogTypeOK, Index
  <1>2. /\ HeartBeat(s, p, size).entries = Slice(lg, size)
        /\ HeartBeat(s, p, size).prevlogindex = size - 1
        /\ HeartBeat(s, p, size).commitindex = commit_index[s]
    BY DEF HeartBeat, prevlogindex
  <1>3. Carries(size - 1, Slice(lg, size), lg)
    <2>1. CASE size < 0
      BY <2>1 DEF Slice, Carries
    <2>2. CASE size >= 0
      <3>1. ~(size - 1 < -1)
        BY <2>2
      <3>2. ASSUME NEW k \in DOMAIN Slice(lg, size)
            PROVE  /\ size - 1 + 1 + k \in DOMAIN lg
                   /\ Command(Slice(lg, size)[k]) = Command(lg[size - 1 + 1 + k])
        <4>1. /\ k \in 1 .. Len(lg) - size
              /\ Slice(lg, size)[k] = WithoutFd(lg[size + k])
          BY <2>2, <3>2 DEF Slice
        <4>2. size + k \in DOMAIN lg /\ size - 1 + 1 + k = size + k
          BY <1>1, <2>2, <4>1
        <4>3. Command(WithoutFd(lg[size + k])) = Command(lg[size + k])
          BY DEF Command, WithoutFd
        <4> QED
          BY <4>1, <4>2, <4>3
      <3> QED
        BY <3>1, <3>2 DEF Carries
    <2> QED
      BY <2>1, <2>2
  <1> QED
    BY <1>1, <1>2, <1>3 DEF Behind

(* What a prefix merges from it, leaves a prefix                           *)
(* (appendEntriesExecutor.cpp:35-59).                                      *)
LEMMA MergeFollows ==
  ASSUME NEW lg \in Seq(Entry), NEW long \in Seq(Entry), IsPrefixOf(lg, long),
         NEW previndex \in Int, NEW prevterm, NEW entries \in Seq(Entry),
         Matches(lg, previndex, prevterm), Carries(previndex, entries, long)
  PROVE  IsPrefixOf(Merge(lg, previndex, entries), long)
  <1> DEFINE base    == previndex + 1
             last    == base + Len(entries)
             kept(p) == \A q \in base + 1 .. p : q <= Len(lg) /\ lg[q].term = entries[q - base].term
             new(p)  == IF kept(p) THEN lg[p] ELSE entries[p - base]
             merged  == Merge(lg, previndex, entries)
  <1>1. base \in Int /\ last \in Int /\ base <= Len(lg) /\ Len(entries) \in Nat
    BY DEF Matches
  <1>2. CASE kept(last)
    BY <1>2 DEF Merge
  <1>3. CASE ~kept(last)
    <2>1. merged = [p \in 1 .. last |-> new(p)]
      BY <1>3 DEF Merge
    <2>2. Len(entries) \in DOMAIN entries
      <3>1. Len(entries) # 0
        BY <1>1, <1>3
      <3> QED
        BY <1>1, <3>1
    <2>3. last \in DOMAIN long
      BY <2>2 DEF Carries
    <2>4. /\ last \in Nat /\ last <= Len(long)
      BY <2>3
    <2>5. ASSUME NEW p \in 1 .. last PROVE Command(new(p)) = Command(long[p])
      <3>1. CASE kept(p)
        <4>1. p <= Len(lg)
          BY <1>1, <3>1
        <4>2. p \in DOMAIN lg
          BY <4>1
        <4> QED
          BY <3>1, <4>2 DEF IsPrefixOf
      <3>2. CASE ~kept(p)
        <4>1. p > base
          BY <1>1, <3>2
        <4>2. p - base \in DOMAIN entries /\ previndex + 1 + (p - base) = p
          BY <1>1, <4>1
        <4>3. Command(entries[p - base]) = Command(long[p])
          BY <4>2 DEF Carries
        <4> QED
          BY <3>2, <4>3
      <3> QED
        BY <3>1, <3>2
    <2> HIDE DEF new, last
    <2>6. DOMAIN merged = 1 .. last /\ Len(merged) = last
      BY <2>1, <2>4
    <2>7. \A p \in DOMAIN merged : Command(merged[p]) = Command(long[p])
      BY <2>1, <2>5, <2>6
    <2> HIDE DEF merged
    <2>8. IsPrefixOf(merged, long)
      BY <2>4, <2>6, <2>7 DEF IsPrefixOf
    <2> QED
      BY <2>8 DEF merged
  <1> QED
    BY <1>2, <1>3

(* Who leads while only one server was elected, is that server.            *)
LEMMA OnlyLeader ==
  ASSUME ElectionInv', OneLeader', NEW s \in Server, Settled(s)', NEW l \in Server,
         role'[l] = "LEADER"
  PROVE  l = s
  <1>1. Won(current_term'[l], l) \in elections'
    BY DEF ElectionInv, LeadersAreElected
  <1>2. Won(current_term'[s], s) \in elections'
    BY <1>1 DEF ElectionInv, LeadersAreElected, Settled
  <1>3. Won(current_term'[l], l) = Won(current_term'[s], s)
    BY <1>1, <1>2 DEF OneLeader
  <1> QED
    BY <1>3 DEF Won

(* The log of the server that leads, or will, only grows, and so does what *)
(* it committed.                                                           *)
LEMMA SettledGrows ==
  ASSUME TypeOK, ElectionInv, [Next]_vars, NEW s \in Server, Settled(s)', CommitsInLog(s)
  PROVE  IsPrefixOf(log[s], log'[s]) /\ commit_index[s] <= commit_index'[s]
  <1>1. /\ log[s] \in Seq(Entry) /\ commit_index[s] \in Nat \cup {-1}
        /\ coming_commit_index[s] \in Nat \cup {-1}
    BY DEF TypeOK, LogTypeOK, Index
  <1>2. ASSUME NEW m \in DOMAIN appends, AcceptAppend(m), m.to = s PROVE FALSE
    BY <1>2, SettledDoesNotFollow
  <1>3. IsPrefixOf(log[s], log'[s])
    BY <1>1, <1>2, LogStep, ExtendedKeepsEntries
  <1>4. CASE Unaffected(s)
    BY <1>1, <1>3, <1>4 DEF Unaffected
  <1>5. CASE Requested(s)
    BY <1>1, <1>3, <1>5, RequestChanges
  <1>6. CASE \E m \in DOMAIN appends : AppendSucceeded(m) /\ m.to = s
    <2>1. commit_index'[s] \in {commit_index[s], coming_commit_index[s]}
      BY <1>6, CommitChanges
    <2> QED
      BY <1>1, <1>3, <2>1 DEF CommitsInLog
  <1> QED
    BY <1>4, <1>5, <1>6, SettledChanges

LEMMA MessagesStayBehind ==
  ASSUME TypeOK, TypeOK', ElectionInv, ElectionInv', [Next]_vars, OneLeader', NEW s \in Server,
         Settled(s)', CommitsInLog(s), Follows(s)
  PROVE  \A m \in DOMAIN appends' :
           m.type = "AppendEntriesReq" => Behind(m, log'[s], commit_index'[s])
  <1>1. /\ log[s] \in Seq(Entry) /\ log'[s] \in Seq(Entry)
        /\ commit_index[s] \in Int /\ commit_index'[s] \in Int
    BY DEF TypeOK, LogTypeOK, Index
  <1>2. ASSUME NEW m \in DOMAIN appends, m.type = "AppendEntriesReq"
        PROVE  Behind(m, log'[s], commit_index'[s])
    <2>1. m \in AppendReq
      BY <1>2, MessageTypes
    <2>2. Behind(m, log[s], commit_index[s])
      BY <1>2 DEF Follows
    <2> QED
      BY <1>1, <2>1, <2>2, SettledGrows, BehindGrows
  <1>3. CASE NoNewHeartBeats
    BY <1>2, <1>3 DEF NoNewHeartBeats
  <1>4. ASSUME NEW l \in Server, NEW matched \in [Server -> Int],
               broadcast_heart_beat(l, matched), role'[l] = "LEADER",
               log' = log, commit_index' = commit_index
        PROVE  \A m \in DOMAIN appends' :
                 m.type = "AppendEntriesReq" => Behind(m, log'[s], commit_index'[s])
    <2>1. l = s
      BY <1>4, OnlyLeader
    <2>2. broadcast_heart_beat(s, matched)
      BY <1>4, <2>1
    <2>3. DOMAIN appends' = DOMAIN appends \cup {HeartBeat(s, p, matched[p]) : p \in Peers(s)}
      BY <2>2, BagUnionDomain DEF broadcast_heart_beat
    <2>4. ASSUME NEW p \in Peers(s)
          PROVE  Behind(HeartBeat(s, p, matched[p]), log[s], commit_index[s])
      <3>1. matched[p] \in Int
        BY <1>4 DEF Peers
      <3> QED
        BY <3>1, HeartBeatBehind
    <2> QED
      BY <1>2, <1>4, <2>3, <2>4
  <1> QED
    BY <1>3, <1>4, AppendsStep

(* A request brings an end to a server that only replicates.               *)
LEMMA RequestedIsNotReplica ==
  ASSUME NEW p \in Server, Requested(p)
  PROVE  ~OnlyReplicates(p)'
  <1>1. PICK phase, t : Arrive(phase, p, t)
    BY DEF Requested, IntraShardReq, PrepareReq, CommitReq, AbortReq
  <1> DEFINE x == [phase |-> phase, to |-> p, id |-> t]
  <1>2. x \in DOMAIN arrived'
    BY <1>1, BagAddDomain DEF Arrive
  <1>3. x.to = p
    OBVIOUS
  <1> HIDE DEF x
  <1> QED
    BY <1>2, <1>3 DEF OnlyReplicates

LEMMA FollowersStayBehind ==
  ASSUME TypeOK, TypeOK', ElectionInv, ElectionInv', [Next]_vars, OneLeader', NEW s \in Server,
         Settled(s)', CommitsInLog(s), Follows(s), NEW p \in Peers(s), OnlyReplicates(p)'
  PROVE  IsPrefixOf(log'[p], log'[s]) /\ commit_index'[p] <= commit_index'[s]
  <1>1. /\ log[s] \in Seq(Entry) /\ log'[s] \in Seq(Entry) /\ p \in Server /\ p # s
        /\ log[p] \in Seq(Entry) /\ log'[p] \in Seq(Entry)
        /\ commit_index[s] \in Int /\ commit_index'[s] \in Int /\ commit_index[p] \in Int
        /\ log \in [Server -> Seq(Entry)] /\ commit_index \in [Server -> Index]
    <2>1. /\ log \in [Server -> Seq(Entry)] /\ log' \in [Server -> Seq(Entry)]
          /\ commit_index \in [Server -> Index] /\ commit_index' \in [Server -> Index]
      BY DEF TypeOK, LogTypeOK
    <2>2. p \in Server /\ p # s
      BY DEF Peers
    <2> QED
      BY <2>1, <2>2 DEF Index
  <1>2. OnlyReplicates(p)
    BY ArrivedGrows DEF OnlyReplicates
  <1>3. IsPrefixOf(log[p], log[s]) /\ commit_index[p] <= commit_index[s]
    BY <1>2 DEF Follows
  <1>4. IsPrefixOf(log[s], log'[s]) /\ commit_index[s] <= commit_index'[s]
    BY SettledGrows
  <1>5. CASE Unaffected(p)
    BY <1>1, <1>3, <1>4, <1>5, PrefixIsTransitive DEF Unaffected
  <1>6. CASE Requested(p)
    BY <1>1, <1>6, RequestedIsNotReplica
  <1>7. ASSUME NEW m \in DOMAIN appends, AcceptAppend(m), m.to = p
        PROVE  IsPrefixOf(log'[p], log'[s]) /\ commit_index'[p] <= commit_index'[s]
    <2>1. /\ m \in AppendReq /\ m.type = "AppendEntriesReq"
          /\ Matches(log[p], m.prevlogindex, m.prevlogterm)
          /\ log'[p] = Merge(log[p], m.prevlogindex, m.entries)
          /\ commit_index'[p] = m.commitindex
      BY <1>1, <1>7, MessageTypes DEF AcceptAppend
    <2>2. /\ m.prevlogindex \in Int /\ m.entries \in Seq(Entry) /\ m.commitindex \in Int
      BY <2>1 DEF AppendReq, Index
    <2>3. m.commitindex <= commit_index[s] /\ Carries(m.prevlogindex, m.entries, log[s])
      BY <2>1 DEF Follows, Behind
    <2>4. IsPrefixOf(log'[p], log[s])
      BY <1>1, <1>3, <2>1, <2>2, <2>3, MergeFollows
    <2>5. IsPrefixOf(log'[p], log'[s])
      BY <1>1, <1>4, <2>4, PrefixIsTransitive
    <2> QED
      BY <1>1, <1>4, <2>1, <2>2, <2>3, <2>5
  <1>8. ASSUME NEW m \in DOMAIN appends, AppendSucceeded(m), m.to = p
        PROVE  FALSE
    <2>1. role'[p] = "LEADER"
      BY <1>8 DEF AppendSucceeded, electionVars
    <2> QED
      BY <1>1, <2>1, OnlyLeader
  <1> QED
    BY <1>1, <1>5, <1>6, <1>7, <1>8, ServerChanges

LEMMA FollowInvNext ==
  ASSUME TypeOK, TypeOK', ElectionInv, LeaderInv, FollowInv, [Next]_vars
  PROVE  FollowInv'
  <1> SUFFICES ASSUME OneLeader', NEW s \in Server, Settled(s)'
               PROVE  Follows(s)'
    BY DEF FollowInv
  <1>1. CommitsInLog(s) /\ Follows(s)
    BY SettledBefore DEF LeaderInv, FollowInv, InOrder
  <1>2. ElectionInv'
    BY NextElection
  <1>3. \A p \in Peers(s) :
          OnlyReplicates(p)' => IsPrefixOf(log'[p], log'[s]) /\ commit_index'[p] <= commit_index'[s]
    BY <1>1, <1>2, FollowersStayBehind
  <1>4. \A m \in DOMAIN appends' :
          m.type = "AppendEntriesReq" => Behind(m, log'[s], commit_index'[s])
    BY <1>1, <1>2, MessagesStayBehind
  <1> QED
    BY <1>3, <1>4 DEF Follows

(* While only one server was elected, those that only replicate hold a     *)
(* prefix of its log and never commit more than it did:                    *)
(* FollowersBehindLeader of the leader_payments run.                       *)
THEOREM FollowersStayBehindLeader == Spec => []FollowersBehindLeader
  <1>1. Init => FollowInv
    <2> SUFFICES ASSUME Init, NEW s \in Server PROVE Follows(s)
      BY DEF FollowInv
    <2>1. \A p \in Server : log[p] = << >> /\ commit_index[p] = -1
      BY DEF Init
    <2>2. DOMAIN appends = {}
      BY DEF Init, EmptyBag, SetToBag
    <2>3. IsPrefixOf(<< >>, << >>)
      BY DEF IsPrefixOf
    <2> QED
      BY <2>1, <2>2, <2>3 DEF Follows, Peers
  <1>2. TypeOK /\ TypeOK' /\ ElectionInv /\ LeaderInv /\ FollowInv /\ [Next]_vars => FollowInv'
    BY FollowInvNext
  <1>3. FollowInv => FollowersBehindLeader
    BY DEF FollowInv, FollowersBehindLeader, Leading, Settled, Follows
  <1> QED
    BY <1>1, <1>2, <1>3, TypeCorrect, ElectionsFitTogether, FirstLeaderIsInOrder, PTL DEF Spec
=============================================================================
