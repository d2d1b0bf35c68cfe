------------------------ MODULE RoutingServiceProofs ------------------------
(***************************************************************************)
(* Proofs about the routing service: types, the count of YES, and that     *)
(* transactions which found both leaders are atomic and implement          *)
(* AtomicCommit, whatever the clusters answer and the timeout thread does. *)
(***************************************************************************)
EXTENDS RoutingServiceProperties, FiniteSetTheorems, SequenceTheorems, TLAPS

Members(q) == {q[i] : i \in DOMAIN q}

(* A coroutine that awaits something has a current step.                   *)
Busy == \A k \in Coroutine : at[k] \notin {"new", "idle"} => work[k] # << >>

(* num_reply_for_2PC never counts a YES that was not said: an abort takes  *)
(* it down, nothing else but a YES takes it up.                            *)
YesesOf(t) == yes[t][From[t]] + yes[t][To[t]]

CountedOf(t) == num_reply_for_2PC[t] <= YesesOf(t)

(* The coroutine of a request works on nothing else, and on each cluster   *)
(* once.                                                                   *)
Own(t, steps) == \A i \in DOMAIN steps :
  /\ steps[i].txn = t /\ steps[i].cluster \in {From[t], To[t]}
  /\ \A j \in DOMAIN steps \ {i} : steps[j].cluster # steps[i].cluster

Queues(t, steps, clusters) == \A i \in DOMAIN steps : steps[i].queue => steps[i].cluster \in clusters

OwnSteps == \A t \in Txn : Own(t, work[t]) /\ Queues(t, work[t], queued[t])

(* A request is put only in the queues of its own clusters; a new one, and *)
(* one that found its leaders, in none.                                    *)
OwnQueues == \A t \in Txn :
  /\ queued[t] \subseteq {From[t], To[t]}
  /\ at[t] = "new" \/ t \in direct => queued[t] = {}

(* Flushes and requests that found their leaders never queue anything.     *)
Straight == \A k \in direct \cup Flush : \A i \in DOMAIN work[k] : ~work[k][i].queue

(* What queue, flushes and thread know of a cluster, they know because it  *)
(* was put in the queue of this cluster.                                   *)
Private(t, c) ==
  /\ t \notin Members(transaction_request[c])
  /\ \A f \in Flush : \A i \in DOMAIN work[f] : ~(work[f][i].txn = t /\ work[f][i].cluster = c)
  /\ thread.cluster = c => t \notin Members(thread.old) \cup Members(thread.kept)

Apart == \A t \in Txn : \A c \in Cluster \ queued[t] : Private(t, c)

(* A thread that awaits a broadcast has a request in hand, and one that    *)
(* has requests has a cluster.                                             *)
Scanning ==
  /\ thread.at = "ABORT" => thread.old # << >>
  /\ thread.cluster \notin Cluster => Members(thread.old) \cup Members(thread.kept) = {}

Structure == Busy /\ OwnSteps /\ OwnQueues /\ Straight /\ Apart /\ Scanning

(* A cluster in whose queue a request was not put says YES to it once:     *)
(* after that its coroutine does not ask there again.                      *)
OnceEach(t) == \A c \in Cluster \ queued[t] :
  /\ yes[t][c] <= 1
  /\ yes[t][c] = 1 =>
       \A i \in DOMAIN work[t] : work[t][i].cluster = c => i = 1 /\ at[t] # "response"

(* A new request has no history.                                           *)
FreshOf(t) ==
  /\ t \notin direct /\ sent[t] = {} /\ num_reply_for_2PC[t] = 0 /\ told[t] = "nothing"
  /\ \A c \in Cluster : yes[t][c] = 0

(* Where a cross-shard transaction that found both leaders may be.         *)
AsksFirst(t) ==
  /\ at[t] = "response" /\ Len(work[t]) = 2 /\ num_reply_for_2PC[t] = 0
  /\ work[t][1].cluster = From[t]
  /\ sent[t] = {} /\ told[t] = "nothing"

AsksSecond(t) ==
  /\ at[t] = "response" /\ Len(work[t]) = 1 /\ num_reply_for_2PC[t] = 1
  /\ From[t] \in SaidYes(t)
  /\ sent[t] = {} /\ told[t] = "nothing"

AsksInVain(t) ==
  /\ at[t] = "response" /\ Len(work[t]) = 1 /\ num_reply_for_2PC[t] = -1
  /\ sent[t] = {"ABORT"} /\ told[t] = "ABORTED"

Aborts(t) ==
  /\ at[t] \in {"ABORT", "TIMEOUT"} /\ Len(work[t]) \in {1, 2}
  /\ sent[t] = {"ABORT"} /\ told[t] = "nothing"

Commits(t) ==
  /\ at[t] = "COMMIT" /\ Len(work[t]) = 1
  /\ {From[t], To[t]} \subseteq SaidYes(t)
  /\ sent[t] = {"COMMIT"} /\ told[t] = "nothing"

Done(t) ==
  /\ at[t] = "idle"
  /\ \/ sent[t] = {} /\ told[t] = "nothing"
     \/ sent[t] = {"ABORT"} /\ told[t] = "ABORTED"
     \/ /\ sent[t] = {"COMMIT"} /\ told[t] = "SUCCEED"
        /\ {From[t], To[t]} \subseteq SaidYes(t)

Stage(t) ==
  AsksFirst(t) \/ AsksSecond(t) \/ AsksInVain(t) \/ Aborts(t) \/ Commits(t) \/ Done(t)

LeadsTo(t) ==
  /\ \A i \in DOMAIN work[t] : work[t][i].cluster \in {From[t], To[t]}
  /\ work[t] # << >> => work[t][Len(work[t])].cluster = To[t]

(* What holds of one request: CommitNeedsTwoYes and the above.             *)
Sound(t) ==
  /\ CountedOf(t) /\ OnceEach(t)
  /\ "COMMIT" \in sent[t] => YesesOf(t) >= 2
  /\ at[t] = "new" => FreshOf(t)
  /\ t \in direct \cap CrossShard => Stage(t) /\ LeadsTo(t)

RInv == TypeOK /\ Structure /\ \A t \in Txn : Sound(t)

-----------------------------------------------------------------------------
(* What RunOn, Raise and Await do to the coroutines and the queues.        *)

At == {"new", "idle", "response", "COMMIT", "ABORT", "TIMEOUT"}

CoroutineTypes ==
  /\ at \in [Coroutine -> At] /\ work \in [Coroutine -> Seq(Steps)]
  /\ server \in [Coroutine -> Member] /\ transaction_request \in [Cluster -> Seq(Txn)]

(* Coroutine k goes on with some of these steps, and queues what is to be  *)
(* queued; the others stay where they are.                                 *)
Moves(k, steps) ==
  /\ CoroutineTypes'
  /\ \A j \in Coroutine \ {k} : work'[j] = work[j] /\ at'[j] = at[j]
  /\ at'[k] # "new" /\ (at'[k] # "idle" => work'[k] # << >>)
  /\ \E n \in Nat : \A i \in DOMAIN work'[k] : i + n \in DOMAIN steps /\ work'[k][i] = steps[i + n]
  /\ \A c \in Cluster : \A u \in Members(transaction_request'[c]) :
       \/ u \in Members(transaction_request[c])
       \/ u = steps[1].txn /\ 1 \in DOMAIN steps /\ \E j \in DOMAIN steps : steps[j].queue /\ steps[j].cluster = c

(* A flush is no request.                                                  *)
LEMMA FlushFacts == \A f \in Flush : f \notin Txn
  <1>1. Flush \cap Txn = {}
    BY RoutingAssumption
  <1> QED
    BY <1>1

(* Where a sequence has elements, and of which kind.                       *)
LEMMA SequenceFacts ==
  ASSUME NEW S, NEW q \in Seq(S)
  PROVE  /\ Len(q) \in Nat /\ DOMAIN q = 1 .. Len(q)
         /\ \A i \in DOMAIN q : q[i] \in S
         /\ q # << >> => Len(q) >= 1 /\ 1 \in DOMAIN q /\ q[1] \in S
  BY LenProperties, EmptySeq, ElementOfSeq

(* What is left of a sequence after n elements.                            *)
LEMMA SuffixFacts ==
  ASSUME NEW S, NEW q \in Seq(S), NEW n \in 0 .. Len(q)
  PROVE  /\ SubSeq(q, n + 1, Len(q)) \in Seq(S)
         /\ Len(SubSeq(q, n + 1, Len(q))) = Len(q) - n
         /\ \A i \in 1 .. Len(q) - n : i + n \in DOMAIN q /\ SubSeq(q, n + 1, Len(q))[i] = q[i + n]
  <1> DEFINE a == n + 1
             b == Len(q)
  <1>1. b \in Nat /\ DOMAIN q = 1 .. b /\ n \in Int /\ a = n + 1 /\ a \in Int /\ a >= 1 /\ a <= b + 1
    BY LenProperties
  <1>2. \A i \in a .. b : q[i] \in S
    <2>1. \A i \in a .. b : i \in 1 .. Len(q)
      BY <1>1
    <2> HIDE DEF a, b
    <2> QED
      BY <2>1, ElementOfSeq
  <1> HIDE DEF a, b
  <1>3. b \in Int
    BY <1>1
  <1>4. /\ SubSeq(q, a, b) \in Seq(S)
        /\ Len(SubSeq(q, a, b)) = IF a <= b THEN b - a + 1 ELSE 0
        /\ \A i \in 1 .. b - a + 1 : SubSeq(q, a, b)[i] = q[a + i - 1]
    BY <1>1, <1>2, <1>3, SubSeqProperties, SMT
  <1>5. Len(SubSeq(q, a, b)) = b - n
    BY <1>1, <1>4
  <1>6. ASSUME NEW i \in 1 .. b - n
        PROVE  i + n \in DOMAIN q /\ SubSeq(q, a, b)[i] = q[i + n]
    <2>1. i + n \in 1 .. b /\ i \in 1 .. b - a + 1 /\ a + i - 1 = i + n
      BY <1>1
    <2> QED
      BY <1>1, <1>4, <2>1
  <1> QED
    BY <1>4, <1>5, <1>6, Zenon DEF a, b

(* RunOn drops a prefix of the steps, all of which are to be queued.       *)
LEMMA PrefixOfQueued ==
  ASSUME NEW steps \in Seq(Steps)
  PROVE  LET n == Cardinality({i \in DOMAIN steps : \A j \in 1 .. i : steps[j].queue}) IN
         /\ n \in 0 .. Len(steps)
         /\ \A i \in 1 .. n : steps[i].queue
         /\ (\A j \in DOMAIN steps : ~steps[j].queue) => n = 0
  <1> DEFINE Q == {i \in DOMAIN steps : \A j \in 1 .. i : steps[j].queue}
  <1>1. Q \subseteq 1 .. Len(steps) /\ Len(steps) \in Nat
    BY SequenceFacts
  <1>2. IsFiniteSet(1 .. Len(steps)) /\ Cardinality(1 .. Len(steps)) = Len(steps)
    <2>1. \A b \in Int : IsFiniteSet(1 .. b) /\ Cardinality(1 .. b) = IF 1 > b THEN 0 ELSE b - 1 + 1
      BY FS_Interval
    <2> QED
      BY <1>1, <2>1
  <1>3. IsFiniteSet(Q) /\ Cardinality(Q) <= Len(steps) /\ Cardinality(Q) \in Nat
    BY <1>1, <1>2, FS_Subset, FS_CardinalityType
  <1>4. \A i \in Q : i \in Nat /\ i >= 1 /\ steps[1].queue
    BY <1>1
  <1>5. (\A j \in DOMAIN steps : ~steps[j].queue) => Q = {}
    BY <1>1, <1>4
  <1>6. ASSUME NEW i \in 1 .. Cardinality(Q)
        PROVE  steps[i].queue
    <2>1. SUFFICES ASSUME ~steps[i].queue PROVE FALSE
      OBVIOUS
    <2>2. Q \subseteq 1 .. i - 1
      BY <1>1, <1>3, <2>1
    <2>3. i - 1 \in Nat
      BY <1>3
    <2>4. IsFiniteSet(1 .. i - 1) /\ Cardinality(1 .. i - 1) = i - 1
      <3>1. \A b \in Int : IsFiniteSet(1 .. b) /\ Cardinality(1 .. b) = IF 1 > b THEN 0 ELSE b - 1 + 1
        BY FS_Interval
      <3> QED
        BY <2>3, <3>1
    <2>5. Cardinality(Q) <= i - 1
      BY <2>2, <2>4, FS_Subset
    <2> QED
      BY <1>3, <2>3, <2>5
  <1> QED
    BY <1>3, <1>5, <1>6, FS_EmptySet

(* A coroutine that runs on to its next await moves.                       *)
LEMMA RunOnMoves ==
  ASSUME CoroutineTypes, leader_per_cluster' \in [Cluster -> Member \cup {Unknown}],
         NEW k \in Coroutine, NEW steps \in Seq(Steps), RunOn(k, steps)
  PROVE  Moves(k, steps)
  <1> DEFINE n    == Cardinality({i \in DOMAIN steps : \A j \in 1 .. i : steps[j].queue})
             todo == SubSeq(steps, n + 1, Len(steps))
  <1>1. n \in 0 .. Len(steps) /\ \A i \in 1 .. n : steps[i].queue
    BY PrefixOfQueued
  <1>2. /\ todo \in Seq(Steps)
        /\ \A i \in DOMAIN todo : i + n \in DOMAIN steps /\ todo[i] = steps[i + n]
    <2>1. /\ todo \in Seq(Steps) /\ Len(todo) = Len(steps) - n
          /\ \A i \in 1 .. Len(todo) : i + n \in DOMAIN steps /\ todo[i] = steps[i + n]
      BY <1>1, SuffixFacts
    <2> QED
      BY <2>1, SequenceFacts
  <1>3. work' = [work EXCEPT ![k] = todo]
    BY DEF RunOn
  <1>4. at' = [at EXCEPT ![k] = IF todo = << >> THEN "idle" ELSE "response"]
    BY DEF RunOn
  <1>5. server' \in [Coroutine -> Member]
    <2>1. server' = [server EXCEPT ![k] = IF todo = << >> THEN @ ELSE Target(todo[1].cluster)]
      BY DEF RunOn
    <2>2. todo # << >> => todo[1] \in Steps
      BY <1>2, SequenceFacts
    <2>3. todo # << >> => Target(todo[1].cluster) \in Member
      BY <2>2, RoutingAssumption DEF Target, Steps
    <2> QED
      BY <2>1, <2>3 DEF CoroutineTypes
  <1>6. ASSUME NEW c \in Cluster
        PROVE  \/ transaction_request'[c] \in {<< >>, transaction_request[c]}
               \/ /\ steps # << >> /\ \E j \in DOMAIN steps : steps[j].queue /\ steps[j].cluster = c
                  /\ transaction_request'[c] = Append(transaction_request[c], steps[1].txn)
    <2> DEFINE parked  == {steps[i].cluster : i \in 1 .. n}
    <2> DEFINE flushed == IF k \in Flush /\ todo = << >> THEN {Current(k).cluster} ELSE {}
    <2>2. transaction_request'[c] = CASE c \in flushed -> << >>
                                      [] c \in parked -> Append(transaction_request[c], steps[1].txn)
                                      [] OTHER -> transaction_request[c]
      BY DEF RunOn
    <2>3. c \in parked => \E j \in DOMAIN steps : steps[j].queue /\ steps[j].cluster = c
      BY <1>1, SequenceFacts
    <2>4. (\E j \in DOMAIN steps : steps[j].queue /\ steps[j].cluster = c) => steps # << >>
      BY EmptySeq
    <2> HIDE DEF n, todo, parked, flushed
    <2> QED
      BY <2>2, <2>3, <2>4
  <1>7. transaction_request' \in [Cluster -> Seq(Txn)]
    <2>1. transaction_request' = [c \in Cluster |-> transaction_request'[c]]
      BY DEF RunOn
    <2>2. steps # << >> => steps[1].txn \in Txn
      <3>1. steps # << >> => steps[1] \in Steps
        BY SequenceFacts
      <3> QED
        BY <3>1 DEF Steps
    <2>3. ASSUME NEW c \in Cluster
          PROVE  transaction_request'[c] \in Seq(Txn)
      <3>1. transaction_request[c] \in Seq(Txn) /\ << >> \in Seq(Txn)
        BY EmptySeq DEF CoroutineTypes
      <3>2. steps # << >> => Append(transaction_request[c], steps[1].txn) \in Seq(Txn)
        BY <2>2, <3>1, AppendProperties
      <3> QED
        BY <1>6, <3>1, <3>2
    <2> QED
      BY <2>1, <2>3
  <1>8. CoroutineTypes'
    BY <1>2, <1>3, <1>4, <1>5, <1>7 DEF CoroutineTypes, At
  <1>9. \A j \in Coroutine \ {k} : work'[j] = work[j] /\ at'[j] = at[j]
    BY <1>3, <1>4 DEF CoroutineTypes
  <1>10. at'[k] # "new" /\ (at'[k] # "idle" => work'[k] # << >>)
    BY <1>3, <1>4 DEF CoroutineTypes
  <1>11. \E m \in Nat : \A i \in DOMAIN work'[k] : i + m \in DOMAIN steps /\ work'[k][i] = steps[i + m]
    <2>1. n \in Nat
      BY <1>1, SequenceFacts
    <2> QED
      BY <1>2, <1>3, <2>1 DEF CoroutineTypes
  <1>12. ASSUME NEW c \in Cluster, NEW u \in Members(transaction_request'[c])
         PROVE  \/ u \in Members(transaction_request[c])
                \/ u = steps[1].txn /\ 1 \in DOMAIN steps /\ \E j \in DOMAIN steps : steps[j].queue /\ steps[j].cluster = c
    <2>1. transaction_request[c] \in Seq(Txn)
      BY DEF CoroutineTypes
    <2>2. CASE transaction_request'[c] \in {<< >>, transaction_request[c]}
      BY <2>2 DEF Members
    <2>3. CASE /\ steps # << >> /\ \E j \in DOMAIN steps : steps[j].queue /\ steps[j].cluster = c
               /\ transaction_request'[c] = Append(transaction_request[c], steps[1].txn)
      <3>1. steps[1].txn \in Txn /\ 1 \in DOMAIN steps
        <4>1. steps[1] \in Steps /\ 1 \in DOMAIN steps
          BY <2>3, SequenceFacts
        <4> QED
          BY <4>1 DEF Steps
      <3>2. PICK i \in DOMAIN transaction_request'[c] : u = transaction_request'[c][i]
        BY DEF Members
      <3>3. CASE i \in DOMAIN transaction_request[c]
        BY <2>1, <2>3, <3>1, <3>2, <3>3 DEF Members
      <3>4. CASE i \notin DOMAIN transaction_request[c]
        BY <2>1, <2>3, <3>1, <3>2, <3>4
      <3> QED
        BY <3>3, <3>4
    <2> QED
      BY <1>6, <2>2, <2>3
  <1> QED
    BY <1>8, <1>9, <1>10, <1>11, <1>12 DEF Moves

(* Steps that queue nothing are all kept.                                  *)
LEMMA RunOnStraight ==
  ASSUME CoroutineTypes, NEW k \in Coroutine, NEW steps \in Seq(Steps), RunOn(k, steps),
         \A i \in DOMAIN steps : ~steps[i].queue
  PROVE  work'[k] = steps /\ at'[k] = IF steps = << >> THEN "idle" ELSE "response"
  <1> DEFINE n == Cardinality({i \in DOMAIN steps : \A j \in 1 .. i : steps[j].queue})
  <1>1. n = 0
    BY PrefixOfQueued
  <1>2. SubSeq(steps, n + 1, Len(steps)) = steps
    <2>1. SubSeq(steps, 1, Len(steps)) = steps
      BY SubSeqFull
    <2>2. n + 1 = 1
      BY <1>1
    <2> HIDE DEF n
    <2> QED
      BY <2>1, <2>2
  <1>3. work' = [work EXCEPT ![k] = steps] /\ at' = [at EXCEPT ![k] = IF steps = << >> THEN "idle" ELSE "response"]
    BY <1>2 DEF RunOn
  <1> QED
    BY <1>3 DEF CoroutineTypes

(* So does one that an exception ends.                                     *)
LEMMA RaiseMoves ==
  ASSUME CoroutineTypes, NEW k \in Coroutine, Raise(k)
  PROVE  Moves(k, work[k]) /\ work'[k] = << >> /\ at'[k] = "idle"
  <1>1. CoroutineTypes'
    BY DEF CoroutineTypes, Raise, At
  <1>2. work'[k] = << >> /\ at'[k] = "idle"
    BY DEF CoroutineTypes, Raise
  <1>3. DOMAIN work'[k] = {}
    BY <1>2
  <1> QED
    BY <1>1, <1>2, <1>3 DEF Moves, Raise, CoroutineTypes

(* And one that awaits a broadcast.                                        *)
LEMMA AwaitMoves ==
  ASSUME CoroutineTypes, NEW k \in Coroutine, NEW what \in At \ {"new", "idle"}, Await(k, what), work[k] # << >>
  PROVE  Moves(k, work[k]) /\ work'[k] = work[k] /\ at'[k] = what
  <1>1. CoroutineTypes'
    BY DEF CoroutineTypes, Await, At
  <1>2. work'[k] = work[k] /\ at'[k] = what
    BY DEF CoroutineTypes, Await
  <1>3. \A i \in DOMAIN work'[k] : i + 0 \in DOMAIN work[k] /\ work'[k][i] = work[k][i + 0]
    <2>1. DOMAIN work[k] = 1 .. Len(work[k])
      BY SequenceFacts DEF CoroutineTypes
    <2> QED
      BY <1>2, <2>1
  <1> QED
    BY <1>1, <1>2, <1>3 DEF Moves, Await, CoroutineTypes

-----------------------------------------------------------------------------
(* What an action leaves alone.                                            *)

OtherTypes ==
  /\ leader_per_cluster \in [Cluster -> Member \cup {Unknown}]
  /\ num_reply_for_2PC \in [Txn -> Int]
  /\ thread \in [at : {"idle", "scan", "ABORT", "dead"}, cluster : Cluster \cup {Unknown},
                 old : Seq(Txn), kept : Seq(Txn)]
  /\ told \in [Txn -> {"nothing", "RESULT", "SUCCEED", "ABORTED"}]
  /\ elections \in Nat /\ scans \in Nat
  /\ direct \subseteq Txn /\ refused \subseteq Txn
  /\ queued \in [Txn -> SUBSET Cluster]
  /\ yes \in [Txn -> [Cluster -> Nat]]
  /\ sent \in [Txn -> SUBSET {"COMMIT", "ABORT"}]

ThreadType == [at : {"idle", "scan", "ABORT", "dead"}, cluster : Cluster \cup {Unknown},
               old : Seq(Txn), kept : Seq(Txn)]

(* The types, apart for what coroutines write and the rest.                *)
LEMMA TypeParts == TypeOK <=> CoroutineTypes /\ OtherTypes
  BY DEF TypeOK, CoroutineTypes, OtherTypes, At

(* Nothing is counted, said, sent or told of request u.                    *)
Quiet(u) ==
  /\ num_reply_for_2PC'[u] = num_reply_for_2PC[u]
  /\ sent'[u] = sent[u] /\ told'[u] = told[u]
  /\ yes'[u] = yes[u] /\ queued'[u] = queued[u]

(* Every action writes at most the entries of one request t.               *)
LEMMA WritesKeepTypes ==
  ASSUME OtherTypes, NEW t \in Txn, NEW n \in Int, NEW decision \in {"COMMIT", "ABORT"},
         NEW what \in {"nothing", "RESULT", "SUCCEED", "ABORTED"},
         num_reply_for_2PC' \in {num_reply_for_2PC, [num_reply_for_2PC EXCEPT ![t] = n]},
         told' \in {told, [told EXCEPT ![t] = what]},
         sent' \in {sent, [sent EXCEPT ![t] = @ \cup {decision}]},
         yes' \in [Txn -> [Cluster -> Nat]], \A u \in Txn \ {t} : yes'[u] = yes[u],
         thread' \in ThreadType, refused' \subseteq Txn, scans' \in Nat,
         UNCHANGED <<leader_per_cluster, elections, direct, queued>>
  PROVE  OtherTypes' /\ \A u \in Txn \ {t} : Quiet(u)
  <1>1. num_reply_for_2PC' \in [Txn -> Int] /\ \A u \in Txn \ {t} : num_reply_for_2PC'[u] = num_reply_for_2PC[u]
    BY DEF OtherTypes
  <1>2. /\ told' \in [Txn -> {"nothing", "RESULT", "SUCCEED", "ABORTED"}]
        /\ \A u \in Txn \ {t} : told'[u] = told[u]
    BY DEF OtherTypes
  <1>3. sent' \in [Txn -> SUBSET {"COMMIT", "ABORT"}] /\ \A u \in Txn \ {t} : sent'[u] = sent[u]
    <2> DEFINE d == sent[t] \cup {decision}
    <2>1. sent \in [Txn -> SUBSET {"COMMIT", "ABORT"}]
      BY DEF OtherTypes
    <2>2. d \in SUBSET {"COMMIT", "ABORT"}
      BY <2>1
    <2>3. sent' \in {sent, [sent EXCEPT ![t] = d]}
      OBVIOUS
    <2> HIDE DEF d
    <2> QED
      BY <2>1, <2>2, <2>3
  <1>4. OtherTypes'
    BY <1>1, <1>2, <1>3 DEF OtherTypes, ThreadType
  <1> QED
    BY <1>1, <1>2, <1>3, <1>4 DEF Quiet

(* A request that the action does not touch stays as it was.               *)
LEMMA QuietKeepsSound ==
  ASSUME NEW u \in Txn, Sound(u), Quiet(u), at'[u] = at[u], work'[u] = work[u],
         u \in direct' <=> u \in direct
  PROVE  Sound(u)'
  <1>1. SaidYes(u)' = SaidYes(u)
    BY DEF SaidYes, Quiet
  <1>2. YesesOf(u)' = YesesOf(u)
    BY DEF YesesOf, Quiet
  <1>3. CountedOf(u)' /\ OnceEach(u)'
    BY <1>2 DEF Sound, Quiet, CountedOf, OnceEach
  <1>4. at'[u] = "new" => FreshOf(u)'
    BY DEF Sound, Quiet, FreshOf
  <1>5. Stage(u) => Stage(u)'
    BY <1>1 DEF Quiet, Stage, AsksFirst, AsksSecond, AsksInVain, Aborts, Commits, Done
  <1>6. LeadsTo(u) => LeadsTo(u)'
    BY DEF LeadsTo
  <1> QED
    BY <1>2, <1>3, <1>4, <1>5, <1>6 DEF Sound, Quiet

(* Nor does what the structure does not speak of change it.                *)
LEMMA UnchangedKeepsStructure ==
  ASSUME Structure, UNCHANGED <<transaction_request, at, work, thread, direct, queued>>
  PROVE  Structure'
  <1>1. Busy' /\ OwnSteps' /\ OwnQueues' /\ Straight'
    BY DEF Structure, Busy, OwnSteps, Own, Queues, OwnQueues, Straight
  <1>2. Apart'
    BY DEF Structure, Apart, Private, Members
  <1>3. Scanning'
    BY DEF Structure, Scanning, Members
  <1> QED
    BY <1>1, <1>2, <1>3 DEF Structure

(* A coroutine that moves on keeps the requests apart.                     *)
LEMMA MovesKeepStructure ==
  ASSUME TypeOK, Structure, NEW k \in Coroutine, NEW steps \in Seq(Steps), Moves(k, steps),
         thread' = thread,
         direct \subseteq direct', direct' \subseteq direct \cup {k},
         k \in direct' \ direct => at[k] = "new",
         \A t \in Txn : queued[t] \subseteq queued'[t] /\ queued'[t] \subseteq {From[t], To[t]},
         \A t \in Txn \ {k} : queued'[t] = queued[t],
         k \in direct' => queued'[k] = {},
         k \in Txn => Own(k, steps) /\ Queues(k, steps, queued'[k]),
         k \in direct' \cup Flush => \A i \in DOMAIN steps : ~steps[i].queue,
         k \in Flush => \A i \in DOMAIN steps : steps[i].cluster \in queued[steps[i].txn],
         k \in Flush => direct' = direct
  PROVE  Structure'
  <1>1. Busy'
    BY DEF Structure, Busy, Moves
  <1>2. PICK n \in Nat : \A i \in DOMAIN work'[k] : i + n \in DOMAIN steps /\ work'[k][i] = steps[i + n]
    BY DEF Moves
  <1>3. ASSUME NEW t \in Txn
        PROVE  Own(t, work'[t]) /\ Queues(t, work'[t], queued'[t])
    <2>1. CASE t # k
      <3>1. work'[t] = work[t] /\ queued'[t] = queued[t]
        BY <2>1 DEF Moves, Coroutine
      <3> QED
        BY <3>1 DEF Structure, OwnSteps
    <2>2. CASE t = k
      <3>1. DOMAIN work'[k] \subseteq Int
        <4>1. work'[k] \in Seq(Steps)
          BY DEF Moves, CoroutineTypes
        <4> QED
          BY <4>1, SequenceFacts
      <3>2. ASSUME NEW i \in DOMAIN work'[k], NEW j \in DOMAIN work'[k] \ {i}
            PROVE  work'[k][j].cluster # work'[k][i].cluster
        <4>1. i + n \in DOMAIN steps /\ j + n \in DOMAIN steps \ {i + n}
          BY <1>2, <3>1
        <4>2. steps[j + n].cluster # steps[i + n].cluster
          BY <2>2, <4>1 DEF Own
        <4> QED
          BY <1>2, <4>2
      <3>3. ASSUME NEW i \in DOMAIN work'[k]
            PROVE  /\ work'[k][i].txn = k /\ work'[k][i].cluster \in {From[k], To[k]}
                   /\ work'[k][i].queue => work'[k][i].cluster \in queued'[k]
        <4>1. i + n \in DOMAIN steps /\ work'[k][i] = steps[i + n]
          BY <1>2
        <4> QED
          BY <2>2, <4>1 DEF Own, Queues
      <3> QED
        BY <2>2, <3>2, <3>3 DEF Own, Queues
    <2> QED
      BY <2>1, <2>2
  <1>4. ASSUME NEW j \in direct' \cup Flush, NEW i \in DOMAIN work'[j]
        PROVE  ~work'[j][i].queue
    <2>1. CASE j = k
      <3>1. i + n \in DOMAIN steps /\ work'[k][i] = steps[i + n]
        BY <1>2, <2>1
      <3>2. ~steps[i + n].queue
        BY <2>1, <3>1
      <3> QED
        BY <2>1, <3>1, <3>2
    <2>2. CASE j # k
      <3>1. j \in Coroutine /\ j \in direct \cup Flush
        BY <2>2 DEF Coroutine, TypeOK
      <3>2. work'[j] = work[j]
        BY <2>2, <3>1 DEF Moves
      <3> QED
        BY <3>1, <3>2 DEF Structure, Straight
    <2> QED
      BY <2>1, <2>2
  <1>5. ASSUME NEW t \in Txn, NEW c \in Cluster \ queued'[t]
        PROVE  Private(t, c)'
    <2>1. Private(t, c) /\ c \in Cluster \ queued[t]
      BY DEF Structure, Apart
    <2>2. ASSUME t = steps[1].txn, 1 \in DOMAIN steps, NEW j \in DOMAIN steps, steps[j].queue, steps[j].cluster = c
          PROVE  FALSE
      <3>1. k \in Txn
        BY <2>2 DEF Coroutine
      <3>2. t = k /\ c \in queued'[k]
        BY <2>2, <3>1 DEF Own, Queues
      <3> QED
        BY <3>2
    <2>3. t \notin Members(transaction_request'[c])
      BY <2>1, <2>2 DEF Private, Moves
    <2>4. ASSUME NEW f \in Flush, NEW i \in DOMAIN work'[f]
          PROVE  ~(work'[f][i].txn = t /\ work'[f][i].cluster = c)
      <3>1. CASE f = k
        <4>1. i + n \in DOMAIN steps /\ work'[k][i] = steps[i + n]
          BY <1>2, <3>1
        <4>2. steps[i + n].cluster \in queued[steps[i + n].txn]
          BY <3>1, <4>1
        <4> QED
          BY <2>1, <3>1, <4>1, <4>2
      <3>2. CASE f # k
        BY <2>1, <3>2 DEF Moves, Private, Coroutine
      <3> QED
        BY <3>1, <3>2
    <2> QED
      BY <2>1, <2>3, <2>4 DEF Private
  <1>6. OwnQueues'
    <2>1. ASSUME NEW t \in Txn, at'[t] = "new" \/ t \in direct'
          PROVE  queued'[t] = {}
      <3>1. CASE t = k
        BY <2>1, <3>1 DEF Moves
      <3>2. CASE t # k
        <4>1. at[t] = "new" \/ t \in direct
          BY <2>1, <3>2 DEF Moves, Coroutine
        <4> QED
          BY <3>2, <4>1 DEF Structure, OwnQueues
      <3> QED
        BY <3>1, <3>2
    <2> QED
      BY <2>1 DEF OwnQueues
  <1> QED
    BY <1>1, <1>3, <1>4, <1>5, <1>6 DEF Structure, OwnSteps, Apart, Straight, Scanning

-----------------------------------------------------------------------------
(* A coroutine that resumes.                                               *)

(* The steps of a coroutine that has any.                                  *)
LEMMA WorkFacts ==
  ASSUME TypeOK, NEW k \in Coroutine, work[k] # << >>
  PROVE  /\ work[k] \in Seq(Steps) /\ Len(work[k]) \in Nat /\ Len(work[k]) >= 1
         /\ DOMAIN work[k] = 1 .. Len(work[k]) /\ Current(k) \in Steps
         /\ Tail(work[k]) \in Seq(Steps) /\ Len(Tail(work[k])) = Len(work[k]) - 1
         /\ \A i \in DOMAIN Tail(work[k]) : i + 1 \in DOMAIN work[k] /\ Tail(work[k])[i] = work[k][i + 1]
  <1>1. work[k] \in Seq(Steps)
    BY DEF TypeOK
  <1>2. Len(work[k]) \in Nat /\ Len(work[k]) >= 1 /\ DOMAIN work[k] = 1 .. Len(work[k]) /\ Current(k) \in Steps
    BY <1>1, SequenceFacts DEF Current
  <1>3. /\ Tail(work[k]) \in Seq(Steps) /\ Len(Tail(work[k])) = Len(work[k]) - 1
        /\ \A i \in 1 .. Len(Tail(work[k])) : Tail(work[k])[i] = work[k][i + 1]
    BY <1>1, HeadTailProperties
  <1>4. DOMAIN Tail(work[k]) = 1 .. Len(work[k]) - 1
    BY <1>3, SequenceFacts
  <1> QED
    BY <1>1, <1>2, <1>3, <1>4

(* A request that found its leaders is worked on by its own coroutine.     *)
LEMMA CurrentFacts ==
  ASSUME TypeOK, Structure, NEW k \in Coroutine, at[k] \notin {"new", "idle"}
  PROVE  /\ work[k] # << >> /\ Current(k).txn \in Txn
         /\ k \in Txn => Current(k).txn = k
         /\ Current(k).cluster \in {From[Current(k).txn], To[Current(k).txn]}
         /\ k \in Flush => \A i \in DOMAIN work[k] :
              work[k][i].txn \in Txn /\ work[k][i].cluster \in queued[work[k][i].txn]
         /\ Current(k).txn \in direct => Current(k).txn = k
  <1>1. work[k] # << >>
    BY DEF Structure, Busy
  <1>2. Current(k) \in Steps /\ 1 \in DOMAIN work[k]
    BY <1>1, WorkFacts
  <1>3. Current(k).txn \in Txn
    BY <1>2 DEF Steps
  <1>4. k \in Txn => Current(k).txn = k /\ Current(k).cluster \in {From[k], To[k]}
    BY <1>2 DEF Structure, OwnSteps, Own, Current
  <1>5. ASSUME k \in Flush, NEW i \in DOMAIN work[k]
        PROVE  work[k][i].txn \in Txn /\ work[k][i].cluster \in queued[work[k][i].txn]
    <2>1. work[k][i] \in Steps
      BY <1>1, WorkFacts, SequenceFacts
    <2> QED
      BY <1>5, <2>1 DEF Steps, Structure, Apart, Private
  <1>6. k \in Flush => /\ Current(k).cluster \in {From[Current(k).txn], To[Current(k).txn]}
                       /\ at[Current(k).txn] # "new" /\ Current(k).txn \notin direct
    BY <1>2, <1>5 DEF Current, Structure, OwnQueues
  <1> QED
    BY <1>1, <1>3, <1>4, <1>5, <1>6 DEF Coroutine

Continues(k) ==
  \/ Raise(k)
  \/ RunOn(k, Tail(work[k]))
  \/ \E what \in {"COMMIT", "ABORT", "TIMEOUT"} : Await(k, what)

(* However a coroutine resumes, requests stay apart.                       *)
LEMMA ContinuesKeepsStructure ==
  ASSUME TypeOK, Structure, NEW k \in Coroutine, at[k] \notin {"new", "idle"},
         Continues(k), leader_per_cluster' \in [Cluster -> Member \cup {Unknown}],
         UNCHANGED <<thread, direct, queued>>
  PROVE  /\ CoroutineTypes' /\ Structure' /\ at'[k] # "new"
         /\ \A j \in Coroutine \ {k} : work'[j] = work[j] /\ at'[j] = at[j]
         /\ \/ work'[k] = << >>
            \/ work'[k] = work[k] /\ at'[k] # "response"
            \/ \E n \in Nat \ {0} : \A i \in DOMAIN work'[k] : i + n \in DOMAIN work[k] /\ work'[k][i] = work[k][i + n]
  <1>1. /\ CoroutineTypes /\ work[k] # << >> /\ work[k] \in Seq(Steps) /\ Tail(work[k]) \in Seq(Steps)
        /\ \A i \in DOMAIN Tail(work[k]) : i + 1 \in DOMAIN work[k] /\ Tail(work[k])[i] = work[k][i + 1]
    BY CurrentFacts, WorkFacts, TypeParts
  <1>2. DOMAIN work[k] \subseteq Int /\ DOMAIN Tail(work[k]) \subseteq Int
    BY <1>1, SequenceFacts
  <1>3. PICK steps \in {work[k], Tail(work[k])} :
          /\ Moves(k, steps)
          /\ \/ work'[k] = << >>
             \/ work'[k] = work[k] /\ at'[k] # "response"
             \/ steps = Tail(work[k])
    <2>1. CASE Raise(k)
      BY <1>1, <2>1, RaiseMoves
    <2>2. CASE RunOn(k, Tail(work[k]))
      BY <1>1, <2>2, RunOnMoves
    <2>3. CASE \E what \in {"COMMIT", "ABORT", "TIMEOUT"} : Await(k, what)
      <3>1. PICK what \in At \ {"new", "idle"} : Await(k, what) /\ what # "response"
        BY <2>3 DEF At
      <3> QED
        BY <1>1, <3>1, AwaitMoves
    <2> QED
      BY <2>1, <2>2, <2>3 DEF Continues
  <1>4. PICK m \in {0, 1} : /\ \A i \in DOMAIN steps : i + m \in DOMAIN work[k] /\ steps[i] = work[k][i + m]
                            /\ steps = Tail(work[k]) => m = 1
    <2>1. CASE steps = Tail(work[k])
      BY <1>1, <2>1
    <2>2. CASE steps = work[k] /\ steps # Tail(work[k])
      BY <1>2, <2>2
    <2> QED
      BY <2>1, <2>2
  <1>5. steps \in Seq(Steps) /\ DOMAIN steps \subseteq Int
    BY <1>1, <1>2
  <1>6. k \in Txn => Own(k, steps) /\ Queues(k, steps, queued'[k])
    <2>1. SUFFICES ASSUME k \in Txn, NEW i \in DOMAIN steps
                   PROVE  /\ steps[i].txn = k /\ steps[i].cluster \in {From[k], To[k]}
                          /\ steps[i].queue => steps[i].cluster \in queued[k]
                          /\ \A j \in DOMAIN steps \ {i} : steps[j].cluster # steps[i].cluster
      BY DEF Own, Queues
    <2>2. Own(k, work[k]) /\ Queues(k, work[k], queued[k])
      BY <2>1 DEF Structure, OwnSteps
    <2>3. i + m \in DOMAIN work[k] /\ steps[i] = work[k][i + m]
      BY <1>4
    <2>4. ASSUME NEW j \in DOMAIN steps \ {i}
          PROVE  steps[j].cluster # steps[i].cluster
      <3>1. j + m \in DOMAIN work[k] \ {i + m} /\ steps[j] = work[k][j + m]
        BY <1>4, <1>5
      <3> QED
        BY <2>2, <2>3, <3>1 DEF Own
    <2> QED
      BY <2>2, <2>3, <2>4 DEF Own, Queues
  <1>7. k \in direct' \cup Flush => \A i \in DOMAIN steps : ~steps[i].queue
    BY <1>4 DEF Structure, Straight
  <1>8. k \in Flush => \A i \in DOMAIN steps : steps[i].cluster \in queued[steps[i].txn]
    BY <1>4, CurrentFacts
  <1>9. Structure'
    <2>1. \A t \in Txn : queued'[t] = queued[t] /\ queued[t] \subseteq {From[t], To[t]}
      BY DEF Structure, OwnQueues
    <2>2. k \in direct' => queued'[k] = {}
      BY DEF Structure, OwnQueues, TypeOK
    <2> QED
      BY <1>3, <1>5, <1>6, <1>7, <1>8, <2>1, <2>2, MovesKeepStructure
  <1>10. \/ work'[k] = << >>
         \/ work'[k] = work[k] /\ at'[k] # "response"
         \/ \E n \in Nat \ {0} : \A i \in DOMAIN work'[k] : i + n \in DOMAIN work[k] /\ work'[k][i] = work[k][i + n]
    <2>1. CASE steps = Tail(work[k])
      <3>1. PICK n \in Nat : \A i \in DOMAIN work'[k] : i + n \in DOMAIN steps /\ work'[k][i] = steps[i + n]
        BY <1>3 DEF Moves
      <3>2. DOMAIN work'[k] \subseteq Int
        <4>1. work'[k] \in Seq(Steps)
          BY <1>3 DEF Moves, CoroutineTypes
        <4> QED
          BY <4>1, SequenceFacts
      <3>3. \A i \in DOMAIN work'[k] : i + (n + 1) \in DOMAIN work[k] /\ work'[k][i] = work[k][i + (n + 1)]
        <4>1. \A i \in DOMAIN work'[k] : (i + n) + 1 \in DOMAIN work[k] /\ work'[k][i] = work[k][(i + n) + 1]
          BY <1>1, <2>1, <3>1
        <4>2. \A i \in DOMAIN work'[k] : (i + n) + 1 = i + (n + 1)
          BY <3>2
        <4> QED
          BY <4>1, <4>2
      <3>4. n + 1 \in Nat \ {0}
        OBVIOUS
      <3> DEFINE l == n + 1
      <3>5. l \in Nat \ {0} /\ \A i \in DOMAIN work'[k] : i + l \in DOMAIN work[k] /\ work'[k][i] = work[k][i + l]
        BY <3>3, <3>4
      <3> HIDE DEF l
      <3> QED
        BY <3>5
    <2> QED
      BY <1>3, <2>1
  <1> QED
    BY <1>3, <1>9, <1>10 DEF Moves

(* A YES counted for the current step of coroutine k.                      *)
Said(k) ==
  /\ at[k] = "response"
  /\ yes' = [yes EXCEPT ![Current(k).txn][Current(k).cluster] = @ + 1]

(* The coroutine of a request does not ask a cluster twice.                *)
LEMMA OnceEachKept ==
  ASSUME TypeOK, Structure, NEW k \in Coroutine, at[k] \notin {"new", "idle"},
         NEW t \in Txn, t = Current(k).txn, OnceEach(t),
         UNCHANGED queued, yes' = yes \/ Said(k),
         \A j \in Coroutine \ {k} : work'[j] = work[j] /\ at'[j] = at[j],
         \/ work'[k] = << >>
         \/ work'[k] = work[k] /\ at'[k] # "response"
         \/ \E n \in Nat \ {0} : \A i \in DOMAIN work'[k] : i + n \in DOMAIN work[k] /\ work'[k][i] = work[k][i + n],
         DOMAIN work'[k] \subseteq Nat \ {0}
  PROVE  OnceEach(t)'
  <1>1. work[k] # << >> /\ 1 \in DOMAIN work[k] /\ yes \in [Txn -> [Cluster -> Nat]] /\ DOMAIN work[k] \subseteq Nat
    <2>1. work[k] # << >>
      BY CurrentFacts
    <2> QED
      BY <2>1, WorkFacts DEF TypeOK
  <1>2. SUFFICES ASSUME NEW c \in Cluster \ queued[t]
                 PROVE  /\ yes'[t][c] <= 1
                        /\ yes'[t][c] = 1 =>
                             \A i \in DOMAIN work'[t] : work'[t][i].cluster = c => i = 1 /\ at'[t] # "response"
    BY DEF OnceEach
  <1>3. /\ yes[t][c] <= 1 /\ yes[t][c] \in Nat
        /\ yes[t][c] = 1 => \A i \in DOMAIN work[t] : work[t][i].cluster = c => i = 1 /\ at[t] # "response"
    BY <1>1 DEF OnceEach
  <1>4. yes'[t][c] = yes[t][c] \/ (Said(k) /\ c = Current(k).cluster /\ yes'[t][c] = yes[t][c] + 1)
    BY <1>1 DEF Said
  <1>5. CASE k = t
    <2>1. \A i \in DOMAIN work[t] : \A j \in DOMAIN work[t] \ {i} : work[t][j].cluster # work[t][i].cluster
      BY DEF Structure, OwnSteps, Own
    <2>2. Said(k) /\ c = Current(k).cluster => yes[t][c] = 0
      <3>1. ASSUME at[k] = "response", c = Current(k).cluster
            PROVE  yes[t][c] # 1
        BY <1>1, <1>3, <1>5, <3>1 DEF Current
      <3> QED
        BY <1>3, <3>1 DEF Said
    <2>3. yes'[t][c] = 1 => \A i \in DOMAIN work[t] : work[t][i].cluster = c => i = 1
      <3>1. CASE yes'[t][c] = yes[t][c]
        BY <1>3, <3>1
      <3>2. CASE c = Current(k).cluster
        <4>1. work[t][1].cluster = c /\ 1 \in DOMAIN work[t]
          BY <1>1, <1>5, <3>2 DEF Current
        <4>2. \A i \in DOMAIN work[t] \ {1} : work[t][i].cluster # c
          BY <2>1, <4>1
        <4> QED
          BY <4>2
      <3> QED
        BY <1>4, <3>1, <3>2
    <2>4. yes'[t][c] = 1 => \A i \in DOMAIN work'[t] : work'[t][i].cluster = c => i = 1 /\ at'[t] # "response"
      <3>1. CASE work'[k] = << >>
        BY <1>5, <3>1
      <3>2. CASE work'[k] = work[k] /\ at'[k] # "response"
        BY <1>5, <2>3, <3>2
      <3>3. CASE \E n \in Nat \ {0} : \A i \in DOMAIN work'[k] : i + n \in DOMAIN work[k] /\ work'[k][i] = work[k][i + n]
        <4>1. PICK n \in Nat \ {0} : \A i \in DOMAIN work'[k] : i + n \in DOMAIN work[k] /\ work'[k][i] = work[k][i + n]
          BY <3>3
        <4>2. ASSUME NEW i \in DOMAIN work'[k]
              PROVE  i + n # 1
          <5>1. i \in Nat \ {0}
            OBVIOUS
          <5> QED
            BY <5>1
        <4>3. \A i \in DOMAIN work'[k] : i + n \in DOMAIN work[t] /\ i + n # 1 /\ work'[t][i] = work[t][i + n]
          BY <1>5, <4>1, <4>2
        <4>4. SUFFICES ASSUME yes'[t][c] = 1, NEW i \in DOMAIN work'[t], work'[t][i].cluster = c PROVE FALSE
          BY <1>5
        <4>5. work[t][i + n].cluster = c /\ i + n \in DOMAIN work[t] /\ i + n # 1
          BY <1>5, <4>3, <4>4
        <4> QED
          BY <2>3, <4>4, <4>5
      <3> QED
        BY <3>1, <3>2, <3>3
    <2> QED
      BY <1>3, <1>4, <2>2, <2>4
  <1>6. CASE k # t
    <2>1. k \in Flush
      BY <1>6, CurrentFacts DEF Coroutine
    <2>2. Current(k).cluster \in queued[t]
      BY <1>1, <2>1, CurrentFacts DEF Current
    <2>3. work'[t] = work[t] /\ at'[t] = at[t]
      BY <1>6 DEF Coroutine
    <2> QED
      BY <1>2, <1>3, <1>4, <2>2, <2>3
  <1> QED
    BY <1>5, <1>6

(* What is left to show of a coroutine that resumes: that its own request  *)
(* stays sound.                                                            *)
LEMMA ResumeKeepsInv ==
  ASSUME RInv, NEW k \in Coroutine, at[k] \notin {"new", "idle"}, Continues(k),
         NEW t \in Txn, t = Current(k).txn,
         UNCHANGED <<thread, direct, queued>>, OtherTypes', \A u \in Txn \ {t} : Quiet(u),
         yes' = yes \/ Said(k),
         CountedOf(t)', "COMMIT" \in sent'[t] => YesesOf(t)' >= 2,
         k = t /\ t \in direct \cap CrossShard => Stage(t)' /\ LeadsTo(t)'
  PROVE  RInv'
  <1>1. TypeOK /\ Structure /\ \A u \in Txn : Sound(u)
    BY DEF RInv
  <1>2. leader_per_cluster' \in [Cluster -> Member \cup {Unknown}]
    BY DEF OtherTypes
  <1>3. /\ CoroutineTypes' /\ Structure' /\ at'[k] # "new"
        /\ \A j \in Coroutine \ {k} : work'[j] = work[j] /\ at'[j] = at[j]
        /\ \/ work'[k] = << >>
           \/ work'[k] = work[k] /\ at'[k] # "response"
           \/ \E n \in Nat \ {0} : \A i \in DOMAIN work'[k] : i + n \in DOMAIN work[k] /\ work'[k][i] = work[k][i + n]
    BY <1>1, <1>2, ContinuesKeepsStructure
  <1>4. (k \in Txn => t = k) /\ (t \in direct => t = k)
    BY <1>1, CurrentFacts
  <1>5. at'[t] # "new"
    <2>1. CASE t = k
      BY <1>3, <2>1
    <2>2. CASE t # k
      <3>1. at[t] # "new"
        <4>1. k \in Flush /\ work[k] # << >>
          BY <1>1, <1>4, <2>2, CurrentFacts DEF Coroutine
        <4>2. 1 \in DOMAIN work[k]
          BY <1>1, <4>1, WorkFacts
        <4>3. Current(k).cluster \in queued[t]
          BY <1>1, <4>1, <4>2, CurrentFacts DEF Current
        <4> QED
          BY <1>1, <4>3 DEF Structure, OwnQueues
      <3> QED
        BY <1>3, <2>2, <3>1 DEF Coroutine
    <2> QED
      BY <2>1, <2>2
  <1>6. OnceEach(t)'
    <2>1. DOMAIN work'[k] \subseteq Nat \ {0}
      <3>1. work'[k] \in Seq(Steps)
        BY <1>3 DEF CoroutineTypes
      <3> QED
        BY <3>1, SequenceFacts
    <2>2. OnceEach(t)
      BY <1>1 DEF Sound
    <2> QED
      BY <1>1, <1>3, <2>1, <2>2, OnceEachKept
  <1>7. ASSUME NEW u \in Txn
        PROVE  Sound(u)'
    <2>1. CASE u # t
      <3>1. work'[u] = work[u] /\ at'[u] = at[u] /\ Sound(u)
        BY <1>1, <1>3, <1>4, <2>1 DEF Coroutine
      <3> QED
        BY <2>1, <3>1, QuietKeepsSound
    <2>2. CASE u = t
      BY <1>4, <1>5, <1>6, <2>2 DEF Sound
    <2> QED
      BY <2>1, <2>2
  <1>8. TypeOK'
    BY <1>3 DEF TypeOK, CoroutineTypes, OtherTypes, At
  <1> QED
    BY <1>3, <1>7, <1>8 DEF RInv

-----------------------------------------------------------------------------
(* The stages of a request that found both leaders.                        *)

(* A direct request never queues: it goes on to its next step.             *)
LEMMA RunOnTail ==
  ASSUME RInv, NEW t \in direct, work[t] # << >>, RunOn(t, Tail(work[t]))
  PROVE  /\ work'[t] = Tail(work[t])
         /\ at'[t] = IF Len(work[t]) = 1 THEN "idle" ELSE "response"
  <1>1. t \in Coroutine /\ TypeOK /\ Structure
    BY DEF RInv, TypeOK, Coroutine
  <1>2. /\ Tail(work[t]) \in Seq(Steps) /\ Len(Tail(work[t])) = Len(work[t]) - 1
        /\ Len(work[t]) \in Nat
        /\ \A i \in DOMAIN Tail(work[t]) : i + 1 \in DOMAIN work[t] /\ Tail(work[t])[i] = work[t][i + 1]
    BY <1>1, WorkFacts
  <1>3. \A i \in DOMAIN Tail(work[t]) : ~Tail(work[t])[i].queue
    BY <1>1, <1>2 DEF Structure, Straight
  <1>4. work'[t] = Tail(work[t]) /\ at'[t] = IF Tail(work[t]) = << >> THEN "idle" ELSE "response"
    BY <1>1, <1>2, <1>3, RunOnStraight, TypeParts
  <1>5. Tail(work[t]) = << >> <=> Len(work[t]) = 1
    <2>1. Tail(work[t]) # << >> => Len(Tail(work[t])) >= 1
      BY <1>2, SequenceFacts
    <2>2. Tail(work[t]) = << >> => Len(Tail(work[t])) = 0
      BY EmptySeq
    <2> QED
      BY <1>2, <2>1, <2>2
  <1> QED
    BY <1>4, <1>5

(* Its steps still lead to the cluster of the receiver.                    *)
LEMMA StepsLead ==
  ASSUME RInv, NEW t \in direct, LeadsTo(t), work[t] # << >>,
         work'[t] \in {<< >>, work[t], Tail(work[t])}
  PROVE  LeadsTo(t)'
  <1>1. t \in Coroutine /\ TypeOK
    BY DEF RInv, TypeOK, Coroutine
  <1>2. /\ Len(work[t]) \in Nat /\ Tail(work[t]) \in Seq(Steps) /\ Len(Tail(work[t])) = Len(work[t]) - 1
        /\ \A i \in DOMAIN Tail(work[t]) : i + 1 \in DOMAIN work[t] /\ Tail(work[t])[i] = work[t][i + 1]
    BY <1>1, WorkFacts
  <1>3. CASE work'[t] = << >>
    BY <1>3 DEF LeadsTo
  <1>4. CASE work'[t] = work[t]
    BY <1>4 DEF LeadsTo
  <1>5. CASE work'[t] = Tail(work[t])
    <2>1. \A i \in DOMAIN Tail(work[t]) : Tail(work[t])[i].cluster \in {From[t], To[t]}
      BY <1>2 DEF LeadsTo
    <2>2. Tail(work[t]) # << >> => Tail(work[t])[Len(Tail(work[t]))].cluster = To[t]
      <3>1. Tail(work[t]) # << >> => Len(Tail(work[t])) \in DOMAIN Tail(work[t])
        BY <1>2, SequenceFacts
      <3> QED
        BY <1>2, <3>1 DEF LeadsTo
    <2> QED
      BY <1>5, <2>1, <2>2 DEF LeadsTo
  <1> QED
    BY <1>3, <1>4, <1>5

(* It asks its clusters one after the other, or waits for a broadcast.     *)
LEMMA StageFacts ==
  ASSUME RInv, NEW t \in direct \cap CrossShard, at[t] \notin {"new", "idle"}
  PROVE  /\ LeadsTo(t) /\ Len(work[t]) \in {1, 2} /\ num_reply_for_2PC[t] \in Int
         /\ Current(t).cluster \in {From[t], To[t]}
         /\ Len(work[t]) = 1 => Current(t).cluster = To[t]
         /\ at[t] = "response" => AsksFirst(t) \/ AsksSecond(t) \/ AsksInVain(t)
         /\ at[t] = "COMMIT" => Commits(t)
         /\ at[t] \in {"ABORT", "TIMEOUT"} => Aborts(t)
  <1>1. t \in Coroutine /\ t \in Txn /\ TypeOK /\ Structure /\ Stage(t) /\ LeadsTo(t)
    BY DEF RInv, TypeOK, Coroutine, Sound
  <1>2. work[t] # << >> /\ 1 \in DOMAIN work[t]
    BY <1>1, CurrentFacts, WorkFacts
  <1>3. Current(t).cluster \in {From[t], To[t]} /\ (Len(work[t]) = 1 => Current(t).cluster = To[t])
    BY <1>1, <1>2 DEF LeadsTo, Current
  <1>4. Len(work[t]) \in {1, 2}
    BY <1>1 DEF Stage, AsksFirst, AsksSecond, AsksInVain, Aborts, Commits, Done
  <1>5. num_reply_for_2PC[t] \in Int
    BY <1>1 DEF TypeOK
  <1> QED
    BY <1>1, <1>3, <1>4, <1>5 DEF Stage, AsksFirst, AsksSecond, AsksInVain, Aborts, Commits, Done

-----------------------------------------------------------------------------
(* The answers and the broadcasts, one by one.                             *)

(* What is known of a coroutine that is about to resume.                   *)
LEMMA ResumeFacts ==
  ASSUME RInv, NEW k \in Coroutine, at[k] \notin {"new", "idle"}
  PROVE  /\ OtherTypes /\ work[k] # << >> /\ Tail(work[k]) \in Seq(Steps)
         /\ \E t \in Txn : t = Current(k).txn /\ CountedOf(t) /\ ("COMMIT" \in sent[t] => YesesOf(t) >= 2)
  <1>1. TypeOK /\ Structure /\ \A t \in Txn : Sound(t)
    BY DEF RInv
  <1>2. work[k] # << >> /\ Current(k).txn \in Txn /\ Tail(work[k]) \in Seq(Steps)
    BY <1>1, CurrentFacts, WorkFacts
  <1> QED
    BY <1>1, <1>2, TypeParts DEF Sound

(* Payments touch neither counts nor decisions.                            *)
LEMMA PaymentKeepsInv ==
  ASSUME RInv, NEW k \in Coroutine, PaymentAnswered(k) \/ PaymentTimesOut(k)
  PROVE  RInv'
  <1>1. at[k] = "response" /\ Current(k).txn \notin CrossShard
    BY DEF PaymentAnswered, PaymentTimesOut, Asks
  <1>2. PICK t \in Txn : t = Current(k).txn /\ CountedOf(t) /\ ("COMMIT" \in sent[t] => YesesOf(t) >= 2)
    BY <1>1, ResumeFacts
  <1>3. /\ UNCHANGED <<leader_per_cluster, num_reply_for_2PC, thread, counters, history>>
        /\ told' \in {told, [told EXCEPT ![t] = "RESULT"]}
    BY <1>2 DEF PaymentAnswered, PaymentTimesOut
  <1>4. OtherTypes' /\ \A u \in Txn \ {t} : Quiet(u)
    <2>1. OtherTypes
      BY <1>1, ResumeFacts
    <2>2. /\ yes' \in [Txn -> [Cluster -> Nat]] /\ thread' \in ThreadType
          /\ refused' \subseteq Txn /\ scans' \in Nat
      BY <1>3, <2>1 DEF OtherTypes, ThreadType, counters, history
    <2> QED
      BY <1>3, <2>1, <2>2, WritesKeepTypes DEF counters, history
  <1>5. Continues(k)
    BY DEF PaymentAnswered, PaymentTimesOut, Continues
  <1>6. CountedOf(t)' /\ ("COMMIT" \in sent'[t] => YesesOf(t)' >= 2)
    BY <1>2, <1>3 DEF CountedOf, YesesOf, history
  <1>7. UNCHANGED <<thread, direct, queued, yes>> /\ t \notin CrossShard
    BY <1>1, <1>2, <1>3 DEF history
  <1> QED
    BY <1>1, <1>2, <1>4, <1>5, <1>6, <1>7, ResumeKeepsInv

(* A YES takes the count up by one, and is a new YES.                      *)
LEMMA SaysYesKeepsInv ==
  ASSUME RInv, NEW k \in Coroutine, SaysYes(k)
  PROVE  RInv'
  <1>1. at[k] = "response" /\ Current(k).txn \in CrossShard
    BY DEF SaysYes, Asks
  <1>2. PICK t \in Txn : t = Current(k).txn /\ CountedOf(t) /\ ("COMMIT" \in sent[t] => YesesOf(t) >= 2)
    BY <1>1, ResumeFacts
  <1>3. /\ From[t] \in Cluster /\ To[t] \in Cluster /\ From[t] # To[t]
        /\ Current(k).cluster \in {From[t], To[t]}
    <2>1. Current(k).cluster \in {From[t], To[t]}
      BY <1>1, <1>2, CurrentFacts DEF RInv
    <2> QED
      BY <1>1, <1>2, <2>1, RoutingAssumption
  <1>4. PICK c \in {From[t], To[t]} :
          /\ c = Current(k).cluster
          /\ yes' = [yes EXCEPT ![t][c] = @ + 1]
    BY <1>2, <1>3 DEF SaysYes
  <1>5. /\ UNCHANGED <<leader_per_cluster, thread, told, elections, scans, direct, queued, refused>>
        /\ num_reply_for_2PC' = [num_reply_for_2PC EXCEPT ![t] = num_reply_for_2PC[t] + 1]
        /\ IF num_reply_for_2PC[t] + 1 = 2
           THEN Await(k, "COMMIT") /\ sent' = [sent EXCEPT ![t] = @ \cup {"COMMIT"}]
           ELSE RunOn(k, Tail(work[k])) /\ sent' = sent
    BY <1>2 DEF SaysYes, EnoughYes, Broadcast, counters
  <1>6. OtherTypes' /\ \A u \in Txn \ {t} : Quiet(u)
    <2>1. OtherTypes
      BY <1>1, ResumeFacts
    <2>2. num_reply_for_2PC[t] + 1 \in Int
      BY <2>1 DEF OtherTypes
    <2>3. sent' \in {sent, [sent EXCEPT ![t] = @ \cup {"COMMIT"}]}
      BY <1>5
    <2>4. thread' \in ThreadType /\ refused' \subseteq Txn /\ scans' \in Nat
      BY <1>5, <2>1 DEF OtherTypes, ThreadType
    <2>5. yes' \in [Txn -> [Cluster -> Nat]] /\ \A u \in Txn \ {t} : yes'[u] = yes[u]
      BY <1>3, <1>4, <2>1 DEF OtherTypes
    <2>6. /\ num_reply_for_2PC' = [num_reply_for_2PC EXCEPT ![t] = num_reply_for_2PC[t] + 1]
          /\ told' = told /\ UNCHANGED <<leader_per_cluster, elections, direct, queued>>
      BY <1>5
    <2> QED
      BY <2>1, <2>2, <2>3, <2>4, <2>5, <2>6, WritesKeepTypes
  <1>7. Continues(k)
    BY <1>5 DEF Continues, At
  <1>8. num_reply_for_2PC[t] \in Int /\ num_reply_for_2PC'[t] = num_reply_for_2PC[t] + 1
    BY <1>1, <1>5, ResumeFacts DEF OtherTypes
  <1>9. YesesOf(t)' = YesesOf(t) + 1 /\ YesesOf(t) \in Nat
    <2>1. yes[t] \in [Cluster -> Nat] /\ yes'[t] = [yes[t] EXCEPT ![c] = yes[t][c] + 1]
      BY <1>1, <1>4, ResumeFacts DEF OtherTypes
    <2>2. /\ yes[t][From[t]] \in Nat /\ yes[t][To[t]] \in Nat
          /\ yes'[t][c] = yes[t][c] + 1
          /\ \A d \in {From[t], To[t]} \ {c} : yes'[t][d] = yes[t][d]
      BY <1>3, <2>1
    <2> QED
      BY <1>3, <2>2 DEF YesesOf
  <1>10. CountedOf(t)' /\ ("COMMIT" \in sent'[t] => YesesOf(t)' >= 2)
    <2>1. "COMMIT" \in sent'[t] => "COMMIT" \in sent[t] \/ num_reply_for_2PC[t] + 1 = 2
      BY <1>5
    <2> QED
      BY <1>2, <1>8, <1>9, <2>1 DEF CountedOf
  <1>11. ASSUME k = t, t \in direct \cap CrossShard
         PROVE  Stage(t)' /\ LeadsTo(t)'
    <2>1. /\ LeadsTo(t) /\ Len(work[t]) \in {1, 2} /\ (Len(work[t]) = 1 => c = To[t])
          /\ AsksFirst(t) \/ AsksSecond(t) \/ AsksInVain(t)
      BY <1>1, <1>4, <1>11, StageFacts
    <2>2. work[t] # << >> /\ Len(Tail(work[t])) = Len(work[t]) - 1 /\ t \in Coroutine /\ TypeOK /\ OtherTypes
      BY <1>1, <1>11, ResumeFacts, WorkFacts DEF RInv
    <2>3. SaidYes(t)' = SaidYes(t) \cup {c}
      BY <1>3, <1>4, <2>2 DEF SaidYes, OtherTypes
    <2>4. CASE AsksFirst(t)
      <3>1. work'[t] = Tail(work[t]) /\ at'[t] = "response" /\ sent' = sent
        BY <1>5, <1>11, <2>2, <2>4, RunOnTail DEF AsksFirst
      <3>2. c = From[t]
        BY <1>4, <1>11, <2>4 DEF AsksFirst, Current
      <3>3. AsksSecond(t)'
        BY <1>5, <1>8, <2>2, <2>3, <2>4, <3>1, <3>2 DEF AsksFirst, AsksSecond
      <3> QED
        BY <1>11, <2>1, <2>2, <3>1, <3>3, StepsLead DEF Stage
    <2>5. CASE AsksSecond(t)
      <3>1. work'[t] = work[t] /\ at'[t] = "COMMIT" /\ sent'[t] = {"COMMIT"}
        <4>1. Await(k, "COMMIT") /\ sent' = [sent EXCEPT ![t] = @ \cup {"COMMIT"}]
          BY <1>5, <2>5 DEF AsksSecond
        <4>2. work' = work /\ at'[t] = "COMMIT"
          BY <1>11, <2>2, <4>1 DEF Await, TypeOK
        <4> QED
          BY <2>2, <2>5, <4>1, <4>2 DEF AsksSecond, OtherTypes
      <3>2. Commits(t)'
        BY <1>5, <2>1, <2>3, <2>5, <3>1 DEF AsksSecond, Commits
      <3> QED
        BY <1>11, <2>1, <2>2, <3>1, <3>2, StepsLead DEF Stage
    <2>6. CASE AsksInVain(t)
      <3>1. work'[t] = Tail(work[t]) /\ at'[t] = "idle" /\ sent' = sent
        BY <1>5, <1>11, <2>2, <2>6, RunOnTail DEF AsksInVain
      <3>2. Done(t)'
        BY <1>5, <2>6, <3>1 DEF AsksInVain, Done
      <3> QED
        BY <1>11, <2>1, <2>2, <3>1, <3>2, StepsLead DEF Stage
    <2> QED
      BY <2>1, <2>4, <2>5, <2>6
  <1> QED
    BY <1>1, <1>2, <1>4, <1>5, <1>6, <1>7, <1>10, <1>11, ResumeKeepsInv DEF Said

(* NO, or no answer: whoever has not aborted before does it now.           *)
LEMMA AbortKeepsInv ==
  ASSUME RInv, NEW k \in Coroutine, SaysNo(k) \/ TimesOut(k)
  PROVE  RInv'
  <1>1. at[k] = "response" /\ Current(k).txn \in CrossShard
    BY DEF SaysNo, TimesOut, Asks
  <1>2. PICK t \in Txn : t = Current(k).txn /\ CountedOf(t) /\ ("COMMIT" \in sent[t] => YesesOf(t) >= 2)
    BY <1>1, ResumeFacts
  <1>3. /\ UNCHANGED <<leader_per_cluster, num_reply_for_2PC, thread, told, elections, scans, direct, queued, refused, yes>>
        /\ IF num_reply_for_2PC[t] # -1
           THEN (Await(k, "ABORT") \/ Await(k, "TIMEOUT")) /\ sent' = [sent EXCEPT ![t] = @ \cup {"ABORT"}]
           ELSE (Raise(k) \/ RunOn(k, Tail(work[k]))) /\ sent' = sent
    BY <1>2 DEF SaysNo, TimesOut, Broadcast, counters
  <1>4. OtherTypes' /\ \A u \in Txn \ {t} : Quiet(u)
    <2>1. OtherTypes
      BY <1>1, ResumeFacts
    <2>2. sent' \in {sent, [sent EXCEPT ![t] = @ \cup {"ABORT"}]}
      BY <1>3
    <2>3. /\ yes' \in [Txn -> [Cluster -> Nat]] /\ thread' \in ThreadType
          /\ refused' \subseteq Txn /\ scans' \in Nat
      BY <1>3, <2>1 DEF OtherTypes, ThreadType
    <2>4. num_reply_for_2PC' = num_reply_for_2PC /\ told' = told /\ yes' = yes /\ UNCHANGED <<leader_per_cluster, elections, direct, queued>>
      BY <1>3
    <2> QED
      BY <2>1, <2>2, <2>3, <2>4, WritesKeepTypes
  <1>5. Continues(k)
    BY <1>3 DEF Continues, At
  <1>6. "COMMIT" \in sent'[t] => "COMMIT" \in sent[t]
    BY <1>1, <1>3, ResumeFacts DEF OtherTypes
  <1>7. CountedOf(t)' /\ ("COMMIT" \in sent'[t] => YesesOf(t)' >= 2)
    BY <1>2, <1>3, <1>6 DEF CountedOf, YesesOf
  <1>8. ASSUME k = t, t \in direct \cap CrossShard
        PROVE  Stage(t)' /\ LeadsTo(t)'
    <2>1. /\ LeadsTo(t) /\ Len(work[t]) \in {1, 2}
          /\ AsksFirst(t) \/ AsksSecond(t) \/ AsksInVain(t)
      BY <1>1, <1>8, StageFacts
    <2>2. work[t] # << >> /\ t \in Coroutine /\ TypeOK /\ OtherTypes
      BY <1>1, <1>8, ResumeFacts DEF RInv
    <2>3. CASE AsksFirst(t) \/ AsksSecond(t)
      <3>1. (Await(t, "ABORT") \/ Await(t, "TIMEOUT")) /\ sent' = [sent EXCEPT ![t] = @ \cup {"ABORT"}]
        BY <1>3, <1>8, <2>3 DEF AsksFirst, AsksSecond
      <3>2. work'[t] = work[t] /\ at'[t] \in {"ABORT", "TIMEOUT"}
        BY <2>2, <3>1 DEF Await, TypeOK
      <3>3. sent'[t] = {"ABORT"} /\ told'[t] = "nothing"
        BY <1>3, <2>2, <2>3, <3>1 DEF AsksFirst, AsksSecond, OtherTypes
      <3>4. Aborts(t)'
        BY <2>1, <3>2, <3>3 DEF Aborts
      <3> QED
        BY <1>8, <2>1, <2>2, <3>2, <3>4, StepsLead DEF Stage
    <2>4. CASE AsksInVain(t)
      <3>1. (Raise(t) \/ RunOn(t, Tail(work[t]))) /\ sent' = sent
        BY <1>3, <1>8, <2>4 DEF AsksInVain
      <3>2. work'[t] \in {<< >>, Tail(work[t])} /\ at'[t] = "idle"
        <4>1. CASE Raise(t)
          BY <2>2, <4>1 DEF Raise, TypeOK
        <4>2. CASE RunOn(t, Tail(work[t]))
          BY <1>8, <2>2, <2>4, <4>2, RunOnTail DEF AsksInVain
        <4> QED
          BY <3>1, <4>1, <4>2
      <3>3. Done(t)'
        BY <1>3, <2>4, <3>1, <3>2 DEF AsksInVain, Done
      <3> QED
        BY <1>8, <2>1, <2>2, <3>2, <3>3, StepsLead DEF Stage
    <2> QED
      BY <2>1, <2>3, <2>4
  <1> QED
    BY <1>1, <1>2, <1>3, <1>4, <1>5, <1>7, <1>8, ResumeKeepsInv

(* A refused connection ends the coroutine, undecided or after an abort.   *)
LEMMA RefusesKeepsInv ==
  ASSUME RInv, NEW k \in Coroutine, Refuses(k)
  PROVE  RInv'
  <1>1. at[k] = "response" /\ Raise(k)
    BY DEF Refuses, Asks
  <1>2. PICK t \in Txn : t = Current(k).txn /\ CountedOf(t) /\ ("COMMIT" \in sent[t] => YesesOf(t) >= 2)
    BY <1>1, ResumeFacts
  <1>3. /\ UNCHANGED <<leader_per_cluster, num_reply_for_2PC, thread, told, elections, scans, direct, queued, yes, sent>>
        /\ refused' = refused \cup {t}
    BY <1>2 DEF Refuses, counters
  <1>4. OtherTypes' /\ \A u \in Txn \ {t} : Quiet(u)
    <2>1. OtherTypes
      BY <1>1, ResumeFacts
    <2>2. /\ yes' \in [Txn -> [Cluster -> Nat]] /\ thread' \in ThreadType
          /\ refused' \subseteq Txn /\ scans' \in Nat
      BY <1>3, <2>1 DEF OtherTypes, ThreadType
    <2> QED
      BY <1>3, <2>1, <2>2, WritesKeepTypes
  <1>5. Continues(k)
    BY <1>1 DEF Continues
  <1>6. CountedOf(t)' /\ ("COMMIT" \in sent'[t] => YesesOf(t)' >= 2)
    BY <1>2, <1>3 DEF CountedOf, YesesOf
  <1>7. ASSUME k = t, t \in direct \cap CrossShard
        PROVE  Stage(t)' /\ LeadsTo(t)'
    <2>1. LeadsTo(t) /\ (AsksFirst(t) \/ AsksSecond(t) \/ AsksInVain(t))
      BY <1>1, <1>7, StageFacts
    <2>2. work[t] # << >> /\ work'[t] = << >> /\ at'[t] = "idle"
      BY <1>1, <1>7, ResumeFacts DEF Raise, RInv, TypeOK
    <2>3. Done(t)'
      BY <1>3, <2>1, <2>2 DEF AsksFirst, AsksSecond, AsksInVain, Done
    <2> QED
      BY <1>7, <2>1, <2>2, <2>3, StepsLead DEF Stage
  <1> QED
    BY <1>1, <1>2, <1>3, <1>4, <1>5, <1>6, <1>7, ResumeKeepsInv

(* The end of a broadcast tells the client what was broadcast.             *)
LEMMA BroadcastEndsKeepsInv ==
  ASSUME RInv, NEW k \in Coroutine, BroadcastEnds(k)
  PROVE  RInv'
  <1>1. at[k] \in {"COMMIT", "ABORT", "TIMEOUT"}
    BY DEF BroadcastEnds
  <1>2. PICK t \in Txn : t = Current(k).txn /\ CountedOf(t) /\ ("COMMIT" \in sent[t] => YesesOf(t) >= 2)
    BY <1>1, ResumeFacts
  <1>3. UNCHANGED <<leader_per_cluster, thread, elections, scans, direct, queued, refused, yes, sent>>
    BY DEF BroadcastEnds, counters, history
  <1>4. /\ num_reply_for_2PC' \in {num_reply_for_2PC, [num_reply_for_2PC EXCEPT ![t] = -1]}
        /\ told' \in {told, [told EXCEPT ![t] = Verdict(at[k])]}
        /\ Raise(k) \/ RunOn(k, Tail(work[k]))
    <2>1. at[k] = "COMMIT" => [num_reply_for_2PC EXCEPT ![t] = num_reply_for_2PC[t]] = num_reply_for_2PC
      BY <1>1, ResumeFacts DEF OtherTypes
    <2> QED
      BY <1>2, <2>1 DEF BroadcastEnds
  <1>5. OtherTypes' /\ \A u \in Txn \ {t} : Quiet(u)
    <2>1. OtherTypes
      BY <1>1, ResumeFacts
    <2>2. /\ yes' \in [Txn -> [Cluster -> Nat]] /\ thread' \in ThreadType
          /\ refused' \subseteq Txn /\ scans' \in Nat
      BY <1>3, <2>1 DEF OtherTypes, ThreadType
    <2>3. Verdict(at[k]) \in {"SUCCEED", "ABORTED"}
      BY DEF Verdict
    <2> QED
      BY <1>3, <1>4, <2>1, <2>2, <2>3, WritesKeepTypes
  <1>6. Continues(k)
    BY <1>4 DEF Continues
  <1>7. num_reply_for_2PC'[t] \in {num_reply_for_2PC[t], -1}
    BY <1>1, <1>4, ResumeFacts DEF OtherTypes
  <1>8. CountedOf(t)' /\ ("COMMIT" \in sent'[t] => YesesOf(t)' >= 2)
    <2>1. YesesOf(t)' = YesesOf(t)
      BY <1>3 DEF YesesOf
    <2>2. YesesOf(t) \in Nat
      <3>1. yes \in [Txn -> [Cluster -> Nat]]
        BY <1>1, ResumeFacts DEF OtherTypes
      <3> QED
        BY <3>1, RoutingAssumption DEF YesesOf
    <2> QED
      BY <1>2, <1>3, <1>7, <2>1, <2>2 DEF CountedOf
  <1>9. ASSUME k = t, t \in direct \cap CrossShard
        PROVE  Stage(t)' /\ LeadsTo(t)'
    <2>1. /\ LeadsTo(t) /\ Len(work[t]) \in {1, 2}
          /\ at[t] = "COMMIT" => Commits(t)
          /\ at[t] \in {"ABORT", "TIMEOUT"} => Aborts(t)
      BY <1>1, <1>9, StageFacts
    <2>2. work[t] # << >> /\ Len(Tail(work[t])) = Len(work[t]) - 1 /\ t \in Coroutine /\ TypeOK /\ OtherTypes
      BY <1>1, <1>9, ResumeFacts, WorkFacts DEF RInv
    <2>3. /\ told' = [told EXCEPT ![t] = Verdict(at[t])]
          /\ num_reply_for_2PC' = [num_reply_for_2PC EXCEPT ![t] = IF at[t] = "COMMIT" THEN @ ELSE -1]
          /\ IF at[t] = "TIMEOUT" THEN Raise(t) ELSE RunOn(t, Tail(work[t]))
      BY <1>1, <1>2, <1>9, <2>1 DEF BroadcastEnds, Commits, Aborts
    <2>4. told'[t] = Verdict(at[t]) /\ (at[t] # "COMMIT" => num_reply_for_2PC'[t] = -1)
      BY <2>2, <2>3 DEF OtherTypes
    <2>5. at[t] = "TIMEOUT" => work'[t] = << >> /\ at'[t] = "idle"
      BY <2>2, <2>3 DEF Raise, TypeOK
    <2>6. at[t] # "TIMEOUT" => /\ work'[t] = Tail(work[t])
                               /\ at'[t] = IF Len(work[t]) = 1 THEN "idle" ELSE "response"
      BY <1>9, <2>2, <2>3, RunOnTail
    <2>7. LeadsTo(t)'
      BY <1>9, <2>1, <2>2, <2>5, <2>6, StepsLead
    <2>8. CASE at[t] = "COMMIT"
      <3>1. SaidYes(t)' = SaidYes(t)
        BY <1>3 DEF SaidYes
      <3> QED
        BY <1>3, <2>1, <2>4, <2>6, <2>7, <2>8, <3>1 DEF Commits, Verdict, Done, Stage
    <2>9. CASE at[t] = "ABORT" /\ Len(work[t]) = 2
      <3>1. Len(work'[t]) = 1 /\ at'[t] = "response"
        <4>1. Len(work[t]) = 2 /\ Len(Tail(work[t])) = Len(work[t]) - 1
          BY <2>2, <2>9
        <4>2. work'[t] = Tail(work[t]) /\ at'[t] = IF Len(work[t]) = 1 THEN "idle" ELSE "response"
          BY <2>6, <2>9
        <4> QED
          BY <4>1, <4>2
      <3>2. num_reply_for_2PC'[t] = -1 /\ told'[t] = "ABORTED" /\ sent'[t] = {"ABORT"}
        BY <1>3, <2>1, <2>4, <2>9 DEF Aborts, Verdict
      <3> QED
        BY <2>7, <3>1, <3>2 DEF AsksInVain, Stage
    <2>10. CASE at[t] = "ABORT" /\ Len(work[t]) = 1
      BY <1>3, <2>1, <2>4, <2>6, <2>7, <2>10 DEF Aborts, Verdict, Done, Stage
    <2>11. CASE at[t] = "TIMEOUT"
      BY <1>3, <2>1, <2>4, <2>5, <2>7, <2>11 DEF Aborts, Verdict, Done, Stage
    <2> QED
      BY <1>1, <1>9, <2>1, <2>8, <2>9, <2>10, <2>11
  <1> QED
    BY <1>1, <1>2, <1>3, <1>5, <1>6, <1>8, <1>9, ResumeKeepsInv

-----------------------------------------------------------------------------
(* Requests, heartbeats and the timeout thread.                            *)

(* Of a new request with both leaders known, the first stage.              *)
LEMMA ArriveKeepsInv ==
  ASSUME RInv, NEW t \in Txn, Arrive(t)
  PROVE  RInv'
  <1> DEFINE queue(c) == leader_per_cluster[c] = Unknown
             steps == IF t \in CrossShard
                      THEN <<Step(t, From[t], queue(From[t])), Step(t, To[t], queue(To[t]))>>
                      ELSE <<Step(t, From[t], queue(From[t]))>>
  <1>1. TypeOK /\ Structure /\ CoroutineTypes /\ OtherTypes /\ t \in Coroutine /\ t \notin Flush
    BY FlushFacts, TypeParts DEF RInv, Coroutine
  <1>2. FreshOf(t) /\ CountedOf(t) /\ queued[t] = {} /\ t \notin direct
    BY <1>1 DEF RInv, Sound, Structure, OwnQueues, FreshOf, Arrive
  <1>3. From[t] \in Cluster /\ To[t] \in Cluster
    BY RoutingAssumption
  <1>4. /\ UNCHANGED <<leader_per_cluster, num_reply_for_2PC, thread, told, elections, scans, refused, yes, sent>>
        /\ RunOn(t, steps) /\ at[t] = "new"
        /\ queued' = [queued EXCEPT ![t] = {c \in {steps[i].cluster : i \in DOMAIN steps} : queue(c)}]
        /\ direct' = IF queued'[t] = {} THEN direct \cup {t} ELSE direct
    BY DEF Arrive, counters
  <1>5. /\ steps \in Seq(Steps)
        /\ Own(t, steps) /\ \A i \in DOMAIN steps : steps[i].queue <=> queue(steps[i].cluster)
        /\ t \in CrossShard => Len(steps) = 2 /\ steps[1].cluster = From[t] /\ steps[2].cluster = To[t]
    <2>1. \A c \in Cluster : Step(t, c, queue(c)) \in Steps
      BY DEF Step, Steps
    <2>2. CASE t \in CrossShard
      <3>1. steps = <<Step(t, From[t], queue(From[t])), Step(t, To[t], queue(To[t]))>>
        BY <2>2
      <3>2. From[t] # To[t]
        BY <2>2, RoutingAssumption
      <3> HIDE DEF queue
      <3>3. /\ steps \in Seq(Steps) /\ DOMAIN steps = {1, 2} /\ Len(steps) = 2
            /\ steps[1] = Step(t, From[t], queue(From[t])) /\ steps[2] = Step(t, To[t], queue(To[t]))
        BY <1>3, <2>1, <3>1
      <3> QED
        BY <3>2, <3>3 DEF Step, Own
    <2>3. CASE t \notin CrossShard
      <3>1. steps = <<Step(t, From[t], queue(From[t]))>>
        BY <2>3
      <3> HIDE DEF queue
      <3>2. /\ steps \in Seq(Steps) /\ DOMAIN steps = {1}
            /\ steps[1] = Step(t, From[t], queue(From[t]))
        BY <1>3, <2>1, <3>1
      <3> QED
        BY <2>3, <3>2 DEF Step, Own
    <2> QED
      BY <2>2, <2>3
  <1> HIDE DEF steps
  <1>6. Moves(t, steps)
    BY <1>1, <1>4, <1>5, RunOnMoves DEF OtherTypes
  <1>7. /\ queued'[t] = {c \in {steps[i].cluster : i \in DOMAIN steps} : queue(c)}
        /\ queued' \in [Txn -> SUBSET Cluster] /\ \A u \in Txn \ {t} : queued'[u] = queued[u]
        /\ queued'[t] \subseteq {From[t], To[t]}
    <2> DEFINE q == {c \in {steps[i].cluster : i \in DOMAIN steps} : queue(c)}
    <2>1. q \subseteq {From[t], To[t]} /\ q \in SUBSET Cluster
      BY <1>3, <1>5 DEF Own
    <2>2. queued \in [Txn -> SUBSET Cluster] /\ queued' = [queued EXCEPT ![t] = q]
      BY <1>1, <1>4 DEF OtherTypes
    <2> HIDE DEF q
    <2>3. queued'[t] = q /\ queued' \in [Txn -> SUBSET Cluster] /\ \A u \in Txn \ {t} : queued'[u] = queued[u]
      BY <2>1, <2>2
    <2> QED
      BY <2>1, <2>3 DEF q
  <1>8. Structure' /\ (t \in direct' => \A i \in DOMAIN steps : ~steps[i].queue)
    <2>1. Queues(t, steps, queued'[t])
      BY <1>5, <1>7 DEF Queues
    <2>2. t \in direct' => queued'[t] = {} /\ \A i \in DOMAIN steps : ~steps[i].queue
      BY <1>2, <1>4, <2>1 DEF Queues
    <2>3. \A u \in Txn : queued[u] \subseteq queued'[u] /\ queued'[u] \subseteq {From[u], To[u]}
      BY <1>1, <1>2, <1>7 DEF Structure, OwnQueues
    <2>4. /\ thread' = thread /\ direct \subseteq direct' /\ direct' \subseteq direct \cup {t}
          /\ t \in direct' \ direct => at[t] = "new"
      BY <1>4
    <2> HIDE DEF queue
    <2> QED
      BY <1>1, <1>5, <1>6, <1>7, <2>1, <2>2, <2>3, <2>4, MovesKeepStructure
  <1>9. TypeOK'
    <2>1. CoroutineTypes'
      BY <1>6 DEF Moves
    <2>2. OtherTypes'
      BY <1>1, <1>4, <1>7 DEF OtherTypes
    <2> QED
      BY <2>1, <2>2 DEF TypeOK, CoroutineTypes, OtherTypes, At
  <1>10. ASSUME NEW u \in Txn
         PROVE  Sound(u)'
    <2>1. Sound(u) /\ (u # t => Quiet(u))
      BY <1>4, <1>7 DEF Quiet, RInv
    <2>2. CASE u # t
      <3>1. work'[u] = work[u] /\ at'[u] = at[u] /\ (u \in direct' <=> u \in direct)
        BY <1>4, <1>6, <2>2 DEF Moves, Coroutine
      <3> QED
        BY <2>1, <2>2, <3>1, QuietKeepsSound
    <2>3. CASE u = t
      <3>1. CountedOf(t)' /\ OnceEach(t)' /\ sent'[t] = {} /\ at'[t] # "new"
        BY <1>2, <1>4, <1>6 DEF CountedOf, OnceEach, YesesOf, FreshOf, Moves
      <3>2. ASSUME t \in direct' \cap CrossShard
            PROVE  Stage(t)' /\ LeadsTo(t)'
        <4>1. work'[t] = steps /\ at'[t] = "response"
          <5>1. work'[t] = steps /\ at'[t] = IF steps = << >> THEN "idle" ELSE "response"
            BY <1>1, <1>4, <1>5, <1>8, <3>2, RunOnStraight
          <5>2. Len(steps) = 2
            BY <1>5, <3>2
          <5>3. steps = << >> => Len(steps) = 0
            BY EmptySeq
          <5> QED
            BY <5>1, <5>2, <5>3
        <4>2. AsksFirst(t)'
          BY <1>2, <1>4, <1>5, <3>2, <4>1 DEF AsksFirst, FreshOf
        <4>3. LeadsTo(t)'
          BY <1>5, <3>2, <4>1 DEF LeadsTo, Own
        <4> QED
          BY <4>2, <4>3 DEF Stage
      <3> QED
        BY <2>3, <3>1, <3>2 DEF Sound
    <2> QED
      BY <2>2, <2>3
  <1> QED
    BY <1>8, <1>9, <1>10 DEF RInv

(* The steps of a flush are the requests of the queue.                     *)
StepsOf(q, c) == [i \in DOMAIN q |-> Step(q[i], c, FALSE)]

LEMMA FlushSteps ==
  ASSUME NEW q \in Seq(Txn), NEW c \in Cluster
  PROVE  /\ StepsOf(q, c) \in Seq(Steps)
         /\ \A i \in DOMAIN StepsOf(q, c) :
              /\ ~StepsOf(q, c)[i].queue /\ StepsOf(q, c)[i].cluster = c
              /\ StepsOf(q, c)[i].txn \in Members(q) /\ StepsOf(q, c)[i].txn \in Txn
  <1> DEFINE steps == StepsOf(q, c)
  <1>1. Len(q) \in Nat /\ DOMAIN q = 1 .. Len(q) /\ \A i \in DOMAIN q : q[i] \in Txn
    BY SequenceFacts
  <1>2. steps = [i \in 1 .. Len(q) |-> Step(q[i], c, FALSE)]
    BY <1>1 DEF StepsOf
  <1> HIDE DEF steps
  <1>3. \A i \in 1 .. Len(q) : Step(q[i], c, FALSE) \in Steps
    BY <1>1 DEF Step, Steps
  <1>4. steps \in [1 .. Len(q) -> Steps]
    BY <1>2, <1>3
  <1>5. steps \in Seq(Steps)
    BY <1>1, <1>4, SeqDef
  <1>6. \A i \in DOMAIN steps :
          /\ ~steps[i].queue /\ steps[i].cluster = c
          /\ steps[i].txn \in Members(q) /\ steps[i].txn \in Txn
    BY <1>1, <1>2, <1>5 DEF Step, Members
  <1> QED
    BY <1>5, <1>6 DEF steps

(* A flush takes up queued requests, which are none of the direct ones.    *)
LEMMA HeartBeatKeepsInv ==
  ASSUME RInv, NEW c \in Cluster, NEW m \in Member, HeartBeat(c, m)
  PROVE  RInv'
  <1>1. TypeOK /\ Structure /\ CoroutineTypes /\ OtherTypes
    BY TypeParts DEF RInv
  <1>2. /\ UNCHANGED <<num_reply_for_2PC, thread, told, elections, scans, direct, queued, refused, yes, sent>>
        /\ leader_per_cluster' = [leader_per_cluster EXCEPT ![c] = m]
    BY DEF HeartBeat, counters, history, tables
  <1>3. OtherTypes' /\ leader_per_cluster' \in [Cluster -> Member \cup {Unknown}]
    BY <1>1, <1>2 DEF OtherTypes
  <1>4. /\ CoroutineTypes' /\ Structure'
        /\ \A u \in Txn : work'[u] = work[u] /\ at'[u] = at[u]
    <2>1. CASE UNCHANGED <<tables, coroutine>>
      <3>1. UNCHANGED <<transaction_request, at, work, server, thread, direct>>
        BY <1>2, <2>1 DEF tables, coroutine
      <3>2. CoroutineTypes'
        BY <1>1, <3>1 DEF CoroutineTypes
      <3> QED
        BY <1>1, <1>2, <3>1, <3>2, UnchangedKeepsStructure
    <2>2. CASE ~UNCHANGED <<tables, coroutine>>
      <3> DEFINE steps == StepsOf(transaction_request[c], c)
      <3>1. PICK f \in Flush : at[f] = "idle" /\ RunOn(f, steps)
        BY <2>2 DEF HeartBeat, StepsOf
      <3>2. transaction_request[c] \in Seq(Txn) /\ f \in Coroutine /\ f \notin Txn
        BY <1>1, FlushFacts DEF TypeOK, Coroutine
      <3>3. steps \in Seq(Steps) /\ \A i \in DOMAIN steps :
              /\ ~steps[i].queue /\ steps[i].cluster = c
              /\ steps[i].txn \in Members(transaction_request[c]) /\ steps[i].txn \in Txn
        BY <3>2, FlushSteps
      <3> HIDE DEF steps
      <3>4. Moves(f, steps)
        BY <1>1, <1>3, <3>1, <3>2, <3>3, RunOnMoves
      <3>5. \A i \in DOMAIN steps : steps[i].cluster \in queued[steps[i].txn]
        BY <1>1, <3>3 DEF Structure, Apart, Private
      <3>6. \A u \in Txn : queued[u] \subseteq {From[u], To[u]}
        BY <1>1 DEF Structure, OwnQueues
      <3>7. f \notin direct
        BY <1>1, <3>2 DEF TypeOK
      <3>8. Structure'
        BY <1>1, <1>2, <3>2, <3>3, <3>4, <3>5, <3>6, <3>7, MovesKeepStructure
      <3> QED
        BY <3>2, <3>4, <3>8 DEF Moves, Coroutine
    <2> QED
      BY <2>1, <2>2
  <1>5. ASSUME NEW u \in Txn
        PROVE  Sound(u)'
    <2>1. Quiet(u) /\ Sound(u)
      BY <1>2 DEF Quiet, RInv
    <2> QED
      BY <1>2, <1>4, <2>1, QuietKeepsSound
  <1> QED
    BY <1>3, <1>4, <1>5 DEF RInv, TypeOK, CoroutineTypes, OtherTypes, At

(* What the thread writes at the entries of an old request, and the queue  *)
(* it puts back, concern no direct request.                                *)
LEMMA ThreadKeepsInv ==
  ASSUME RInv, UNCHANGED <<leader_per_cluster, coroutine, elections, direct, queued, refused, yes>>,
         thread' \in ThreadType, scans' \in Nat, transaction_request' \in [Cluster -> Seq(Txn)],
         \A c \in Cluster :
           \/ Members(transaction_request'[c]) \subseteq Members(transaction_request[c])
           \/ thread.cluster = c /\ Members(transaction_request'[c]) \subseteq Members(thread.kept),
         \/ Members(thread'.old) \cup Members(thread'.kept) = {}
         \/ /\ thread'.cluster = thread.cluster
            /\ Members(thread'.old) \cup Members(thread'.kept) \subseteq Members(thread.old) \cup Members(thread.kept)
         \/ \E c \in Cluster :
              /\ thread'.cluster = c
              /\ Members(thread'.old) \cup Members(thread'.kept) \subseteq Members(transaction_request[c]),
         thread'.at = "ABORT" => thread'.old # << >>,
         NEW t, UNCHANGED <<num_reply_for_2PC, told, sent>> \/ t \in Members(thread.old),
         num_reply_for_2PC' \in {num_reply_for_2PC, [num_reply_for_2PC EXCEPT ![t] = -1]},
         NEW what \in {"nothing", "RESULT", "SUCCEED", "ABORTED"}, told' \in {told, [told EXCEPT ![t] = what]},
         sent' \in {sent, [sent EXCEPT ![t] = @ \cup {"ABORT"}]}
  PROVE  RInv'
  <1>1. TypeOK /\ Structure /\ CoroutineTypes /\ OtherTypes /\ UNCHANGED <<at, work, server>>
    BY TypeParts DEF RInv, coroutine
  <1>2. yes' \in [Txn -> [Cluster -> Nat]] /\ refused' \subseteq Txn
    BY <1>1 DEF OtherTypes
  <1>3. OtherTypes' /\ \A u \in Txn \ {t} : Quiet(u)
    <2>1. CASE t \in Txn
      <3>1. /\ UNCHANGED <<leader_per_cluster, elections, direct, queued>> /\ scans' \in Nat
            /\ thread' \in ThreadType /\ -1 \in Int /\ "ABORT" \in {"COMMIT", "ABORT"}
            /\ \A u \in Txn \ {t} : yes'[u] = yes[u]
        OBVIOUS
      <3> QED
        BY <1>1, <1>2, <2>1, <3>1, WritesKeepTypes
    <2>2. CASE t \notin Txn
      <3>1. thread.old \in Seq(Txn)
        BY <1>1 DEF TypeOK
      <3>2. \A u \in Members(thread.old) : u \in Txn
        BY <3>1, SequenceFacts DEF Members
      <3>3. UNCHANGED <<num_reply_for_2PC, told, sent>>
        BY <2>2, <3>2
      <3> QED
        BY <1>1, <1>2, <3>3 DEF OtherTypes, Quiet, ThreadType
    <2> QED
      BY <2>1, <2>2
  <1>4. TypeOK'
    BY <1>1, <1>3 DEF TypeOK, CoroutineTypes, OtherTypes
  <1>5. Structure'
    <2>1. Busy' /\ OwnSteps' /\ OwnQueues' /\ Straight'
      BY <1>1 DEF Structure, Busy, OwnSteps, Own, Queues, OwnQueues, Straight
    <2>2. ASSUME NEW u \in Txn, NEW c \in Cluster, Private(u, c)
          PROVE  Private(u, c)'
      BY <1>1, <2>2 DEF Private
    <2>3. Apart'
      BY <1>1, <2>2 DEF Structure, Apart
    <2>4. Scanning'
      BY <1>1 DEF Structure, Scanning
    <2> QED
      BY <2>1, <2>3, <2>4 DEF Structure
  <1>6. ASSUME NEW u \in Txn
        PROVE  Sound(u)'
    <2>1. Sound(u)
      BY DEF RInv
    <2>2. CASE Quiet(u)
      BY <1>1, <2>1, <2>2, QuietKeepsSound
    <2>3. CASE ~Quiet(u)
      <3>1. u = t /\ t \in Members(thread.old)
        BY <1>3, <2>3 DEF Quiet
      <3>2. at[t] # "new" /\ t \notin direct
        <4>1. thread.cluster \in Cluster
          BY <1>1, <3>1 DEF Structure, Scanning
        <4>2. thread.cluster \in queued[t]
          BY <1>1, <3>1, <4>1 DEF Structure, Apart, Private
        <4> QED
          BY <1>1, <3>1, <4>2 DEF Structure, OwnQueues
      <3>3. num_reply_for_2PC'[t] \in {num_reply_for_2PC[t], -1} /\ ("COMMIT" \in sent'[t] => "COMMIT" \in sent[t])
        BY <1>1 DEF OtherTypes
      <3> QED
        <4>1. YesesOf(t)' = YesesOf(t) /\ YesesOf(t) \in Nat
          BY <1>1, <3>1, RoutingAssumption DEF YesesOf, OtherTypes
        <4>2. CountedOf(t)' /\ OnceEach(t)'
          BY <1>1, <2>1, <3>1, <3>3, <4>1 DEF Sound, CountedOf, OnceEach
        <4> QED
          BY <1>1, <2>1, <3>1, <3>2, <3>3, <4>1, <4>2 DEF Sound
    <2> QED
      BY <2>2, <2>3
  <1> QED
    BY <1>4, <1>5, <1>6 DEF RInv

(* Parts of a queue hold members of the queue.                             *)
LEMMA MembersOfParts ==
  ASSUME NEW q \in Seq(Txn)
  PROVE  /\ \A n \in 0 .. Len(q) :
              /\ SubSeq(q, 1, n) \in Seq(Txn) /\ SubSeq(q, n + 1, Len(q)) \in Seq(Txn)
              /\ Members(SubSeq(q, 1, n)) \subseteq Members(q) /\ Members(SubSeq(q, n + 1, Len(q))) \subseteq Members(q)
         /\ q # << >> => Tail(q) \in Seq(Txn) /\ Members(Tail(q)) \subseteq Members(q) /\ q[1] \in Members(q)
  <1>1. Len(q) \in Nat /\ DOMAIN q = 1 .. Len(q) /\ \A i \in DOMAIN q : q[i] \in Txn
    BY SequenceFacts
  <1>2. ASSUME NEW n \in 0 .. Len(q)
        PROVE  SubSeq(q, n + 1, Len(q)) \in Seq(Txn) /\ Members(SubSeq(q, n + 1, Len(q))) \subseteq Members(q)
    <2> DEFINE r == SubSeq(q, n + 1, Len(q))
    <2>1. r \in Seq(Txn) /\ Len(r) = Len(q) - n /\ \A i \in 1 .. Len(q) - n : i + n \in DOMAIN q /\ r[i] = q[i + n]
      BY SuffixFacts
    <2>2. DOMAIN r = 1 .. Len(q) - n
      BY <2>1, SequenceFacts
    <2> QED
      BY <2>1, <2>2 DEF Members
  <1>3. ASSUME NEW n \in 0 .. Len(q)
        PROVE  SubSeq(q, 1, n) \in Seq(Txn) /\ Members(SubSeq(q, 1, n)) \subseteq Members(q)
    <2> DEFINE r == SubSeq(q, 1, n)
    <2>1. r \in Seq(Txn) /\ Len(r) = n /\ \A i \in 1 .. n : r[i] = q[i]
      BY <1>1, SMT
    <2>2. DOMAIN r = 1 .. n
      BY <2>1, SequenceFacts
    <2> QED
      BY <1>1, <2>1, <2>2 DEF Members
  <1>4. ASSUME q # << >>
        PROVE  Tail(q) \in Seq(Txn) /\ Members(Tail(q)) \subseteq Members(q) /\ q[1] \in Members(q)
    <2>1. Tail(q) \in Seq(Txn) /\ Len(Tail(q)) = Len(q) - 1 /\ \A i \in 1 .. Len(Tail(q)) : Tail(q)[i] = q[i + 1]
      BY <1>4, HeadTailProperties
    <2>2. DOMAIN Tail(q) = 1 .. Len(q) - 1 /\ 1 \in DOMAIN q
      BY <1>4, <2>1, SequenceFacts
    <2> QED
      BY <1>1, <2>1, <2>2 DEF Members
  <1> QED
    BY <1>2, <1>3, <1>4

(* The copy of the queue holds what the queue holds.                       *)
LEMMA ScanBeginsKeepsInv ==
  ASSUME RInv, NEW c \in Cluster, ScanBegins(c)
  PROVE  RInv'
  <1> DEFINE q == transaction_request[c]
  <1>1. q \in Seq(Txn) /\ q # << >> /\ scans' \in Nat /\ transaction_request' \in [Cluster -> Seq(Txn)]
    BY DEF RInv, TypeOK, ScanBegins, tables
  <1>2. PICK n \in 0 .. Len(q) :
          thread' = [at |-> "scan", cluster |-> c, old |-> SubSeq(q, 1, n), kept |-> SubSeq(q, n + 1, Len(q))]
    BY DEF ScanBegins
  <1>3. /\ thread' \in ThreadType /\ thread'.at # "ABORT" /\ thread'.cluster = c
        /\ Members(thread'.old) \cup Members(thread'.kept) \subseteq Members(transaction_request[c])
    BY <1>1, <1>2, MembersOfParts DEF ThreadType
  <1>4. PICK t : TRUE
    OBVIOUS
  <1>5. UNCHANGED <<leader_per_cluster, coroutine, elections, direct, queued, refused, yes, num_reply_for_2PC, told, sent, transaction_request>>
    BY DEF ScanBegins, tables, history
  <1> QED
    BY <1>1, <1>3, <1>4, <1>5, ThreadKeepsInv

(* Types of what the thread writes.                                        *)
LEMMA ThreadFacts ==
  ASSUME RInv
  PROVE  /\ thread \in ThreadType /\ thread.old \in Seq(Txn) /\ thread.kept \in Seq(Txn)
         /\ scans \in Nat /\ transaction_request \in [Cluster -> Seq(Txn)]
         /\ Idle \in ThreadType /\ [Idle EXCEPT !.at = "dead"] \in ThreadType
         /\ Members(Idle.old) = {} /\ Members(Idle.kept) = {}
         /\ Scanning
  <1>1. << >> \in Seq(Txn) /\ Members(<< >>) = {}
    BY EmptySeq DEF Members
  <1> QED
    BY <1>1 DEF RInv, TypeOK, ThreadType, Idle, Structure

(* The thread aborts a request of the queue it copied.                     *)
LEMMA ScanStepKeepsInv ==
  ASSUME RInv, ScanStep
  PROVE  RInv'
  <1>1. PICK t \in Txn : t = thread.old[1] /\ t \in Members(thread.old)
    BY ThreadFacts, MembersOfParts, SequenceFacts DEF ScanStep
  <1>2. /\ UNCHANGED <<leader_per_cluster, transaction_request, num_reply_for_2PC, coroutine, told, elections, scans, direct, queued, refused, yes>>
        /\ sent' \in {sent, [sent EXCEPT ![t] = @ \cup {"ABORT"}]}
    BY <1>1 DEF ScanStep, Broadcast, tables, counters
  <1>3. thread' \in {[thread EXCEPT !.at = "ABORT"], [thread EXCEPT !.at = "scan", !.old = Tail(@)]}
    BY DEF ScanStep, NextOld
  <1>4. Tail(thread.old) \in Seq(Txn) /\ Members(Tail(thread.old)) \subseteq Members(thread.old)
    BY ThreadFacts, MembersOfParts DEF ScanStep
  <1>5. /\ thread' \in ThreadType /\ (thread'.at = "ABORT" => thread'.old # << >>)
        /\ thread'.cluster = thread.cluster
        /\ Members(thread'.old) \cup Members(thread'.kept) \subseteq Members(thread.old) \cup Members(thread.kept)
    BY <1>3, <1>4, ThreadFacts DEF ThreadType, ScanStep
  <1> QED
    BY <1>1, <1>2, <1>5, ThreadFacts, ThreadKeepsInv

(* It notes the abort, or dies.                                            *)
LEMMA ScanAbortedKeepsInv ==
  ASSUME RInv, ScanAborted
  PROVE  RInv'
  <1>1. PICK t \in Txn : t = thread.old[1] /\ t \in Members(thread.old)
    BY ThreadFacts, MembersOfParts, SequenceFacts DEF ScanAborted, Scanning
  <1>2. /\ UNCHANGED <<leader_per_cluster, transaction_request, coroutine, elections, scans, direct, queued, refused, yes, sent>>
        /\ num_reply_for_2PC' \in {num_reply_for_2PC, [num_reply_for_2PC EXCEPT ![t] = -1]}
    BY <1>1 DEF ScanAborted, counters, history
  <1>3. told' \in {told, [told EXCEPT ![t] = "ABORTED"]}
    <2>1. told[t] # "nothing" => [told EXCEPT ![t] = told[t]] = told
      BY DEF RInv, TypeOK
    <2> QED
      BY <1>1, <2>1 DEF ScanAborted, Scanning
  <1>4. thread' \in {[Idle EXCEPT !.at = "dead"], [thread EXCEPT !.at = "scan", !.old = Tail(@)]}
    BY DEF ScanAborted, NextOld
  <1>5. Tail(thread.old) \in Seq(Txn) /\ Members(Tail(thread.old)) \subseteq Members(thread.old)
    BY ThreadFacts, MembersOfParts DEF ScanAborted, Scanning
  <1>6. /\ thread' \in ThreadType /\ thread'.at # "ABORT"
        /\ \/ Members(thread'.old) \cup Members(thread'.kept) = {}
           \/ /\ thread'.cluster = thread.cluster
              /\ Members(thread'.old) \cup Members(thread'.kept) \subseteq Members(thread.old) \cup Members(thread.kept)
    <2>1. /\ [Idle EXCEPT !.at = "dead"].old = Idle.old /\ [Idle EXCEPT !.at = "dead"].kept = Idle.kept
          /\ [Idle EXCEPT !.at = "dead"].at = "dead"
      BY DEF Idle
    <2>2. CASE thread' = [Idle EXCEPT !.at = "dead"]
      BY <2>1, <2>2, ThreadFacts
    <2>3. CASE thread' = [thread EXCEPT !.at = "scan", !.old = Tail(@)]
      BY <1>5, <2>3, ThreadFacts DEF ThreadType
    <2> QED
      BY <1>4, <2>2, <2>3
  <1> QED
    BY <1>1, <1>2, <1>3, <1>6, ThreadFacts, ThreadKeepsInv

(* What it puts back is of the copy.                                       *)
LEMMA ScanEndsKeepsInv ==
  ASSUME RInv, ScanEnds
  PROVE  RInv'
  <1>1. UNCHANGED <<leader_per_cluster, num_reply_for_2PC, coroutine, told, elections, scans, direct, queued, refused, yes, sent>>
    BY DEF ScanEnds, counters, history
  <1>2. thread' = Idle /\ transaction_request' = [transaction_request EXCEPT ![thread.cluster] = thread.kept]
    BY DEF ScanEnds
  <1>3. PICK t : TRUE
    OBVIOUS
  <1>4. Idle.at = "idle"
    BY DEF Idle
  <1>5. /\ transaction_request' \in [Cluster -> Seq(Txn)]
        /\ \A c \in Cluster :
             \/ Members(transaction_request'[c]) \subseteq Members(transaction_request[c])
             \/ thread.cluster = c /\ Members(transaction_request'[c]) \subseteq Members(thread.kept)
    BY <1>2, ThreadFacts
  <1>6. Members(thread'.old) \cup Members(thread'.kept) = {}
    BY <1>2, ThreadFacts
  <1> QED
    BY <1>1, <1>2, <1>3, <1>4, <1>5, <1>6, ThreadFacts, ThreadKeepsInv

-----------------------------------------------------------------------------
(* The invariant of the routing service.                                   *)

(* Nothing has come yet.                                                   *)
LEMMA InitInv == Init => RInv
  <1> SUFFICES ASSUME Init PROVE RInv
    OBVIOUS
  <1>1. << >> \in Seq(Txn) /\ << >> \in Seq(Steps) /\ DOMAIN << >> = {}
    BY EmptySeq
  <1>2. TypeOK
    BY <1>1, RoutingAssumption DEF Init, TypeOK, Idle, Coroutine
  <1>3. Structure
    <2>1. Busy
      BY DEF Init, Busy
    <2>2. OwnSteps /\ OwnQueues /\ Straight
      BY <1>1 DEF Init, OwnSteps, Own, Queues, OwnQueues, Straight, Coroutine
    <2>3. Apart /\ Scanning
      BY <1>1 DEF Init, Apart, Private, Members, Idle, Scanning, Coroutine
    <2> QED
      BY <2>1, <2>2, <2>3 DEF Structure
  <1>4. ASSUME NEW t \in Txn
        PROVE  Sound(t)
    <2>1. /\ From[t] \in Cluster /\ To[t] \in Cluster
          /\ \A c \in Cluster : yes[t][c] = 0
      BY RoutingAssumption DEF Init
    <2> QED
      BY <2>1 DEF Init, Sound, CountedOf, YesesOf, OnceEach, FreshOf
  <1> QED
    BY <1>2, <1>3, <1>4 DEF RInv

(* Every action of the service keeps the invariant.                        *)
LEMMA NextInv == RInv /\ [Next]_vars => RInv'
  <1> SUFFICES ASSUME RInv, [Next]_vars PROVE RInv'
    OBVIOUS
  <1>1. ASSUME NEW t \in Txn, Arrive(t) PROVE RInv'
    BY <1>1, ArriveKeepsInv
  <1>2. ASSUME NEW c \in Cluster, RequestVote(c) PROVE RInv'
    <2>1. /\ UNCHANGED <<transaction_request, num_reply_for_2PC, at, work, server, thread, told, direct, queued, refused, yes, sent>>
          /\ leader_per_cluster' = [leader_per_cluster EXCEPT ![c] = Unknown] /\ elections' = elections + 1 /\ scans' = scans
      BY <1>2 DEF RequestVote, tables, coroutine, history
    <2>2. TypeOK'
      BY <2>1 DEF RInv, TypeOK
    <2>3. Structure'
      BY <2>1, UnchangedKeepsStructure DEF RInv
    <2>4. ASSUME NEW u \in Txn PROVE Sound(u)'
      BY <2>1, QuietKeepsSound DEF RInv, Quiet
    <2> QED
      BY <2>2, <2>3, <2>4 DEF RInv
  <1>3. ASSUME NEW c \in Cluster, NEW m \in Member, HeartBeat(c, m) PROVE RInv'
    BY <1>3, HeartBeatKeepsInv
  <1>4. ASSUME NEW k \in Coroutine, Resumes(k) PROVE RInv'
    BY <1>4, PaymentKeepsInv, SaysYesKeepsInv, AbortKeepsInv, RefusesKeepsInv, BroadcastEndsKeepsInv DEF Resumes
  <1>5. ASSUME Thread PROVE RInv'
    BY <1>5, ScanBeginsKeepsInv, ScanStepKeepsInv, ScanAbortedKeepsInv, ScanEndsKeepsInv DEF Thread
  <1>6. CASE UNCHANGED vars
    <2>1. UNCHANGED <<leader_per_cluster, transaction_request, num_reply_for_2PC, at, work, server, thread, told,
                      elections, scans, direct, queued, refused, yes, sent>>
      BY <1>6 DEF vars, tables, coroutine, counters, history
    <2>2. TypeOK'
      BY <2>1 DEF RInv, TypeOK
    <2>3. Structure'
      BY <2>1, UnchangedKeepsStructure DEF RInv
    <2>4. ASSUME NEW u \in Txn PROVE Sound(u)'
      BY <2>1, QuietKeepsSound DEF RInv, Quiet
    <2> QED
      BY <2>2, <2>3, <2>4 DEF RInv
  <1> QED
    BY <1>1, <1>2, <1>3, <1>4, <1>5, <1>6 DEF Next

(* The inductive invariant: it says where each request may be, which of the*)
(* tables and coroutines of routingservice.py know it, and what has been   *)
(* said, counted, sent and told of it.                                     *)
THEOREM InvHolds == Spec => []RInv
  BY InitInv, NextInv, PTL DEF Spec

(* Every variable keeps its type for every number of clusters, servers,    *)
(* requests and flushes: a redirect always finds a server                  *)
(* (config.py:49-51).                                                      *)
THEOREM TypesAreKept == Spec => []TypeOK
  <1>1. RInv => TypeOK
    BY DEF RInv
  <1> QED
    BY <1>1, InvHolds, PTL

(* COMMIT is broadcast only with the YES of both clusters, or after a      *)
(* cluster in whose queue the transaction had been put said YES to it      *)
(* twice: a cluster that was asked without its queue completes the count   *)
(* only together with the other one, whatever aborts of coroutines and of  *)
(* the timeout thread come between                                         *)
(* (routingservice.py:118-131,203-216,268-291,372-392).                    *)
THEOREM CommitsNeedTwoYes == Spec => []CommitNeedsTwoYes
  <1>1. RInv => CommitNeedsTwoYes
    <2> SUFFICES ASSUME RInv, NEW t \in Txn, "COMMIT" \in sent[t],
                        NEW c \in {From[t], To[t]}, c \notin SaidYes(t)
                 PROVE  \E d \in queued[t] : yes[t][d] >= 2
      BY DEF CommitNeedsTwoYes
    <2>1. From[t] \in Cluster /\ To[t] \in Cluster /\ yes[t] \in [Cluster -> Nat]
      BY RoutingAssumption DEF RInv, TypeOK
    <2>2. yes[t][c] = 0 /\ YesesOf(t) >= 2 /\ OnceEach(t)
      BY <2>1 DEF RInv, Sound, SaidYes
    <2>3. PICK d \in {From[t], To[t]} : yes[t][d] >= 2
      BY <2>1, <2>2 DEF YesesOf
    <2> QED
      BY <2>1, <2>2, <2>3 DEF OnceEach
  <1> QED
    BY <1>1, InvHolds, PTL

(* A cross-shard transaction that found both leaders is never both         *)
(* committed and aborted, is committed only with the YES of both clusters, *)
(* and its client is told what was sent                                    *)
(* (routingservice.py:203-216,243-291).                                    *)
THEOREM DirectsAreAtomic == Spec => []DirectIsAtomic
  <1>1. RInv => DirectIsAtomic
    <2> SUFFICES ASSUME RInv, NEW t \in direct \cap CrossShard
                 PROVE  /\ sent[t] # {"COMMIT", "ABORT"}
                        /\ "COMMIT" \in sent[t] => {From[t], To[t]} \subseteq SaidYes(t)
                        /\ told[t] = "SUCCEED" => sent[t] = {"COMMIT"}
                        /\ told[t] = "ABORTED" => sent[t] = {"ABORT"}
      BY DEF DirectIsAtomic, SaidYes
    <2>1. Stage(t)
      BY DEF RInv, TypeOK, Sound
    <2> QED
      BY <2>1 DEF Stage, AsksFirst, AsksSecond, AsksInVain, Aborts, Commits, Done
  <1> QED
    BY <1>1, InvHolds, PTL

-----------------------------------------------------------------------------
(* The service implements AtomicCommit for the direct transactions.        *)

(* The mapping to AtomicCommit, by what was sent.                          *)
LEMMA OutcomeFacts ==
  ASSUME NEW t
  PROVE  /\ t \notin direct => Outcome(t) = "none" /\ Agreed(t) = {}
         /\ t \in direct => Agreed(t) = SaidYes(t)
         /\ t \in direct /\ sent[t] = {} => Outcome(t) = "none"
         /\ t \in direct /\ sent[t] = {"ABORT"} => Outcome(t) = "ABORT"
         /\ t \in direct /\ sent[t] = {"COMMIT"} => Outcome(t) = "COMMIT"
  BY DEF Outcome, Agreed, Managed, SaidYes

(* The same of the next state.                                             *)
LEMMA OutcomeFactsNext ==
  ASSUME NEW t
  PROVE  /\ t \notin direct' => Outcome(t)' = "none" /\ Agreed(t)' = {}
         /\ t \in direct' => Agreed(t)' = SaidYes(t)'
         /\ t \in direct' /\ sent'[t] = {} => Outcome(t)' = "none"
         /\ t \in direct' /\ sent'[t] = {"ABORT"} => Outcome(t)' = "ABORT"
         /\ t \in direct' /\ sent'[t] = {"COMMIT"} => Outcome(t)' = "COMMIT"
  BY DEF Outcome, Agreed, Managed, SaidYes

Unmoved(u) == Agreed(u)' = Agreed(u) /\ Outcome(u)' = Outcome(u)

(* If nothing moves, AtomicCommit stutters.                                *)
LEMMA UnmovedMaps ==
  ASSUME \A u \in CrossShard : Unmoved(u)
  PROVE  UNCHANGED TwoPhaseCommit!vars
  BY DEF TwoPhaseCommit!vars, Unmoved

(* A YES, perhaps the deciding one, is Agree.                              *)
LEMMA AgreeMaps ==
  ASSUME NEW t \in CrossShard, NEW c \in {From[t], To[t]}, \A u \in CrossShard \ {t} : Unmoved(u),
         Agreed(t)' = Agreed(t) \cup {c},
         \/ Outcome(t)' = Outcome(t)
         \/ {From[t], To[t]} \subseteq Agreed(t)' /\ Outcome(t) = "none" /\ Outcome(t)' = "COMMIT"
  PROVE  TwoPhaseCommit!Next
  <1> DEFINE a == [u \in CrossShard |-> Agreed(u)]
             o == [u \in CrossShard |-> Outcome(u)]
             v == [u \in CrossShard |-> {From[u], To[u]}]
  <1>1. a' = [a EXCEPT ![t] = a[t] \cup {c}]
    BY DEF Unmoved
  <1>2. o' = o \/ (v[t] \subseteq a'[t] /\ o[t] = "none" /\ o' = [o EXCEPT ![t] = "COMMIT"])
    BY DEF Unmoved
  <1>3. c \in v[t]
    OBVIOUS
  <1> QED
    BY <1>1, <1>2, <1>3 DEF TwoPhaseCommit!Next, TwoPhaseCommit!Agree, TwoPhaseCommit!Decide

(* An abort is Abort.                                                      *)
LEMMA AbortMaps ==
  ASSUME NEW t \in CrossShard, \A u \in CrossShard \ {t} : Unmoved(u),
         Agreed(t)' = Agreed(t), Outcome(t) = "none", Outcome(t)' = "ABORT"
  PROVE  TwoPhaseCommit!Next
  <1> DEFINE a == [u \in CrossShard |-> Agreed(u)]
             o == [u \in CrossShard |-> Outcome(u)]
  <1>1. a' = a
    BY DEF Unmoved
  <1>2. o[t] = "none" /\ o' = [o EXCEPT ![t] = "ABORT"]
    BY DEF Unmoved
  <1> QED
    BY <1>1, <1>2 DEF TwoPhaseCommit!Next, TwoPhaseCommit!Abort, TwoPhaseCommit!Decide

(* An action that records nothing new is a stutter.                        *)
LEMMA SilentMaps ==
  ASSUME UNCHANGED <<direct, yes, sent>>
  PROVE  UNCHANGED TwoPhaseCommit!vars
  <1>1. ASSUME NEW u \in CrossShard PROVE Unmoved(u)
    BY DEF Unmoved, Outcome, Agreed, Managed, SaidYes
  <1> QED
    BY <1>1, UnmovedMaps

(* The request of a coroutine that resumes: a direct one is its own.       *)
LEMMA OwnRequest ==
  ASSUME RInv, NEW k \in Coroutine, at[k] = "response"
  PROVE  /\ Current(k).txn \in Txn /\ TypeOK
         /\ Current(k).txn \in direct => Current(k).txn = k
  <1>1. TypeOK /\ Structure
    BY DEF RInv
  <1>2. work[k] # << >> /\ Current(k).txn \in Txn /\ 1 \in DOMAIN work[k]
    BY <1>1, CurrentFacts, WorkFacts
  <1> QED
    BY <1>1, <1>2, CurrentFacts DEF Current

(* A YES to a direct request is Agree; to another one, a stutter.          *)
LEMMA SaysYesMaps ==
  ASSUME RInv, NEW k \in Coroutine, SaysYes(k)
  PROVE  TwoPhaseCommit!Next \/ UNCHANGED TwoPhaseCommit!vars
  <1>1. at[k] = "response" /\ Current(k).txn \in CrossShard
    BY DEF SaysYes, Asks
  <1>2. PICK t \in CrossShard : t = Current(k).txn /\ t \in Txn /\ (t \in direct => t = k)
    BY <1>1, OwnRequest
  <1>3. PICK c \in {From[t], To[t]} : c = Current(k).cluster /\ yes' = [yes EXCEPT ![t][c] = @ + 1]
    BY <1>1, <1>2, CurrentFacts DEF RInv, SaysYes
  <1>4. yes \in [Txn -> [Cluster -> Nat]] /\ c \in Cluster
    BY <1>2, <1>3, RoutingAssumption DEF RInv, TypeOK
  <1>5. /\ direct' = direct
        /\ IF num_reply_for_2PC[t] + 1 = 2 THEN sent' = [sent EXCEPT ![t] = @ \cup {"COMMIT"}] ELSE sent' = sent
    BY <1>2 DEF SaysYes, EnoughYes, Broadcast
  <1>6. sent \in [Txn -> SUBSET {"COMMIT", "ABORT"}]
    BY DEF RInv, TypeOK
  <1>7. ASSUME NEW u \in CrossShard \ {t} PROVE Unmoved(u)
    <2>1. sent'[u] = sent[u]
      <3>1. u \in Txn /\ sent' \in {sent, [sent EXCEPT ![t] = @ \cup {"COMMIT"}]}
        BY <1>5, RoutingAssumption
      <3> QED
        BY <1>6, <1>7, <3>1
    <2>2. SaidYes(u)' = SaidYes(u)
      BY <1>2, <1>3, <1>4, <1>7, RoutingAssumption DEF SaidYes
    <2> QED
      BY <1>5, <2>1, <2>2 DEF Unmoved, Outcome, Agreed, Managed, SaidYes
  <1>8. CASE t \notin direct
    <2>1. Unmoved(t)
      BY <1>5, <1>8, OutcomeFacts, OutcomeFactsNext DEF Unmoved
    <2> QED
      BY <1>7, <2>1, UnmovedMaps
  <1>9. CASE t \in direct
    <2>1. /\ Len(work[t]) = 1 => c = To[t]
          /\ AsksFirst(t) \/ AsksSecond(t) \/ AsksInVain(t)
      BY <1>1, <1>2, <1>3, <1>9, StageFacts
    <2>2. SaidYes(t)' = SaidYes(t) \cup {c}
      <3>1. yes[t] \in [Cluster -> Nat] /\ yes'[t] = [yes[t] EXCEPT ![c] = yes[t][c] + 1]
        BY <1>2, <1>3, <1>4
      <3>2. yes'[t][c] > 0 /\ \A d \in Cluster \ {c} : yes'[t][d] = yes[t][d]
        BY <1>4, <3>1
      <3> QED
        BY <1>4, <3>2 DEF SaidYes
    <2>3. Agreed(t)' = Agreed(t) \cup {c}
      BY <1>5, <1>9, <2>2, OutcomeFacts, OutcomeFactsNext
    <2>4. CASE AsksFirst(t) \/ AsksInVain(t)
      <3>1. sent' = sent /\ sent[t] \in {{}, {"ABORT"}}
        BY <1>5, <2>4 DEF AsksFirst, AsksInVain
      <3>2. Outcome(t)' = Outcome(t)
        BY <1>5, <1>9, <3>1, OutcomeFacts, OutcomeFactsNext
      <3> QED
        BY <1>7, <2>1, <2>3, <3>2, AgreeMaps
    <2>5. CASE AsksSecond(t)
      <3>1. sent[t] = {} /\ sent'[t] = {"COMMIT"} /\ From[t] \in SaidYes(t) /\ c = To[t]
        BY <1>2, <1>5, <1>6, <2>1, <2>5 DEF AsksSecond
      <3>2. Outcome(t) = "none" /\ Outcome(t)' = "COMMIT"
        BY <1>5, <1>9, <3>1, OutcomeFacts, OutcomeFactsNext
      <3>3. {From[t], To[t]} \subseteq Agreed(t)'
        BY <1>5, <1>9, <2>2, <3>1, OutcomeFactsNext
      <3> QED
        BY <1>7, <2>1, <2>3, <3>2, <3>3, AgreeMaps
    <2> QED
      BY <2>1, <2>4, <2>5
  <1> QED
    BY <1>8, <1>9

(* NO, or no answer, is Abort for a direct request that is undecided.      *)
LEMMA AbortStepMaps ==
  ASSUME RInv, NEW k \in Coroutine, SaysNo(k) \/ TimesOut(k)
  PROVE  TwoPhaseCommit!Next \/ UNCHANGED TwoPhaseCommit!vars
  <1>1. at[k] = "response" /\ Current(k).txn \in CrossShard
    BY DEF SaysNo, TimesOut, Asks
  <1>2. PICK t \in CrossShard : t = Current(k).txn /\ t \in Txn /\ (t \in direct => t = k)
    BY <1>1, OwnRequest
  <1>3. /\ UNCHANGED <<direct, yes>>
        /\ IF num_reply_for_2PC[t] # -1 THEN sent' = [sent EXCEPT ![t] = @ \cup {"ABORT"}] ELSE sent' = sent
    BY <1>2 DEF SaysNo, TimesOut, Broadcast
  <1>4. sent \in [Txn -> SUBSET {"COMMIT", "ABORT"}]
    BY DEF RInv, TypeOK
  <1>5. ASSUME NEW u \in CrossShard \ {t} PROVE Unmoved(u)
    <2>1. sent'[u] = sent[u]
      <3>1. u \in Txn /\ sent' \in {sent, [sent EXCEPT ![t] = @ \cup {"ABORT"}]}
        BY <1>3, RoutingAssumption
      <3> QED
        BY <1>4, <1>5, <3>1
    <2> QED
      BY <1>3, <2>1 DEF Unmoved, Outcome, Agreed, Managed, SaidYes
  <1>6. CASE t \notin direct
    <2>1. Unmoved(t)
      BY <1>3, <1>6, OutcomeFacts, OutcomeFactsNext DEF Unmoved
    <2> QED
      BY <1>5, <2>1, UnmovedMaps
  <1>7. CASE t \in direct
    <2>1. AsksFirst(t) \/ AsksSecond(t) \/ AsksInVain(t)
      BY <1>1, <1>2, <1>7, StageFacts
    <2>2. CASE AsksFirst(t) \/ AsksSecond(t)
      <3>1. sent[t] = {} /\ sent'[t] = {"ABORT"}
        BY <1>2, <1>3, <1>4, <2>2 DEF AsksFirst, AsksSecond
      <3>2. Outcome(t) = "none" /\ Outcome(t)' = "ABORT"
        BY <1>3, <1>7, <3>1, OutcomeFacts, OutcomeFactsNext
      <3>3. Agreed(t)' = Agreed(t)
        BY <1>3 DEF Agreed, Managed, SaidYes
      <3> QED
        BY <1>5, <3>2, <3>3, AbortMaps
    <2>3. CASE AsksInVain(t)
      <3>1. sent' = sent
        BY <1>3, <2>3 DEF AsksInVain
      <3> QED
        BY <1>3, <3>1, SilentMaps
    <2> QED
      BY <2>1, <2>2, <2>3
  <1> QED
    BY <1>6, <1>7

(* A new request has no past, and the thread aborts no direct request.     *)
LEMMA ArriveMaps ==
  ASSUME RInv, NEW t \in Txn, Arrive(t)
  PROVE  UNCHANGED TwoPhaseCommit!vars
  <1>1. UNCHANGED <<yes, sent>> /\ direct \subseteq direct' /\ direct' \subseteq direct \cup {t}
    BY DEF Arrive
  <1>2. FreshOf(t)
    BY DEF RInv, Sound, Arrive
  <1>3. ASSUME NEW u \in CrossShard PROVE Unmoved(u)
    <2>1. CASE u # t
      BY <1>1, <2>1 DEF Unmoved, Outcome, Agreed, Managed, SaidYes
    <2>2. CASE u = t
      <3>1. SaidYes(t)' = {} /\ sent'[t] = {} /\ t \notin direct
        BY <1>1, <1>2 DEF FreshOf, SaidYes
      <3> QED
        BY <2>2, <3>1, OutcomeFacts, OutcomeFactsNext DEF Unmoved
    <2> QED
      BY <2>1, <2>2
  <1> QED
    BY <1>3, UnmovedMaps

LEMMA ScanStepMaps ==
  ASSUME RInv, ScanStep
  PROVE  UNCHANGED TwoPhaseCommit!vars
  <1>1. PICK t \in Txn : t = thread.old[1] /\ t \in Members(thread.old)
    BY ThreadFacts, MembersOfParts, SequenceFacts DEF ScanStep
  <1>2. t \notin direct
    <2>1. thread.cluster \in Cluster
      BY <1>1 DEF RInv, Structure, Scanning
    <2> QED
      BY <1>1, <2>1 DEF RInv, Structure, OwnQueues, Apart, Private
  <1>3. UNCHANGED <<direct, yes>> /\ sent' \in {sent, [sent EXCEPT ![t] = @ \cup {"ABORT"}]}
    BY <1>1 DEF ScanStep, Broadcast
  <1>4. ASSUME NEW u \in CrossShard PROVE Unmoved(u)
    <2>1. CASE u = t
      BY <1>2, <1>3, <2>1, OutcomeFacts, OutcomeFactsNext DEF Unmoved
    <2>2. CASE u # t
      <3>1. sent'[u] = sent[u]
        BY <1>3, <2>2, RoutingAssumption DEF RInv, TypeOK
      <3> QED
        BY <1>3, <3>1 DEF Unmoved, Outcome, Agreed, Managed, SaidYes
    <2> QED
      BY <2>1, <2>2
  <1> QED
    BY <1>4, UnmovedMaps

(* Two-phase commit as the service runs it implements AtomicCommit for the *)
(* transactions that found both leaders                                    *)
(* (routingservice.py:203-216,243-291).                                    *)
THEOREM ServiceImplementsAtomicCommit == Spec => ImplementsAtomicCommit
  <1>1. Init => TwoPhaseCommit!Init
    <2> SUFFICES ASSUME Init PROVE TwoPhaseCommit!Init
      OBVIOUS
    <2>1. direct = {}
      BY DEF Init
    <2>2. \A t \in CrossShard : Agreed(t) = {} /\ Outcome(t) = "none"
      BY <2>1, OutcomeFacts
    <2> QED
      BY <2>2 DEF TwoPhaseCommit!Init
  <1>2. RInv /\ [Next]_vars => [TwoPhaseCommit!Next]_TwoPhaseCommit!vars
    <2> SUFFICES ASSUME RInv, [Next]_vars
                 PROVE  TwoPhaseCommit!Next \/ UNCHANGED TwoPhaseCommit!vars
      OBVIOUS
    <2>1. ASSUME NEW t \in Txn, Arrive(t) PROVE UNCHANGED TwoPhaseCommit!vars
      BY <2>1, ArriveMaps
    <2>2. ASSUME NEW c \in Cluster, RequestVote(c) \/ \E m \in Member : HeartBeat(c, m)
          PROVE  UNCHANGED TwoPhaseCommit!vars
      <3>1. UNCHANGED <<direct, yes, sent>>
        BY <2>2 DEF RequestVote, HeartBeat, history
      <3> QED
        BY <3>1, SilentMaps
    <2>3. ASSUME NEW k \in Coroutine, SaysYes(k) \/ SaysNo(k) \/ TimesOut(k)
          PROVE  TwoPhaseCommit!Next \/ UNCHANGED TwoPhaseCommit!vars
      BY <2>3, SaysYesMaps, AbortStepMaps
    <2>4. ASSUME NEW k \in Coroutine, PaymentAnswered(k) \/ PaymentTimesOut(k) \/ Refuses(k) \/ BroadcastEnds(k)
          PROVE  UNCHANGED TwoPhaseCommit!vars
      <3>1. UNCHANGED <<direct, yes, sent>>
        BY <2>4 DEF PaymentAnswered, PaymentTimesOut, Refuses, BroadcastEnds, history
      <3> QED
        BY <3>1, SilentMaps
    <2>5. ASSUME Thread PROVE UNCHANGED TwoPhaseCommit!vars
      <3>1. CASE ScanStep
        BY <3>1, ScanStepMaps
      <3>2. CASE (\E c \in Cluster : ScanBegins(c)) \/ ScanAborted \/ ScanEnds
        <4>1. UNCHANGED <<direct, yes, sent>>
          BY <3>2 DEF ScanBegins, ScanAborted, ScanEnds, history
        <4> QED
          BY <4>1, SilentMaps
      <3> QED
        BY <2>5, <3>1, <3>2 DEF Thread
    <2>6. CASE UNCHANGED vars
      <3>1. UNCHANGED <<direct, yes, sent>>
        BY <2>6 DEF vars, history
      <3> QED
        BY <3>1, SilentMaps
    <2> QED
      BY <2>1, <2>2, <2>3, <2>4, <2>5, <2>6 DEF Next, Resumes
  <1> QED
    BY <1>1, <1>2, InvHolds, PTL DEF Spec, ImplementsAtomicCommit, TwoPhaseCommit!Spec

=============================================================================
