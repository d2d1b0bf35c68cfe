--------------------------- MODULE RaftLogProofs ---------------------------
(***************************************************************************)
(* What the operations of RaftLog return, for every log.                   *)
(***************************************************************************)
EXTENDS RaftLog, FiniteSetTheorems, TLAPS

(* A set that the elements of D add to has at most as many more.           *)
LEMMA CardinalityOfImage ==
  ASSUME NEW S, IsFiniteSet(S), NEW D, IsFiniteSet(D), NEW f, f = [d \in D |-> f[d]],
         NEW T, \A y \in T : y \in S \/ \E d \in D : y = f[d]
  PROVE  IsFiniteSet(T) /\ Cardinality(T) <= Cardinality(S) + Cardinality(D)
  <1> DEFINE R == {f[d] : d \in D}
  <1>1. f \in Surjection(D, R)
    BY DEF Surjection
  <1>2. T \subseteq S \cup R
    OBVIOUS
  <1> HIDE DEF R
  <1>3. IsFiniteSet(R) /\ Cardinality(R) <= Cardinality(D)
    BY <1>1, FS_Surjection
  <1>4. /\ IsFiniteSet(S \cup R) /\ IsFiniteSet(S \cap R)
        /\ Cardinality(S \cup R) = Cardinality(S) + Cardinality(R) - Cardinality(S \cap R)
    BY <1>3, FS_Union, FS_Intersection
  <1>5. IsFiniteSet(T) /\ Cardinality(T) <= Cardinality(S \cup R)
    BY <1>2, <1>4, FS_Subset
  <1>6. /\ Cardinality(S \cap R) \in Nat /\ Cardinality(S) \in Nat /\ Cardinality(R) \in Nat
        /\ Cardinality(D) \in Nat /\ Cardinality(T) \in Nat
    BY <1>3, <1>4, <1>5, FS_CardinalityType
  <1> QED
    BY <1>3, <1>4, <1>5, <1>6

-----------------------------------------------------------------------------
(* The log.                                                                *)

LEMMA LogIsFinite ==
  ASSUME NEW lg \in Seq(Entry)
  PROVE  IsFiniteSet(DOMAIN lg)
  <1>1. DOMAIN lg = 1 .. Len(lg) /\ Len(lg) \in Int
    OBVIOUS
  <1> QED
    BY <1>1, FS_Interval

(* An executor appends a well-formed entry at the end: the log stays a     *)
(* sequence of entries and grows by one (intraShardExecutor.cpp:41).       *)
LEMMA AppendedType ==
  ASSUME NEW lg \in Seq(Entry), NEW term \in Nat \cup {-1}, NEW kind \in Kind,
         NEW t \in Txn, NEW wait \in BOOLEAN
  PROVE  /\ Appended(lg, term, kind, t, wait) \in Seq(Entry)
         /\ Len(Appended(lg, term, kind, t, wait)) = Len(lg) + 1
  <1> DEFINE e == [term |-> term, index |-> Len(lg), kind |-> kind, id |-> t, wait |-> wait]
  <1>1. e \in Entry
    BY DEF Entry
  <1>2. Appended(lg, term, kind, t, wait) = Append(lg, e)
    BY DEF Appended
  <1> QED
    BY <1>1, <1>2

(* An entry stays an entry without its connection.                         *)
LEMMA WithoutFdType ==
  ASSUME NEW e \in Entry
  PROVE  WithoutFd(e) \in Entry /\ WithoutFd(e).index = e.index
  BY DEF Entry, WithoutFd

(* An AppendEntries message carries entries (aIOServer.cpp:93).            *)
LEMMA SliceType ==
  ASSUME NEW lg \in Seq(Entry), NEW from \in Int
  PROVE  Slice(lg, from) \in Seq(Entry)
  <1>1. CASE from < 0 \/ from >= Len(lg)
    BY <1>1 DEF Slice
  <1>2. CASE from >= 0 /\ from < Len(lg)
    <2>1. \A k \in 1 .. Len(lg) - from : WithoutFd(lg[from + k]) \in Entry
      BY <1>2, WithoutFdType
    <2> QED
      BY <1>2, <2>1 DEF Slice
  <1> QED
    BY <1>1, <1>2

(* Merging leaves a log (appendEntriesExecutor.cpp:35).                    *)
LEMMA MergeType ==
  ASSUME NEW lg \in Seq(Entry), NEW prevlogindex \in Int, NEW prevlogterm,
         NEW entries \in Seq(Entry), Matches(lg, prevlogindex, prevlogterm)
  PROVE  Merge(lg, prevlogindex, entries) \in Seq(Entry)
  <1> DEFINE base    == prevlogindex + 1
             last    == base + Len(entries)
             kept(p) == \A q \in base + 1 .. p : q <= Len(lg) /\ lg[q].term = entries[q - base].term
             new(p)  == IF kept(p) THEN lg[p] ELSE entries[p - base]
  <1>1. base \in Int /\ last \in Int /\ base <= Len(lg)
    BY DEF Matches
  <1>2. CASE kept(last)
    BY <1>2 DEF Merge
  <1>3. CASE ~kept(last)
    <2>1. Merge(lg, prevlogindex, entries) = [p \in 1 .. last |-> new(p)]
      BY <1>3 DEF Merge
    <2>2. ASSUME NEW p \in 1 .. last PROVE new(p) \in Entry
      <3>1. CASE kept(p)
        <4>1. p <= Len(lg)
          BY <1>1, <3>1
        <4> QED
          BY <3>1, <4>1, <1>1
      <3>2. CASE ~kept(p)
        <4>1. p > base
          BY <1>1, <3>2
        <4>2. p - base \in 1 .. Len(entries)
          BY <1>1, <4>1
        <4> QED
          BY <3>2, <4>2
      <3> QED
        BY <3>1, <3>2
    <2> HIDE DEF new
    <2>3. CASE last < 0
      <3>1. 1 .. last = 1 .. 0
        BY <2>3, <1>1
      <3> QED
        BY <2>1, <2>2, <3>1
    <2>4. CASE last >= 0
      BY <2>1, <2>2, <2>4, <1>1
    <2> QED
      BY <2>3, <2>4, <1>1
  <1> QED
    BY <1>2, <1>3

(* Answering the waiting clients changes no entry but for its connection   *)
(* (appendEntriesExecutor.cpp:107,126).                                    *)
LEMMA AnsweredType ==
  ASSUME NEW lg \in Seq(Entry), NEW P
  PROVE  /\ Answered(lg, P) \in Seq(Entry)
         /\ Len(Answered(lg, P)) = Len(lg)
         /\ \A p \in DOMAIN lg : Answered(lg, P)[p].index = lg[p].index
  <1>1. \A p \in DOMAIN lg : WithoutFd(lg[p]) \in Entry
    BY WithoutFdType
  <1>2. \A p \in DOMAIN lg : lg[p] \in Entry
    OBVIOUS
  <1>3. \A p \in DOMAIN lg : WithoutFd(lg[p]).index = lg[p].index
    BY WithoutFdType
  <1>4. DOMAIN lg = 1 .. Len(lg) /\ Len(lg) \in Nat
    OBVIOUS
  <1> QED
    BY <1>1, <1>2, <1>3, <1>4 DEF Answered

(* Payments at positions of an interval leave a balance table              *)
(* (appendEntriesExecutor.cpp:62,110).                                     *)
LEMMA ApplyPaymentsType ==
  ASSUME NEW bal \in [Account -> Int], NEW lg, NEW i \in Int, NEW j \in Int,
         NEW P \in SUBSET (i .. j)
  PROVE  ApplyPayments(bal, lg, P) \in [Account -> Int]
  <1>1. IsFiniteSet(P \X (1 .. MaxAmount))
    <2>1. IsFiniteSet(1 .. MaxAmount)
      BY FS_Interval, TxnAssumption
    <2>2. IsFiniteSet(P)
      BY FS_Interval, FS_Subset
    <2> QED
      BY <2>1, <2>2, FS_Product
  <1>2. ASSUME NEW a \in Account PROVE PaidOut(lg, P, a) \in Nat /\ PaidIn(lg, P, a) \in Nat
    BY <1>1, FS_Subset, FS_CardinalityType DEF PaidOut, PaidIn
  <1> QED
    BY <1>2 DEF ApplyPayments

(* The money of one transaction (crossShardExecutor.cpp:102).              *)
LEMMA TransferType ==
  ASSUME NEW bal \in [Account -> Int], NEW t \in Txn
  PROVE  Transfer(bal, t) \in [Account -> Int]
  BY TxnAssumption DEF Transfer, Debit, Credit

-----------------------------------------------------------------------------
(* Counting units of money.                                                *)

LEMMA UnitsFinite ==
  ASSUME NEW P, IsFiniteSet(P), NEW Z \in SUBSET (P \X (1 .. MaxAmount))
  PROVE  IsFiniteSet(Z) /\ Cardinality(Z) \in Nat
  <1>1. IsFiniteSet(1 .. MaxAmount)
    BY FS_Interval, TxnAssumption
  <1>2. IsFiniteSet(P \X (1 .. MaxAmount))
    BY <1>1, FS_Product
  <1> QED
    BY <1>2, FS_Subset, FS_CardinalityType

(* The units of two sets of payments that share none add up.               *)
LEMMA UnitsAddUp ==
  ASSUME NEW P, IsFiniteSet(P), NEW Q, IsFiniteSet(Q), P \cap Q = {},
         NEW Y \in SUBSET (P \X (1 .. MaxAmount)), NEW Z \in SUBSET (Q \X (1 .. MaxAmount))
  PROVE  Cardinality(Y \cup Z) = Cardinality(Y) + Cardinality(Z)
  <1>1. Y \cap Z = {}
    OBVIOUS
  <1>2. IsFiniteSet(Y) /\ Cardinality(Y) \in Nat /\ IsFiniteSet(Z) /\ Cardinality(Z) \in Nat
    BY UnitsFinite
  <1>3. /\ Cardinality(Y \cup Z) = Cardinality(Y) + Cardinality(Z) - Cardinality(Y \cap Z)
        /\ Cardinality(Y \cap Z) = 0
    BY <1>1, <1>2, FS_Union, FS_EmptySet
  <1> QED
    BY <1>2, <1>3

(* One payment of n units.                                                 *)
LEMMA UnitsOfOne ==
  ASSUME NEW x, NEW n \in Nat
  PROVE  IsFiniteSet({x} \X (1 .. n)) /\ Cardinality({x} \X (1 .. n)) = n
  <1>1. IsFiniteSet(1 .. n) /\ Cardinality(1 .. n) = n
    BY FS_Interval
  <1>2. IsFiniteSet({x}) /\ Cardinality({x}) = 1
    BY FS_Singleton
  <1>3. IsFiniteSet({x} \X (1 .. n)) /\ Cardinality({x} \X (1 .. n)) = 1 * n
    BY <1>1, <1>2, FS_Product
  <1> QED
    BY <1>3

LEMMA DebitType ==
  ASSUME NEW t \in Txn, NEW a
  PROVE  Debit(t, a) \in 0 .. MaxAmount /\ Credit(t, a) \in 0 .. MaxAmount
  BY TxnAssumption DEF Debit, Credit

(* What payments take out and put in, counted over finitely many           *)
(* positions.                                                              *)
LEMMA PaidType ==
  ASSUME NEW lg, NEW P, IsFiniteSet(P), NEW a
  PROVE  PaidOut(lg, P, a) \in Nat /\ PaidIn(lg, P, a) \in Nat
  <1> DEFINE out == {u \in P \X (1 .. MaxAmount) :
                       lg[u[1]].kind = "PAY" /\ u[2] <= Debit(lg[u[1]].id, a)}
             in  == {u \in P \X (1 .. MaxAmount) :
                       lg[u[1]].kind = "PAY" /\ u[2] <= Credit(lg[u[1]].id, a)}
  <1>1. out \in SUBSET (P \X (1 .. MaxAmount)) /\ in \in SUBSET (P \X (1 .. MaxAmount))
    OBVIOUS
  <1> HIDE DEF out, in
  <1>2. Cardinality(out) \in Nat /\ Cardinality(in) \in Nat
    BY <1>1, UnitsFinite
  <1> QED
    BY <1>2 DEF PaidOut, PaidIn, out, in

(* Committing in two steps pays as much as committing at once.             *)
LEMMA PaidAddsUp ==
  ASSUME NEW lg, NEW P, IsFiniteSet(P), NEW Q, IsFiniteSet(Q), P \cap Q = {}, NEW a
  PROVE  /\ PaidOut(lg, P \cup Q, a) = PaidOut(lg, P, a) + PaidOut(lg, Q, a)
         /\ PaidIn(lg, P \cup Q, a) = PaidIn(lg, P, a) + PaidIn(lg, Q, a)
  <1> DEFINE N == 1 .. MaxAmount
             out(S) == {u \in S \X N : lg[u[1]].kind = "PAY" /\ u[2] <= Debit(lg[u[1]].id, a)}
             in(S) == {u \in S \X N : lg[u[1]].kind = "PAY" /\ u[2] <= Credit(lg[u[1]].id, a)}
             S == P \cup Q
  <1>1. /\ out(P) \in SUBSET (P \X N) /\ out(Q) \in SUBSET (Q \X N) /\ out(S) = out(P) \cup out(Q)
        /\ in(P) \in SUBSET (P \X N) /\ in(Q) \in SUBSET (Q \X N) /\ in(S) = in(P) \cup in(Q)
    OBVIOUS
  <1>2. /\ PaidOut(lg, S, a) = Cardinality(out(S))
        /\ PaidOut(lg, P, a) = Cardinality(out(P)) /\ PaidOut(lg, Q, a) = Cardinality(out(Q))
        /\ PaidIn(lg, S, a) = Cardinality(in(S))
        /\ PaidIn(lg, P, a) = Cardinality(in(P)) /\ PaidIn(lg, Q, a) = Cardinality(in(Q))
    BY DEF PaidOut, PaidIn
  <1> HIDE DEF out, in
  <1>3. Cardinality(out(P) \cup out(Q)) = Cardinality(out(P)) + Cardinality(out(Q))
    BY <1>1, UnitsAddUp
  <1>4. Cardinality(in(P) \cup in(Q)) = Cardinality(in(P)) + Cardinality(in(Q))
    BY <1>1, UnitsAddUp
  <1> QED
    BY <1>1, <1>2, <1>3, <1>4

(* Only the commands of the entries matter.                                *)
LEMMA PaidByCommands ==
  ASSUME NEW lg, NEW new, NEW P, \A p \in P : new[p].kind = lg[p].kind /\ new[p].id = lg[p].id,
         NEW a
  PROVE  PaidOut(new, P, a) = PaidOut(lg, P, a) /\ PaidIn(new, P, a) = PaidIn(lg, P, a)
  <1> DEFINE N == 1 .. MaxAmount
  <1>1. \A u \in P \X N : new[u[1]].kind = lg[u[1]].kind /\ new[u[1]].id = lg[u[1]].id
    OBVIOUS
  <1> HIDE DEF N
  <1>2. {u \in P \X N : new[u[1]].kind = "PAY" /\ u[2] <= Debit(new[u[1]].id, a)}
          = {u \in P \X N : lg[u[1]].kind = "PAY" /\ u[2] <= Debit(lg[u[1]].id, a)}
    BY <1>1
  <1>3. {u \in P \X N : new[u[1]].kind = "PAY" /\ u[2] <= Credit(new[u[1]].id, a)}
          = {u \in P \X N : lg[u[1]].kind = "PAY" /\ u[2] <= Credit(lg[u[1]].id, a)}
    BY <1>1
  <1> QED
    BY <1>2, <1>3 DEF PaidOut, PaidIn, N

(* Where one payment at most has a as its sender, no more than that is     *)
(* taken out of a, and nothing where none has.                             *)
LEMMA PaidByOne ==
  ASSUME NEW lg, NEW P, NEW a, NEW p \in P, lg[p].id \in Txn,
         \A q \in P \ {p} : lg[q].kind = "PAY" => Sender[lg[q].id] # a,
         \A q \in P : lg[q].id \in Txn
  PROVE  PaidOut(lg, P, a) <= Amount[lg[p].id]
  <1> DEFINE out == {u \in P \X (1 .. MaxAmount) :
                       lg[u[1]].kind = "PAY" /\ u[2] <= Debit(lg[u[1]].id, a)}
             n   == Amount[lg[p].id]
  <1>1. n \in Nat /\ n <= MaxAmount /\ MaxAmount \in Nat
    BY TxnAssumption
  <1>2. out \subseteq {p} \X (1 .. n)
    BY <1>1 DEF Debit
  <1> HIDE DEF n
  <1>3. IsFiniteSet({p} \X (1 .. n)) /\ Cardinality({p} \X (1 .. n)) = n
    BY <1>1, UnitsOfOne
  <1>4. Cardinality(out) <= Cardinality({p} \X (1 .. n))
    <2> HIDE DEF out
    <2> QED
      BY <1>2, <1>3, FS_Subset
  <1>5. PaidOut(lg, P, a) <= n
    BY <1>1, <1>3, <1>4 DEF PaidOut
  <1> QED
    BY <1>5 DEF n

LEMMA PaidByNone ==
  ASSUME NEW lg, NEW P, NEW a, \A q \in P : lg[q].kind = "PAY" => Sender[lg[q].id] # a
  PROVE  PaidOut(lg, P, a) = 0
  <1>1. {u \in P \X (1 .. MaxAmount) :
           lg[u[1]].kind = "PAY" /\ u[2] <= Debit(lg[u[1]].id, a)} = {}
    BY TxnAssumption DEF Debit
  <1> QED
    BY <1>1, FS_EmptySet DEF PaidOut

LEMMA PaidNothing ==
  ASSUME NEW lg, NEW P, P = {}, NEW a
  PROVE  PaidOut(lg, P, a) = 0 /\ PaidIn(lg, P, a) = 0
  <1>1. /\ {u \in P \X (1 .. MaxAmount) :
             lg[u[1]].kind = "PAY" /\ u[2] <= Debit(lg[u[1]].id, a)} = {}
        /\ {u \in P \X (1 .. MaxAmount) :
             lg[u[1]].kind = "PAY" /\ u[2] <= Credit(lg[u[1]].id, a)} = {}
    OBVIOUS
  <1> QED
    BY <1>1, FS_EmptySet DEF PaidOut, PaidIn

=============================================================================
