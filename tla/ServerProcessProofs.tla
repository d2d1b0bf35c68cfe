------------------------ MODULE ServerProcessProofs -------------------------
(***************************************************************************)
(* Proofs about the server processes: types and the limit of descriptors,  *)
(* that a server is brought down only by a death, and that sockets between *)
(* servers leak only when a server fails.                                  *)
(***************************************************************************)
EXTENDS Functions, ServerProcessProperties, FiniteSetTheorems, TLAPS

Connection ==
  [from : Server \cup {Outside}, to : Server, msg : Messages,
   near : {"connect", "write", "read", "leaked", "closed"},
   far : {"none", "backlog", "read", "write", "leaked", "done", "fin", "rst"}]

CountersTyped ==
  /\ no_response \in [Server -> Nat] /\ req_fd \in [Server -> Nat] /\ lost \in [Server -> Nat]
  /\ exits \in 0 .. N /\ sent \in 0 .. MaxSent /\ killed \in 0 .. MaxKilled
  /\ pretend_fail \in [Server -> BOOLEAN]
  /\ troubled \subseteq Server

(* TypeOK but for the limit of descriptors.                                *)
Typed ==
  /\ process \in [Server -> {"unborn", "running", "exited", "fatal", "killed"}]
  /\ accepting \in [Server -> BOOLEAN]
  /\ CountersTyped
  /\ IsABag(conns)
  /\ DOMAIN conns \subseteq Connection

(* Only a process that runs has ends of connections, and accepts; none     *)
(* connects to itself.                                                     *)
OpenEnd(c) ==
  /\ c.from # c.to
  /\ c.near # "closed" => c.from \in Server /\ Alive(c.from)
  /\ c.far \in {"backlog", "read", "write", "leaked"} => Alive(c.to)

OpenEnds ==
  /\ \A c \in DOMAIN conns : OpenEnd(c)
  /\ \A s \in Server : accepting[s] => Alive(s)

Base == Typed /\ IsFiniteSet(DOMAIN conns) /\ OpenEnds

(* A broken connection, or an empty message, is left by a process that     *)
(* ended; and only that makes another one fatal.                           *)
Died == killed > 0 \/ \E s \in Server : process[s] = "exited"

Broken(c) == c.far \in {"fin", "rst"} \/ c.msg = "nothing"

BrokenByADeath ==
  (\E c \in DOMAIN conns : Broken(c)) \/ (\E s \in Server : process[s] = "fatal") => Died

(* What goes wrong on a connection between servers shows one in trouble.   *)
PeerSound(c) ==
  c.from \in Server =>
    /\ c.msg \in {"request", "nothing"}
    /\ c.near = "leaked" => c.from \in troubled \/ c.to \in troubled
    /\ c.far \in {"leaked", "fin", "rst"} => c.to \in troubled

TroubleIsKnown ==
  /\ \A s \in Server : pretend_fail[s] => s \in troubled
  /\ \A c \in DOMAIN conns : PeerSound(c)

-----------------------------------------------------------------------------
(* Bags.                                                                   *)

LEMMA OneMore ==
  ASSUME NEW B, IsABag(B), NEW e
  PROVE  /\ IsABag(BagAdd(B, e))
         /\ DOMAIN BagAdd(B, e) = DOMAIN B \cup {e}
         /\ BagAdd(B, e)[e] = IF e \in DOMAIN B THEN B[e] + 1 ELSE 1
         /\ \A x \in DOMAIN B \ {e} : BagAdd(B, e)[x] = B[x]
  BY DEF IsABag, BagAdd

LEMMA OneLess ==
  ASSUME NEW B, IsABag(B), NEW e \in DOMAIN B
  PROVE  /\ IsABag(BagRemove(B, e))
         /\ DOMAIN BagRemove(B, e) = IF B[e] = 1 THEN DOMAIN B \ {e} ELSE DOMAIN B
         /\ B[e] # 1 => BagRemove(B, e)[e] = B[e] - 1
         /\ \A x \in DOMAIN B \ {e} : BagRemove(B, e)[x] = B[x]
  BY DEF IsABag, BagRemove

LEMMA AllMore ==
  ASSUME NEW B, IsABag(B), NEW S
  PROVE  /\ IsABag(B (+) SetToBag(S))
         /\ DOMAIN (B (+) SetToBag(S)) = DOMAIN B \cup S
         /\ \A x \in DOMAIN B \ S : (B (+) SetToBag(S))[x] = B[x]
         /\ \A x \in S : (B (+) SetToBag(S))[x] = IF x \in DOMAIN B THEN B[x] + 1 ELSE 1
  <1> DEFINE A == B (+) SetToBag(S)
  <1>1. A = [x \in DOMAIN B \cup S |-> (IF x \in DOMAIN B THEN B[x] ELSE 0) + (IF x \in S THEN 1 ELSE 0)]
    BY DEF SetToBag, (+)
  <1>2. \A x \in DOMAIN B : B[x] \in Nat /\ B[x] > 0
    BY DEF IsABag
  <1>3. \A x \in DOMAIN B \cup S : A[x] \in Nat /\ A[x] > 0
    BY <1>1, <1>2
  <1> HIDE DEF A
  <1>4. IsABag(A)
    BY <1>1, <1>3 DEF IsABag
  <1>5. /\ DOMAIN A = DOMAIN B \cup S
        /\ \A x \in DOMAIN B \ S : A[x] = B[x]
        /\ \A x \in S : A[x] = IF x \in DOMAIN B THEN B[x] + 1 ELSE 1
    BY <1>1, <1>2
  <1> QED
    BY <1>4, <1>5 DEF A

(* What is left when a connection becomes another one.                     *)
LEMMA AfterIsABag ==
  ASSUME IsABag(conns), NEW c \in DOMAIN conns, NEW d
  PROVE  IsABag(After(c, d)) /\ DOMAIN After(c, d) \subseteq DOMAIN conns \cup {d}
  <1> DEFINE R == BagRemove(conns, c)
  <1>1. IsABag(R) /\ DOMAIN R \subseteq DOMAIN conns
    BY OneLess
  <1>2. IsABag(BagAdd(R, d)) /\ DOMAIN BagAdd(R, d) = DOMAIN R \cup {d}
    BY <1>1, OneMore
  <1> HIDE DEF R
  <1>3. After(c, d) = IF Over(d) THEN R ELSE BagAdd(R, d)
    BY DEF After, R
  <1> QED
    BY <1>1, <1>2, <1>3

-----------------------------------------------------------------------------
(* Counting.                                                               *)

LEMMA NatSize ==
  ASSUME NEW S, IsFiniteSet(S)
  PROVE  Cardinality(S) \in Nat
  BY FS_CardinalityType

LEMMA FewerInto ==
  ASSUME NEW S, IsFiniteSet(S), NEW T, IsFiniteSet(T), NEW f \in [S -> T],
         \A a, b \in S : f[a] = f[b] => a = b
  PROVE  Cardinality(S) <= Cardinality(T)
  <1> SUFFICES ASSUME ~(Cardinality(S) <= Cardinality(T)) PROVE FALSE
    OBVIOUS
  <1>1. Cardinality(T) < Cardinality(S)
    BY NatSize
  <1> QED
    BY <1>1, FS_PigeonHole

LEMMA Numbering ==
  ASSUME NEW S, IsFiniteSet(S)
  PROVE  \E f \in [1 .. Cardinality(S) -> S] :
           \A a, b \in 1 .. Cardinality(S) : f[a] = f[b] => a = b
  BY FS_CardinalityType DEF ExistsBijection, Bijection, Injection, IsInjective

LEMMA UnionOfImageIsFinite ==
  ASSUME NEW S, IsFiniteSet(S), NEW f, f = [c \in S |-> f[c]], \A c \in S : IsFiniteSet(f[c]),
         NEW U, \A u \in U : \E c \in S : u \in f[c]
  PROVE  IsFiniteSet(U)
  <1> DEFINE R == {f[c] : c \in S}
  <1>1. f \in Surjection(S, R)
    BY DEF Surjection
  <1>2. \A T \in R : IsFiniteSet(T)
    OBVIOUS
  <1>3. U \subseteq UNION R
    OBVIOUS
  <1> HIDE DEF R
  <1>4. IsFiniteSet(R)
    BY <1>1, FS_Surjection
  <1>5. IsFiniteSet(UNION R)
    BY <1>2, <1>4, FS_UNION
  <1> QED
    BY <1>3, <1>5, FS_Subset

(* The copies in bag B, of which Copies gives those of conns.              *)
NumberedIn(B, S) == UNION {{c} \X (1 .. B[c]) : c \in S}

LEMMA CopyOf ==
  ASSUME NEW B, NEW S
  PROVE  /\ \A c \in S : \A i \in 1 .. B[c] : <<c, i>> \in NumberedIn(B, S)
         /\ \A u \in NumberedIn(B, S) : \E c \in S : \E i \in 1 .. B[c] : u = <<c, i>>
  BY DEF NumberedIn

LEMMA FewCopies ==
  ASSUME NEW B, IsABag(B), NEW S \in SUBSET DOMAIN B, IsFiniteSet(S)
  PROVE  IsFiniteSet(NumberedIn(B, S)) /\ Cardinality(NumberedIn(B, S)) \in Nat
  <1> DEFINE f == [c \in S |-> {c} \X (1 .. B[c])]
  <1>1. \A c \in S : IsFiniteSet(f[c])
    <2> TAKE c \in S
    <2>1. B[c] \in Nat
      BY DEF IsABag
    <2>2. IsFiniteSet({c})
      BY FS_Singleton
    <2>3. IsFiniteSet(1 .. B[c])
      BY <2>1, FS_Interval
    <2> QED
      BY <2>2, <2>3, FS_Product
  <1>2. \A u \in NumberedIn(B, S) : \E c \in S : u \in f[c]
    BY CopyOf
  <1>3. f = [c \in S |-> f[c]]
    OBVIOUS
  <1> HIDE DEF f
  <1>4. IsFiniteSet(NumberedIn(B, S))
    BY <1>1, <1>2, <1>3, UnionOfImageIsFinite
  <1> QED
    BY <1>4, NatSize

-----------------------------------------------------------------------------
(* What a step does to connections and processes.                          *)

Open == {"read", "write", "leaked"}

(* The sockets to the outside that s has.                                  *)
Kept(s) == no_response[s] + req_fd[s] + lost[s]

(* A connection goes on: no end is opened but by Accept, and only a death  *)
(* breaks it.                                                              *)
Moves(c, d) ==
  /\ d \in Connection /\ d.from = c.from /\ d.to = c.to /\ d.msg = c.msg
  /\ d.near # "closed" => c.near # "closed"
  /\ d.far \in {"backlog"} \cup Open => Alive(c.to)
  /\ d.far \in {"fin", "rst"} => d.far = c.far
  /\ d.far \in Open => c.far \in Open \/ Free(c.to) >= 1

AcceptsLess == accepting' \in [Server -> BOOLEAN] /\ \A s \in Server : accepting'[s] => accepting[s]

(* A socket is kept beside the connections when its far end is given up.   *)
KeepsCount(c, d) ==
  \A t \in Server :
    Kept(t)' <= Kept(t) \/ (t = c.to /\ c.far \in Open /\ d.far \notin Open /\ Kept(t)' <= Kept(t) + 1)

Advances(c, d) ==
  Becomes(c, d) /\ Moves(c, d) /\ process' = process /\ AcceptsLess /\ KeepsCount(c, d)

Stands ==
  conns' = conns /\ process' = process /\ AcceptsLess /\ \A t \in Server : Kept(t)' <= Kept(t)

Sends(s) ==
  /\ \E msg \in Messages : Send(s, msg) /\ (msg = "nothing" => killed' > 0)
  /\ process' = process /\ accepting' = accepting /\ UNCHANGED outward

Dies(s) ==
  /\ Alive(s)
  /\ \/ Ended(s, "exited")
     \/ Ended(s, "killed") /\ killed' > 0
     \/ Ended(s, "fatal") /\ \E c \in DOMAIN conns : Broken(c)

(* A broadcast leaves from the connections there are, or from those left   *)
(* by the response before it.                                              *)
LeavesFrom(s, B, free) ==
  \/ B = conns /\ free = Free(s)
  \/ /\ free = Free(s) + 1
     /\ \E c \in DOMAIN conns : \E d :
          /\ B = After(c, d) /\ Moves(c, d)
          /\ c.from = s /\ c.near # "closed" /\ d.near = "closed" /\ d.far = c.far

Broadcasts(s) ==
  /\ Alive(s)
  /\ \E B, free : LeavesFrom(s, B, free) /\ Broadcast(s, B, free)
  /\ process' = process /\ accepting' = accepting /\ UNCHANGED <<req_fd, lost>>

LEMMA KeptIsANumber ==
  ASSUME Base
  PROVE  \A t \in Server : Kept(t) \in Nat
  BY DEF Base, Typed, CountersTyped, Kept

LEMMA CountsAreNaturals ==
  ASSUME Base, NEW S \in SUBSET DOMAIN conns
  PROVE  Count(S) = Cardinality(NumberedIn(conns, S)) /\ Count(S) \in Nat
  <1>1. IsABag(conns) /\ IsFiniteSet(S)
    BY FS_Subset DEF Base, Typed
  <1>2. Count(S) = Cardinality(NumberedIn(conns, S))
    BY DEF Count, Copies, NumberedIn
  <1> QED
    BY <1>1, <1>2, FewCopies

LEMMA FreeIsANumber ==
  ASSUME Base, NEW s \in Server
  PROVE  Fds(s) \in Nat /\ Free(s) \in Int /\ Free(s) = MaxFds - Fds(s) /\ MaxFds \in Nat
  <1>1. NearEnds(s) \cup FarEnds(s) \in SUBSET DOMAIN conns
    BY DEF NearEnds, FarEnds
  <1>2. Count(NearEnds(s) \cup FarEnds(s)) \in Nat
    BY <1>1, CountsAreNaturals
  <1>3. Fds(s) \in Nat
    BY <1>2 DEF Fds, Base, Typed, CountersTyped
  <1>4. MaxFds \in Nat
    BY ProcessAssumption
  <1> QED
    BY <1>3, <1>4 DEF Free

LEMMA NothingTaken ==
  ASSUME Base, UNCHANGED outward
  PROVE  \A t \in Server : Kept(t)' <= Kept(t)
  <1>1. \A t \in Server : Kept(t)' = Kept(t)
    BY DEF Kept, outward
  <1> QED
    BY <1>1, KeptIsANumber

LEMMA NearKinds ==
  ASSUME Base, NEW c \in DOMAIN conns, Near(c)
  PROVE  (\E d : Advances(c, d)) \/ (\E s \in Server : Dies(s) \/ Broadcasts(s))
  <1>1. c \in Connection /\ OpenEnd(c)
    BY DEF Base, Typed, OpenEnds
  <1>2. accepting' = accepting => AcceptsLess
    BY DEF Base, Typed, AcceptsLess
  <1>3. UNCHANGED outward => \A d : KeepsCount(c, d)
    BY NothingTaken DEF KeepsCount
  <1>4. CASE Connected(c)
    <2> DEFINE d == [c EXCEPT !.near = "write", !.far = "backlog"]
    <2>1. Moves(c, d)
      BY <1>1, <1>4 DEF Moves, Connection, Connected, Open
    <2>2. Advances(c, d)
      BY <1>2, <1>3, <1>4, <2>1 DEF Advances, Connected
    <2> QED
      BY <2>2
  <1>5. CASE Refused(c)
    <2> DEFINE d == [c EXCEPT !.near = "leaked"]
    <2>1. Moves(c, d)
      BY <1>1, <1>5 DEF Moves, Connection, Refused, OpenEnd, Open
    <2>2. Advances(c, d)
      BY <1>2, <1>3, <1>5, <2>1 DEF Advances, Refused
    <2> QED
      BY <2>2
  <1>6. CASE Written(c)
    <2> DEFINE d == [c EXCEPT !.near = IF c.far \in {"fin", "rst"} THEN "leaked" ELSE "read"]
    <2>1. Moves(c, d)
      BY <1>1, <1>6 DEF Moves, Connection, Written, OpenEnd, Open
    <2>2. Advances(c, d)
      BY <1>2, <1>3, <1>6, <2>1 DEF Advances, Written
    <2> QED
      BY <2>2
  <1>7. CASE ReadResponse(c)
    <2> DEFINE s == c.from
               d == AfterResponse(c)
    <2>1. Moves(c, d) /\ d.far = c.far /\ (~pretend_fail[s] => d.near = "closed")
      BY <1>1, <1>7 DEF Moves, Connection, ReadResponse, AfterResponse, OpenEnd, Open
    <2>2. s \in Server /\ Alive(s) /\ c.near = "read"
      BY <1>1, <1>7 DEF ReadResponse, OpenEnd
    <2>3. CASE /\ Becomes(c, AfterResponse(c))
               /\ \E n \in IF pretend_fail[s] THEN {0} ELSE 0 .. req_fd[s] :
                    /\ req_fd' = [req_fd EXCEPT ![s] = @ - n]
                    /\ no_response' = [no_response EXCEPT ![s] = @ + n]
      <3>0. req_fd[s] \in Nat
        BY <2>2 DEF Base, Typed, CountersTyped
      <3>1. PICK n \in IF pretend_fail[s] THEN {0} ELSE 0 .. req_fd[s] :
              /\ req_fd' = [req_fd EXCEPT ![s] = @ - n]
              /\ no_response' = [no_response EXCEPT ![s] = @ + n]
        BY <2>3
      <3>2. lost' = lost
        BY <1>7 DEF ReadResponse
      <3>3. n \in Nat
        BY <3>0, <3>1
      <3>4. \A t \in Server : Kept(t)' = Kept(t)
        BY <2>2, <3>1, <3>2, <3>3 DEF Base, Typed, CountersTyped, Kept
      <3>5. KeepsCount(c, d)
        BY <3>4, KeptIsANumber DEF KeepsCount
      <3>6. Advances(c, d)
        BY <1>2, <1>7, <2>1, <2>3, <3>5 DEF Advances, ReadResponse
      <3> QED
        BY <3>6
    <2>4. CASE /\ ~pretend_fail[s]
               /\ Broadcast(s, After(c, AfterResponse(c)), Free(s) + 1)
               /\ UNCHANGED req_fd
      <3>1. LeavesFrom(s, After(c, d), Free(s) + 1)
        BY <2>1, <2>2, <2>4 DEF LeavesFrom
      <3>2. Broadcasts(s)
        BY <1>7, <2>2, <2>4, <3>1 DEF Broadcasts, ReadResponse
      <3> QED
        BY <2>2, <3>2
    <2> QED
      BY <1>7, <2>3, <2>4 DEF ReadResponse
  <1>8. CASE ReadEnd(c)
    <2>1. CASE c.far = "fin" /\ ~pretend_fail[c.from]
      <3>1. Ended(c.from, "fatal") /\ Broken(c)
        BY <1>8, <2>1 DEF ReadEnd, Broken
      <3>2. c.from \in Server /\ Alive(c.from)
        BY <1>1, <1>8 DEF ReadEnd, OpenEnd
      <3> QED
        BY <3>1, <3>2 DEF Dies
    <2>2. CASE ~(c.far = "fin" /\ ~pretend_fail[c.from])
      <3> DEFINE d == [c EXCEPT !.near = "leaked"]
      <3>1. Moves(c, d)
        BY <1>1, <1>8 DEF Moves, Connection, ReadEnd, OpenEnd, Open
      <3>2. Advances(c, d)
        BY <1>2, <1>3, <1>8, <2>2, <3>1 DEF Advances, ReadEnd
      <3> QED
        BY <3>2
    <2> QED
      BY <2>1, <2>2
  <1> QED
    BY <1>4, <1>5, <1>6, <1>7, <1>8 DEF Near

LEMMA ReadKinds ==
  ASSUME Base, NEW c \in DOMAIN conns, Read(c)
  PROVE  (\E d : Advances(c, d)) \/ (\E s \in Server : Dies(s))
  <1>1. c \in Connection /\ OpenEnd(c) /\ c.to \in Server
    BY DEF Base, Typed, OpenEnds, Connection
  <1>2. accepting' = accepting => AcceptsLess
    BY DEF Base, Typed, AcceptsLess
  <1>3. c.far = "read" /\ Alive(c.to)
    BY <1>1 DEF Read, ReadCommand, ReadExit, ReadRequest, ReadOutside, ReadNothing, Drop, Readable, OpenEnd
  <1>4. CountersTyped
    BY DEF Base, Typed
  <1>5. \A d : (\A t \in Server : Kept(t)' = Kept(t)) => KeepsCount(c, d)
    BY KeptIsANumber DEF KeepsCount
  <1>6. ASSUME NEW d, d.far = "done",
               \A t \in Server : Kept(t)' = IF t = c.to THEN Kept(t) + 1 ELSE Kept(t)
        PROVE  KeepsCount(c, d)
    BY <1>3, <1>6, KeptIsANumber DEF KeepsCount, Open
  <1>7. ASSUME ReturnEarly(c), process' = process, accepting' = accepting, UNCHANGED <<no_response, req_fd>>
        PROVE  \E d : Advances(c, d)
    <2>1. CASE c.from = Outside
      <3> DEFINE d == [c EXCEPT !.far = "done"]
      <3>1. Moves(c, d) /\ d.far = "done"
        BY <1>1, <1>3 DEF Moves, Connection, Open
      <3>2. lost' = [lost EXCEPT ![c.to] = @ + 1] /\ Becomes(c, d)
        BY <1>7, <2>1 DEF ReturnEarly
      <3>3. \A t \in Server : Kept(t)' = IF t = c.to THEN Kept(t) + 1 ELSE Kept(t)
        BY <1>1, <1>4, <1>7, <3>2 DEF CountersTyped, Kept
      <3> HIDE DEF d
      <3>4. Advances(c, d)
        BY <1>2, <1>6, <1>7, <3>1, <3>2, <3>3 DEF Advances
      <3> QED
        BY <3>4
    <2>2. CASE c.from # Outside
      <3> DEFINE d == [c EXCEPT !.far = "leaked"]
      <3>1. Moves(c, d)
        BY <1>1, <1>3 DEF Moves, Connection, Open
      <3>2. lost' = lost /\ Becomes(c, d)
        BY <1>7, <2>2 DEF ReturnEarly
      <3>3. \A t \in Server : Kept(t)' = Kept(t)
        BY <1>7, <3>2 DEF Kept
      <3>4. Advances(c, d)
        BY <1>2, <1>5, <1>7, <3>1, <3>2, <3>3 DEF Advances
      <3> QED
        BY <3>4
    <2> QED
      BY <2>1, <2>2
  <1>8. CASE ReadCommand(c)
    BY <1>7, <1>8 DEF ReadCommand
  <1>9. CASE ReadExit(c)
    BY <1>1, <1>3, <1>9 DEF ReadExit, Dies
  <1>10. CASE ReadRequest(c)
    <2> DEFINE d == [c EXCEPT !.far = "write"]
    <2>1. Moves(c, d)
      BY <1>1, <1>3 DEF Moves, Connection, Open
    <2>2. PICK n \in 0 .. req_fd[c.to] :
            /\ req_fd' = [req_fd EXCEPT ![c.to] = @ - n]
            /\ lost' = [lost EXCEPT ![c.to] = @ + n]
      BY <1>10 DEF ReadRequest
    <2>3. n \in Nat
      BY <1>1, <1>4 DEF CountersTyped
    <2>4. no_response' = no_response
      BY <1>10 DEF ReadRequest
    <2>5. \A t \in Server : Kept(t)' = Kept(t)
      BY <1>1, <1>4, <2>2, <2>3, <2>4 DEF CountersTyped, Kept
    <2>6. Advances(c, d)
      BY <1>2, <1>5, <1>10, <2>1, <2>5 DEF Advances, ReadRequest
    <2> QED
      BY <2>6
  <1>11. CASE ReadOutside(c)
    <2> DEFINE d == [c EXCEPT !.far = "done"]
    <2>1. Moves(c, d) /\ d.far = "done"
      BY <1>1, <1>3 DEF Moves, Connection, Open
    <2>2. \/ no_response' = [no_response EXCEPT ![c.to] = @ + 1] /\ UNCHANGED <<req_fd, lost>>
          \/ req_fd' = [req_fd EXCEPT ![c.to] = @ + 1] /\ UNCHANGED <<no_response, lost>>
          \/ lost' = [lost EXCEPT ![c.to] = @ + 1] /\ UNCHANGED <<no_response, req_fd>>
      BY <1>11 DEF ReadOutside
    <2>3. \A t \in Server : Kept(t)' = IF t = c.to THEN Kept(t) + 1 ELSE Kept(t)
      BY <1>1, <1>4, <2>2 DEF CountersTyped, Kept
    <2>4. Becomes(c, d) /\ process' = process /\ accepting' = accepting
      BY <1>11 DEF ReadOutside
    <2> HIDE DEF d
    <2>5. Advances(c, d)
      BY <1>2, <1>6, <2>1, <2>3, <2>4 DEF Advances
    <2> QED
      BY <2>5
  <1>12. CASE ReadNothing(c)
    BY <1>1, <1>3, <1>12 DEF ReadNothing, Dies, Broken
  <1>13. CASE Drop(c)
    BY <1>7, <1>13 DEF Drop
  <1> QED
    BY <1>8, <1>9, <1>10, <1>11, <1>12, <1>13 DEF Read

LEMMA FarKinds ==
  ASSUME Base, NEW c \in DOMAIN conns, Far(c)
  PROVE  (\E d : Advances(c, d)) \/ (\E s \in Server : Dies(s))
  <1>1. c \in Connection /\ OpenEnd(c) /\ c.to \in Server
    BY DEF Base, Typed, OpenEnds, Connection
  <1>2. accepting' = accepting => AcceptsLess
    BY DEF Base, Typed, AcceptsLess
  <1>3. UNCHANGED outward => \A d : KeepsCount(c, d)
    BY NothingTaken DEF KeepsCount
  <1>4. CASE Accept(c)
    <2> DEFINE d == [c EXCEPT !.far = "read"]
               b == Free(c.to) - 1 > 0
    <2>1. Free(c.to) >= 1
      BY <1>1, <1>4, FreeIsANumber DEF Accept
    <2>2. Moves(c, d)
      BY <1>1, <1>4, <2>1 DEF Moves, Connection, Accept, OpenEnd, Open
    <2>3. accepting \in [Server -> BOOLEAN] /\ accepting[c.to]
      BY <1>4 DEF Base, Typed, Accept
    <2>4. b \in BOOLEAN
      OBVIOUS
    <2>5. accepting' = [accepting EXCEPT ![c.to] = b]
      BY <1>4 DEF Accept, Accepts
    <2> HIDE DEF b
    <2>6. AcceptsLess
      BY <2>3, <2>4, <2>5 DEF AcceptsLess
    <2>7. Advances(c, d)
      BY <1>3, <1>4, <2>2, <2>6 DEF Advances, Accept
    <2> QED
      BY <2>7
  <1>5. CASE Read(c)
    BY <1>5, ReadKinds
  <1>6. CASE Responded(c)
    <2> DEFINE d == [c EXCEPT !.far = "done"]
    <2>1. Moves(c, d)
      BY <1>1, <1>6 DEF Moves, Connection, Responded, Open
    <2>2. Advances(c, d)
      BY <1>2, <1>3, <1>6, <2>1 DEF Advances, Responded
    <2> QED
      BY <2>2
  <1> QED
    BY <1>4, <1>5, <1>6 DEF Far

LEMMA StepKinds ==
  ASSUME Base, Next
  PROVE  \/ \E c \in DOMAIN conns : \E d : Advances(c, d)
         \/ \E s \in Server : Dies(s) \/ Sends(s) \/ Start(s) \/ Broadcasts(s)
         \/ Stands
  <1>1. accepting' = accepting => AcceptsLess
    BY DEF Base, Typed, AcceptsLess
  <1>2. ASSUME NEW s \in Server, AcceptFails(s)
        PROVE  Stands
    <2>1. accepting \in [Server -> BOOLEAN] /\ accepting' = [accepting EXCEPT ![s] = FALSE]
      BY <1>2 DEF AcceptFails, Accepts, Base, Typed
    <2>2. AcceptsLess
      BY <2>1 DEF AcceptsLess
    <2> QED
      BY <1>2, <2>2, NothingTaken DEF AcceptFails, Stands
  <1>3. ASSUME NEW s \in Server, Parted(s)
        PROVE  Stands
    <2>1. /\ no_response[s] > 0 /\ no_response' = [no_response EXCEPT ![s] = @ - 1]
          /\ lost' = lost \/ lost' = [lost EXCEPT ![s] = @ + 1]
          /\ req_fd' = req_fd
      BY <1>3 DEF Parted
    <2>2. \A t \in Server : Kept(t)' <= Kept(t)
      BY <2>1 DEF Kept, Base, Typed, CountersTyped
    <2> QED
      BY <1>1, <1>3, <2>2 DEF Parted, Stands
  <1>4. ASSUME NEW s \in Server, Timeout(s)
        PROVE  Broadcasts(s)
    BY <1>4 DEF Timeout, Broadcasts, LeavesFrom
  <1>5. ASSUME NEW s \in Server, NEW msg \in {"request", "Stop", "Resume"}, Message(s, msg)
        PROVE  Sends(s)
    BY <1>5 DEF Message, Sends, Messages, outward
  <1>6. ASSUME NEW s \in Server, SenderKilled(s)
        PROVE  Sends(s)
    <2>1. killed' > 0
      BY <1>6 DEF SenderKilled, Base, Typed, CountersTyped
    <2> QED
      BY <1>6, <2>1 DEF SenderKilled, Sends, Messages, outward
  <1>7. ASSUME ExitCommand
        PROVE  Stands \/ \E s \in Server : Sends(s)
    <2>1. exits \in Server
      BY <1>7, ProcessAssumption DEF ExitCommand, Base, Typed, CountersTyped, Server
    <2>2. UNCHANGED outward /\ process' = process /\ accepting' = accepting
      BY <1>7 DEF ExitCommand, outward
    <2>3. CASE Send(exits, "Exit")
      BY <2>1, <2>2, <2>3 DEF Sends, Messages
    <2>4. CASE conns' = conns
      BY <1>1, <2>2, <2>4, NothingTaken DEF Stands
    <2> QED
      BY <1>7, <2>3, <2>4 DEF ExitCommand
  <1>8. ASSUME NEW s \in Server, Killed(s)
        PROVE  Dies(s)
    <2>1. killed' > 0
      BY <1>8 DEF Killed, Base, Typed, CountersTyped
    <2> QED
      BY <1>8, <2>1 DEF Killed, Dies
  <1>9. ASSUME NEW c \in DOMAIN conns, Near(c) \/ Far(c)
        PROVE  (\E d : Advances(c, d)) \/ (\E s \in Server : Dies(s) \/ Broadcasts(s))
    BY <1>9, NearKinds, FarKinds
  <1> QED
    BY <1>2, <1>3, <1>4, <1>5, <1>6, <1>7, <1>8, <1>9 DEF Next

LEMMA ClosedShape ==
  ASSUME NEW s, NEW c \in Connection, c.from # c.to
  PROVE  /\ Closed(s, c) \in Connection
         /\ Closed(s, c).from = c.from /\ Closed(s, c).to = c.to
         /\ Closed(s, c).near = IF c.from = s THEN "closed" ELSE c.near
         /\ c.to # s => Closed(s, c).far = c.far
         /\ c.to = s => \/ Closed(s, c).far \in {"rst", "fin"}
                        \/ Closed(s, c).far = c.far /\ c.far \notin {"backlog", "read", "write", "leaked"}
  <1>1. CASE c.from = s
    BY <1>1 DEF Closed, Connection, Messages
  <1>2. CASE c.from # s /\ c.to # s
    <2>1. Closed(s, c) = c
      BY <1>2 DEF Closed
    <2> QED
      BY <1>2, <2>1
  <1>3. CASE c.from # s /\ c.to = s
    <2>1. CASE CutShort(c)
      <3>1. Closed(s, c) = [c EXCEPT !.far = "rst"]
        BY <1>3, <2>1 DEF Closed
      <3> QED
        BY <1>3, <3>1 DEF Connection
    <2>2. CASE ~CutShort(c) /\ c.far \in {"read", "write", "leaked"}
      <3>1. Closed(s, c) = [c EXCEPT !.far = "fin"]
        BY <1>3, <2>2 DEF Closed
      <3> QED
        BY <1>3, <3>1 DEF Connection
    <2>3. CASE ~CutShort(c) /\ c.far \notin {"read", "write", "leaked"}
      <3>1. Closed(s, c) = c
        BY <1>3, <2>3 DEF Closed
      <3> QED
        BY <1>3, <2>3, <3>1 DEF CutShort
    <2> QED
      BY <2>1, <2>2, <2>3
  <1> QED
    BY <1>1, <1>2, <1>3

LEMMA EndedLeaves ==
  ASSUME Base, NEW s \in Server, NEW how, Ended(s, how)
  PROVE  /\ IsABag(conns') /\ IsFiniteSet(DOMAIN conns')
         /\ \A d \in DOMAIN conns' :
              /\ conns'[d] = Count({c \in DOMAIN conns : Closed(s, c) = d})
              /\ ~Over(d)
              /\ \E c \in DOMAIN conns : d = Closed(s, c)
  <1> DEFINE F(d) == {c \in DOMAIN conns : Closed(s, c) = d}
             D == {x \in {Closed(s, c) : c \in DOMAIN conns} : ~Over(x)}
             f == [c \in DOMAIN conns |-> Closed(s, c)]
             R == {Closed(s, c) : c \in DOMAIN conns}
  <1>1. conns' = [d \in D |-> Count(F(d))]
    BY DEF Ended
  <1>2. IsABag(conns) /\ IsFiniteSet(DOMAIN conns)
    BY DEF Base, Typed
  <1>3. IsFiniteSet(D)
    <2>1. f \in Surjection(DOMAIN conns, R)
      BY DEF Surjection
    <2>2. D \subseteq R
      OBVIOUS
    <2> HIDE DEF f, R, D
    <2>3. IsFiniteSet(R)
      BY <1>2, <2>1, FS_Surjection
    <2> QED
      BY <2>2, <2>3, FS_Subset
  <1>4. ASSUME NEW d \in D
        PROVE  Count(F(d)) \in Nat /\ Count(F(d)) > 0
    <2>1. PICK c \in DOMAIN conns : Closed(s, c) = d
      OBVIOUS
    <2>2. F(d) \in SUBSET DOMAIN conns /\ c \in F(d)
      BY <2>1
    <2> HIDE DEF F
    <2>3. Count(F(d)) \in Nat /\ Count(F(d)) = Cardinality(NumberedIn(conns, F(d)))
      BY <2>2, CountsAreNaturals
    <2>4. conns[c] \in Nat /\ conns[c] > 0
      BY <1>2 DEF IsABag
    <2>5. <<c, 1>> \in NumberedIn(conns, F(d))
      BY <2>2, <2>4, CopyOf
    <2>6. IsFiniteSet(F(d))
      BY <1>2, <2>2, FS_Subset
    <2>7. IsFiniteSet(NumberedIn(conns, F(d)))
      BY <1>2, <2>2, <2>6, FewCopies
    <2>8. Cardinality(NumberedIn(conns, F(d))) # 0
      BY <2>5, <2>7, FS_EmptySet
    <2> QED
      BY <2>3, <2>8
  <1>5. \A d \in D : ~Over(d) /\ \E c \in DOMAIN conns : d = Closed(s, c)
    OBVIOUS
  <1> HIDE DEF D, F
  <1>6. DOMAIN conns' = D /\ \A d \in D : conns'[d] = Count(F(d))
    BY <1>1
  <1>7. IsABag(conns')
    <2>1. \A d \in D : conns'[d] \in {n \in Nat : n > 0}
      BY <1>4, <1>6
    <2>2. conns' = [d \in DOMAIN conns' |-> conns'[d]]
      BY <1>1, <1>6
    <2> QED
      BY <1>6, <2>1, <2>2 DEF IsABag
  <1> QED
    BY <1>3, <1>5, <1>6, <1>7 DEF F

-----------------------------------------------------------------------------
(* Types, and who has ends.                                                *)

(* Counting on keeps a function into the naturals one.                     *)
LEMMA StaysCounting ==
  ASSUME NEW f \in [Server -> Nat], NEW s \in Server, NEW n \in Nat
  PROVE  /\ [f EXCEPT ![s] = @ + n] \in [Server -> Nat]
         /\ [f EXCEPT ![s] = @ + 1] \in [Server -> Nat]
         /\ [f EXCEPT ![s] = 0] \in [Server -> Nat]
         /\ n <= f[s] => [f EXCEPT ![s] = @ - n] \in [Server -> Nat]
  OBVIOUS

OutwardTyped == no_response \in [Server -> Nat] /\ req_fd \in [Server -> Nat] /\ lost \in [Server -> Nat]

LEMMA EndedCounts ==
  ASSUME CountersTyped, NEW s \in Server, NEW how, Ended(s, how)
  PROVE  OutwardTyped' /\ troubled' \subseteq Server
  BY StaysCounting DEF CountersTyped, Ended, OutwardTyped

LEMMA BroadcastCounts ==
  ASSUME CountersTyped, NEW s \in Server, NEW B, NEW free, Broadcast(s, B, free)
  PROVE  no_response' \in [Server -> Nat]
  <1>1. no_response' = [no_response EXCEPT ![s] = IF free > 0 THEN @ + 1 ELSE @]
    BY DEF Broadcast
  <1>2. CASE free > 0
    BY <1>1, <1>2, StaysCounting DEF CountersTyped
  <1>3. CASE ~(free > 0)
    BY <1>1, <1>3 DEF CountersTyped
  <1> QED
    BY <1>2, <1>3

LEMMA CountersStayTyped ==
  ASSUME Base, Next
  PROVE  CountersTyped' /\ killed' >= killed
  <1> USE DEF counters, outward
  <1>1. CountersTyped
    BY DEF Base, Typed
  <1>2. /\ OutwardTyped /\ pretend_fail \in [Server -> BOOLEAN] /\ troubled \subseteq Server
        /\ exits \in 0 .. N /\ sent \in 0 .. MaxSent /\ killed \in 0 .. MaxKilled
        /\ N \in Nat /\ MaxSent \in Nat /\ MaxKilled \in Nat
    BY <1>1, ProcessAssumption DEF CountersTyped, OutwardTyped
  <1>3. ASSUME OutwardTyped', troubled' \subseteq Server, UNCHANGED <<pretend_fail, counters>>
        PROVE  CountersTyped' /\ killed' >= killed
    BY <1>2, <1>3 DEF CountersTyped, OutwardTyped
  <1>4. UNCHANGED outward => OutwardTyped'
    BY <1>2 DEF OutwardTyped
  <1>5. ASSUME NEW s \in Server, Start(s)
        PROVE  CountersTyped' /\ killed' >= killed
    BY <1>2, <1>3, <1>4, <1>5 DEF Start
  <1>6. ASSUME NEW s \in Server, Timeout(s)
        PROVE  CountersTyped' /\ killed' >= killed
    <2>1. OutwardTyped'
      BY <1>1, <1>2, <1>6, BroadcastCounts DEF Timeout, OutwardTyped
    <2> QED
      BY <1>2, <1>3, <1>6, <2>1 DEF Timeout
  <1>7. ASSUME NEW s \in Server, Parted(s)
        PROVE  CountersTyped' /\ killed' >= killed
    <2>1. no_response' = [no_response EXCEPT ![s] = @ - 1] /\ 1 <= no_response[s]
      BY <1>2, <1>7 DEF Parted, OutwardTyped
    <2>2. no_response' \in [Server -> Nat]
      BY <1>2, <2>1, StaysCounting DEF OutwardTyped
    <2>3. lost' \in [Server -> Nat]
      BY <1>2, <1>7, StaysCounting DEF Parted, OutwardTyped
    <2>4. OutwardTyped'
      BY <1>2, <1>7, <2>2, <2>3 DEF Parted, OutwardTyped
    <2> QED
      BY <1>2, <1>3, <1>7, <2>4 DEF Parted
  <1>8. ASSUME NEW s \in Server, AcceptFails(s)
        PROVE  CountersTyped' /\ killed' >= killed
    BY <1>2, <1>3, <1>4, <1>8 DEF AcceptFails, Accepts
  <1>9. ASSUME NEW s \in Server, Killed(s)
        PROVE  CountersTyped' /\ killed' >= killed
    <2>1. OutwardTyped' /\ troubled' \subseteq Server
      BY <1>1, <1>9, EndedCounts DEF Killed
    <2> QED
      BY <1>2, <1>9, <2>1 DEF Killed, CountersTyped, OutwardTyped
  <1>10. ASSUME NEW s \in Server, SenderKilled(s)
         PROVE  CountersTyped' /\ killed' >= killed
    BY <1>2, <1>4, <1>10 DEF SenderKilled, CountersTyped, OutwardTyped
  <1>11. ASSUME NEW s \in Server, NEW msg \in {"request", "Stop", "Resume"}, Message(s, msg)
         PROVE  CountersTyped' /\ killed' >= killed
    BY <1>2, <1>4, <1>11 DEF Message, CountersTyped, OutwardTyped
  <1>12. CASE ExitCommand
    BY <1>2, <1>4, <1>12 DEF ExitCommand, CountersTyped, OutwardTyped
  <1>13. ASSUME NEW c \in DOMAIN conns, Near(c)
         PROVE  CountersTyped' /\ killed' >= killed
    <2>0. c \in Connection /\ OpenEnd(c) /\ c.to \in Server
      BY DEF Base, Typed, OpenEnds, Connection
    <2>1. CASE Connected(c)
      BY <1>2, <1>3, <1>4, <2>1 DEF Connected
    <2>2. CASE Refused(c)
      BY <1>2, <1>3, <1>4, <2>0, <2>2 DEF Refused
    <2>3. CASE Written(c)
      BY <1>2, <1>3, <1>4, <2>3 DEF Written
    <2>4. CASE ReadResponse(c)
      <3> DEFINE s == c.from
      <3>1. s \in Server
        BY <2>0, <2>4 DEF ReadResponse, OpenEnd
      <3>2. lost' = lost /\ UNCHANGED <<pretend_fail, counters, troubled>>
        BY <2>4 DEF ReadResponse
      <3>3. CASE \E n \in IF pretend_fail[s] THEN {0} ELSE 0 .. req_fd[s] :
                   /\ req_fd' = [req_fd EXCEPT ![s] = @ - n]
                   /\ no_response' = [no_response EXCEPT ![s] = @ + n]
        <4>0. req_fd[s] \in Nat
          BY <1>2, <3>1 DEF OutwardTyped
        <4>1. PICK n \in IF pretend_fail[s] THEN {0} ELSE 0 .. req_fd[s] :
                /\ req_fd' = [req_fd EXCEPT ![s] = @ - n]
                /\ no_response' = [no_response EXCEPT ![s] = @ + n]
          BY <3>3
        <4>2. n \in Nat /\ n <= req_fd[s]
          BY <4>0, <4>1
        <4>3. OutwardTyped'
          BY <1>2, <3>1, <3>2, <4>1, <4>2, StaysCounting DEF OutwardTyped
        <4> QED
          BY <1>2, <1>3, <3>2, <4>3
      <3>4. CASE Broadcast(s, After(c, AfterResponse(c)), Free(s) + 1) /\ UNCHANGED req_fd
        <4>1. no_response' \in [Server -> Nat]
          BY <1>1, <3>1, <3>4, BroadcastCounts
        <4>2. OutwardTyped'
          BY <1>2, <3>2, <3>4, <4>1 DEF OutwardTyped
        <4> QED
          BY <1>2, <1>3, <3>2, <4>2
      <3> QED
        BY <2>4, <3>3, <3>4 DEF ReadResponse
    <2>5. CASE ReadEnd(c)
      <3>1. c.from \in Server
        BY <2>0, <2>5 DEF ReadEnd, OpenEnd
      <3>2. OutwardTyped' /\ troubled' \subseteq Server
        BY <1>1, <1>2, <1>4, <2>5, <3>1, EndedCounts DEF ReadEnd
      <3> QED
        BY <1>3, <2>5, <3>2 DEF ReadEnd
    <2> QED
      BY <1>13, <2>1, <2>2, <2>3, <2>4, <2>5 DEF Near
  <1>14. ASSUME NEW c \in DOMAIN conns, Far(c)
         PROVE  CountersTyped' /\ killed' >= killed
    <2>0. c \in Connection /\ c.to \in Server
      BY DEF Base, Typed, Connection
    <2>1. CASE Accept(c)
      BY <1>2, <1>3, <1>4, <2>0, <2>1 DEF Accept, Accepts
    <2>2. CASE Responded(c)
      BY <1>2, <1>3, <1>4, <2>2 DEF Responded
    <2>3. ReturnEarly(c) => lost' \in [Server -> Nat]
      BY <1>2, <2>0, StaysCounting DEF ReturnEarly, OutwardTyped
    <2>4. CASE ReadCommand(c)
      <3> DEFINE b == c.msg = "Stop"
      <3>1. pretend_fail' = [pretend_fail EXCEPT ![c.to] = b] /\ b \in BOOLEAN
        BY <2>4 DEF ReadCommand
      <3>2. OutwardTyped'
        BY <1>2, <2>3, <2>4 DEF ReadCommand, OutwardTyped
      <3>3. troubled' \subseteq Server
        BY <1>2, <2>0, <2>4 DEF ReadCommand
      <3> HIDE DEF b
      <3>4. pretend_fail' \in [Server -> BOOLEAN]
        BY <1>2, <3>1
      <3>5. UNCHANGED counters
        BY <2>4 DEF ReadCommand
      <3> QED
        BY <1>2, <3>2, <3>3, <3>4, <3>5 DEF CountersTyped, OutwardTyped
    <2>5. CASE ReadExit(c)
      BY <1>1, <1>3, <2>0, <2>5, EndedCounts DEF ReadExit
    <2>6. CASE ReadRequest(c)
      <3>1. PICK n \in 0 .. req_fd[c.to] :
              /\ req_fd' = [req_fd EXCEPT ![c.to] = @ - n]
              /\ lost' = [lost EXCEPT ![c.to] = @ + n]
        BY <2>6 DEF ReadRequest
      <3>2. n \in Nat /\ n <= req_fd[c.to]
        BY <1>2, <2>0 DEF OutwardTyped
      <3>3. OutwardTyped'
        BY <1>2, <2>0, <2>6, <3>1, <3>2, StaysCounting DEF ReadRequest, OutwardTyped
      <3> QED
        BY <1>2, <1>3, <2>6, <3>3 DEF ReadRequest
    <2>7. CASE ReadOutside(c)
      <3>1. OutwardTyped'
        BY <1>2, <2>0, <2>7, StaysCounting DEF ReadOutside, OutwardTyped
      <3> QED
        BY <1>2, <1>3, <2>7, <3>1 DEF ReadOutside
    <2>8. CASE ReadNothing(c)
      BY <1>1, <1>3, <2>0, <2>8, EndedCounts DEF ReadNothing
    <2>9. CASE Drop(c)
      <3>1. OutwardTyped'
        BY <1>2, <2>3, <2>9 DEF Drop, OutwardTyped
      <3> QED
        BY <1>2, <1>3, <2>9, <3>1 DEF Drop
    <2> QED
      BY <1>14, <2>1, <2>2, <2>4, <2>5, <2>6, <2>7, <2>8, <2>9 DEF Far, Read
  <1> QED
    BY <1>5, <1>6, <1>7, <1>8, <1>9, <1>10, <1>11, <1>12, <1>13, <1>14 DEF Next

(* A bag of connections as Base has it.                                    *)
SoundBag(B) ==
  /\ IsABag(B) /\ DOMAIN B \subseteq Connection /\ IsFiniteSet(DOMAIN B)
  /\ \A c \in DOMAIN B : OpenEnd(c)

ProcessesSound ==
  /\ process \in [Server -> {"unborn", "running", "exited", "fatal", "killed"}]
  /\ accepting \in [Server -> BOOLEAN]
  /\ \A s \in Server : accepting[s] => Alive(s)

LEMMA SoundWhileAlive ==
  ASSUME NEW B, SoundBag(B), \A s \in Server : Alive(s) => Alive(s)'
  PROVE  \A c \in DOMAIN B : OpenEnd(c)'
  BY DEF SoundBag, OpenEnd, Connection

LEMMA AfterIsSound ==
  ASSUME Base, NEW c \in DOMAIN conns, NEW d, Moves(c, d)
  PROVE  SoundBag(After(c, d))
  <1>1. c \in Connection /\ OpenEnd(c) /\ DOMAIN conns \subseteq Connection /\ IsABag(conns)
    BY DEF Base, Typed, OpenEnds
  <1>2. IsABag(After(c, d)) /\ DOMAIN After(c, d) \subseteq DOMAIN conns \cup {d}
    BY <1>1, AfterIsABag
  <1>3. IsFiniteSet(DOMAIN conns \cup {d})
    BY FS_AddElement DEF Base
  <1>4. d \in Connection /\ OpenEnd(d)
    BY <1>1 DEF Moves, OpenEnd, Open
  <1>5. \A e \in DOMAIN conns \cup {d} : OpenEnd(e)
    BY <1>4 DEF Base, OpenEnds
  <1>6. IsFiniteSet(DOMAIN After(c, d))
    BY <1>2, <1>3, FS_Subset
  <1> QED
    BY <1>1, <1>2, <1>4, <1>5, <1>6 DEF SoundBag

LEMMA DiesLeavesSound ==
  ASSUME Base, NEW s \in Server, Dies(s)
  PROVE  SoundBag(conns)'
  <1>1. PICK how \in {"exited", "killed", "fatal"} : Ended(s, how)
    BY DEF Dies
  <1>2. DOMAIN conns \subseteq Connection /\ \A c \in DOMAIN conns : OpenEnd(c) /\ c.from # c.to
    BY DEF Base, Typed, OpenEnds, OpenEnd
  <1>3. \A t \in Server \ {s} : process'[t] = process[t]
    BY <1>1 DEF Ended, Base, Typed
  <1>4. ASSUME NEW e \in DOMAIN conns'
        PROVE  e \in Connection /\ OpenEnd(e)'
    <2>1. PICK c \in DOMAIN conns : e = Closed(s, c)
      BY <1>1, EndedLeaves
    <2>2. c \in Connection /\ OpenEnd(c) /\ c.from # c.to
      BY <1>2
    <2>3. /\ e \in Connection /\ e.from = c.from /\ e.to = c.to
          /\ e.near = IF c.from = s THEN "closed" ELSE c.near
          /\ e.to # s => e.far = c.far
          /\ e.to = s => e.far \notin {"backlog", "read", "write", "leaked"}
      BY <2>1, <2>2, ClosedShape
    <2>4. e.to \in Server
      BY <2>3 DEF Connection
    <2> QED
      BY <1>3, <2>2, <2>3, <2>4 DEF OpenEnd, Alive
  <1> QED
    BY <1>1, <1>4, EndedLeaves DEF SoundBag

(* What Send adds.                                                         *)
Arrival(s, msg) == [Conn(Outside, s, msg) EXCEPT !.near = "closed", !.far = "backlog"]

LEMMA ArrivalShape ==
  ASSUME NEW s \in Server, NEW msg \in Messages
  PROVE  /\ Arrival(s, msg) \in Connection
         /\ Arrival(s, msg).from = Outside /\ Arrival(s, msg).to = s /\ Arrival(s, msg).msg = msg
         /\ Arrival(s, msg).near = "closed" /\ Arrival(s, msg).far = "backlog"
  <1> DEFINE r == Conn(Outside, s, msg)
  <1>1. r \in Connection /\ r.from = Outside /\ r.to = s /\ r.msg = msg
    BY DEF Conn, Connection
  <1>2. Arrival(s, msg) = [r EXCEPT !.near = "closed", !.far = "backlog"]
    BY DEF Arrival
  <1> HIDE DEF r
  <1> QED
    BY <1>1, <1>2 DEF Connection

LEMMA SendsAdds ==
  ASSUME Base, NEW s \in Server, Sends(s)
  PROVE  /\ Alive(s)
         /\ \E msg \in Messages :
              /\ conns' = BagAdd(conns, Arrival(s, msg))
              /\ DOMAIN conns' = DOMAIN conns \cup {Arrival(s, msg)} /\ IsABag(conns')
              /\ msg = "nothing" => killed' > 0
  <1>1. PICK msg \in Messages : Send(s, msg) /\ (msg = "nothing" => killed' > 0)
    BY DEF Sends
  <1>2. conns' = BagAdd(conns, Arrival(s, msg)) /\ Alive(s)
    BY <1>1 DEF Send, Arrival
  <1>3. DOMAIN conns' = DOMAIN conns \cup {Arrival(s, msg)} /\ IsABag(conns')
    BY <1>2, OneMore DEF Base, Typed
  <1> QED
    BY <1>1, <1>2, <1>3

LEMMA SendsLeavesSound ==
  ASSUME Base, NEW s \in Server, Sends(s)
  PROVE  SoundBag(conns')
  <1>1. PICK msg \in Messages :
          DOMAIN conns' = DOMAIN conns \cup {Arrival(s, msg)} /\ IsABag(conns')
    BY SendsAdds
  <1>2. Outside # s
    BY ProcessAssumption DEF Server
  <1>3. Arrival(s, msg) \in Connection /\ OpenEnd(Arrival(s, msg))
    BY <1>2, ArrivalShape, SendsAdds DEF OpenEnd
  <1>4. IsFiniteSet(DOMAIN conns')
    BY <1>1, FS_AddElement DEF Base
  <1> QED
    BY <1>1, <1>3, <1>4 DEF SoundBag, Base, Typed, OpenEnds

(* What a broadcast of s adds.                                             *)
Requests(s, free) == {Conn(s, p, "request") : p \in Opened(s, free)}

LEMMA RequestShape ==
  ASSUME NEW s \in Server, NEW free, NEW d \in Requests(s, free)
  PROVE  /\ d \in Connection /\ d.from = s /\ d.to # s /\ d.msg = "request"
         /\ d.near = "connect" /\ d.far = "none"
  <1>1. PICK p \in Opened(s, free) : d = Conn(s, p, "request")
    BY DEF Requests
  <1>2. p \in Server /\ p # s
    BY DEF Opened, Peers
  <1>3. d = [from |-> s, to |-> p, msg |-> "request", near |-> "connect", far |-> "none"]
    BY <1>1 DEF Conn
  <1> QED
    BY <1>2, <1>3 DEF Connection, Messages

LEMMA LeavesFromSound ==
  ASSUME Base, NEW s \in Server, NEW B, NEW free, LeavesFrom(s, B, free)
  PROVE  SoundBag(B)
  <1>1. SoundBag(conns)
    BY DEF Base, Typed, OpenEnds, SoundBag
  <1> QED
    BY <1>1, AfterIsSound DEF LeavesFrom

LEMMA BroadcastAdds ==
  ASSUME Base, NEW s \in Server, Alive(s), NEW B, NEW free, LeavesFrom(s, B, free), Broadcast(s, B, free)
  PROVE  /\ SoundBag(B) /\ SoundBag(conns')
         /\ IsFiniteSet(Opened(s, free)) /\ IsFiniteSet(Requests(s, free))
         /\ conns' = B (+) SetToBag(Requests(s, free))
         /\ DOMAIN conns' = DOMAIN B \cup Requests(s, free)
  <1> DEFINE f == [p \in Opened(s, free) |-> Conn(s, p, "request")]
             T == Requests(s, free)
  <1>1. conns' = B (+) SetToBag(T)
    BY DEF Broadcast, Requests
  <1>2. SoundBag(B)
    BY LeavesFromSound
  <1>3. \A d \in T : d \in Connection /\ OpenEnd(d)
    BY RequestShape DEF OpenEnd
  <1>4. IsFiniteSet(Opened(s, free))
    <2>1. Opened(s, free) \subseteq 0 .. N - 1
      BY DEF Opened, Peers, Server
    <2>2. IsFiniteSet(0 .. N - 1)
      BY ProcessAssumption, FS_Interval
    <2> QED
      BY <2>1, <2>2, FS_Subset
  <1>5. IsFiniteSet(T)
    <2>1. f \in Surjection(Opened(s, free), T)
      BY DEF Surjection, Requests
    <2> HIDE DEF f, T
    <2> QED
      BY <1>4, <2>1, FS_Surjection
  <1> HIDE DEF T
  <1>6. IsABag(conns') /\ DOMAIN conns' = DOMAIN B \cup T
    BY <1>1, <1>2, AllMore DEF SoundBag
  <1>7. IsFiniteSet(DOMAIN conns')
    BY <1>2, <1>5, <1>6, FS_Union DEF SoundBag
  <1>8. SoundBag(conns')
    BY <1>2, <1>3, <1>6, <1>7 DEF SoundBag
  <1> QED
    BY <1>1, <1>2, <1>4, <1>5, <1>6, <1>8 DEF T

LEMMA BaseStep ==
  ASSUME Base, [Next]_vars
  PROVE  Base'
  <1>1. CASE UNCHANGED vars
    BY <1>1 DEF Base, Typed, CountersTyped, OpenEnds, OpenEnd, Alive, vars, counters, outward
  <1>2. CASE Next
    <2>1. ProcessesSound /\ SoundBag(conns)
      BY DEF Base, Typed, OpenEnds, ProcessesSound, SoundBag
    <2>2. ASSUME SoundBag(conns'), \A s \in Server : Alive(s) => Alive(s)'
          PROVE  SoundBag(conns)'
      BY <2>2, SoundWhileAlive DEF SoundBag
    <2>3. process' = process => \A s \in Server : Alive(s) => Alive(s)'
      BY DEF Alive
    <2>4. process' = process /\ AcceptsLess => ProcessesSound'
      BY <2>1 DEF ProcessesSound, AcceptsLess, Alive
    <2>5. accepting' = accepting => AcceptsLess
      BY <2>1 DEF ProcessesSound, AcceptsLess
    <2>6. ASSUME NEW c \in DOMAIN conns, NEW d, Advances(c, d)
          PROVE  ProcessesSound' /\ SoundBag(conns)'
      BY <2>2, <2>3, <2>4, <2>6, AfterIsSound DEF Advances, Becomes
    <2>7. ASSUME NEW s \in Server, Dies(s)
          PROVE  ProcessesSound' /\ SoundBag(conns)'
      <3>1. PICK how \in {"exited", "killed", "fatal"} : Ended(s, how)
        BY <2>7 DEF Dies
      <3>2. process' = [process EXCEPT ![s] = how] /\ accepting' = [accepting EXCEPT ![s] = FALSE]
        BY <3>1 DEF Ended
      <3>3. ProcessesSound'
        BY <2>1, <3>2 DEF Alive, ProcessesSound
      <3> QED
        BY <2>7, <3>3, DiesLeavesSound
    <2>8. ASSUME NEW s \in Server, Sends(s)
          PROVE  ProcessesSound' /\ SoundBag(conns)'
      BY <2>2, <2>3, <2>4, <2>5, <2>8, SendsLeavesSound DEF Sends
    <2>9. ASSUME NEW s \in Server, Start(s)
          PROVE  ProcessesSound' /\ SoundBag(conns)'
      <3>1. /\ process' = [process EXCEPT ![s] = "running"]
            /\ accepting' = [accepting EXCEPT ![s] = TRUE] /\ conns' = conns
        BY <2>9 DEF Start
      <3>2. ProcessesSound'
        BY <2>1, <3>1 DEF Alive, ProcessesSound
      <3>3. \A t \in Server : Alive(t) => Alive(t)'
        BY <2>1, <3>1 DEF Alive, ProcessesSound
      <3> QED
        BY <2>1, <2>2, <3>1, <3>2, <3>3
    <2>10. ASSUME NEW s \in Server, Broadcasts(s)
           PROVE  ProcessesSound' /\ SoundBag(conns)'
      BY <2>2, <2>3, <2>4, <2>5, <2>10, BroadcastAdds DEF Broadcasts
    <2>11. ASSUME Stands
           PROVE  ProcessesSound' /\ SoundBag(conns)'
      BY <2>1, <2>2, <2>3, <2>4, <2>11 DEF Stands
    <2>12. ProcessesSound' /\ SoundBag(conns)'
      BY <1>2, <2>6, <2>7, <2>8, <2>9, <2>10, <2>11, StepKinds
    <2>13. CountersTyped'
      BY <1>2, CountersStayTyped
    <2> QED
      BY <2>12, <2>13 DEF Base, Typed, OpenEnds, ProcessesSound, SoundBag
  <1> QED
    BY <1>1, <1>2

-----------------------------------------------------------------------------
(* What is broken was broken by a death.                                   *)

LEMMA BrokenStep ==
  ASSUME Base, BrokenByADeath, [Next]_vars
  PROVE  BrokenByADeath'
  <1>1. CASE UNCHANGED vars
    BY <1>1 DEF BrokenByADeath, Died, Broken, vars, counters
  <1>2. CASE Next
    <2>0. killed \in Nat /\ killed' \in Nat /\ killed' >= killed
      BY <1>2, CountersStayTyped DEF Base, Typed, CountersTyped
    <2>1. ASSUME process' = process, \A d \in DOMAIN conns' : Broken(d) => \E c \in DOMAIN conns : Broken(c)
          PROVE  BrokenByADeath'
      <3>1. Died => Died'
        BY <2>0, <2>1 DEF Died
      <3> QED
        BY <2>1, <3>1 DEF BrokenByADeath, Broken
    <2>2. ASSUME NEW c \in DOMAIN conns, NEW d, Advances(c, d)
          PROVE  BrokenByADeath'
      <3>1. DOMAIN conns' \subseteq DOMAIN conns \cup {d}
        BY <2>2, AfterIsABag DEF Advances, Becomes, Base, Typed
      <3>2. Broken(d) => Broken(c)
        BY <2>2 DEF Advances, Moves, Broken
      <3> QED
        BY <2>1, <2>2, <3>1, <3>2 DEF Advances
    <2>3. ASSUME NEW s \in Server, Dies(s)
          PROVE  BrokenByADeath'
      <3>1. CASE Ended(s, "exited")
        <4>1. process'[s] = "exited"
          BY <3>1 DEF Ended, Base, Typed
        <4> QED
          BY <4>1 DEF BrokenByADeath, Died
      <3>2. CASE Ended(s, "killed") /\ killed' > 0
        BY <3>2 DEF BrokenByADeath, Died
      <3>3. CASE Ended(s, "fatal") /\ \E c \in DOMAIN conns : Broken(c)
        <4>1. Died
          BY <3>3 DEF BrokenByADeath
        <4>2. ASSUME NEW t \in Server, process[t] = "exited"
              PROVE  process'[t] = "exited"
          BY <2>3, <3>3, <4>2 DEF Ended, Dies, Alive, Base, Typed
        <4> QED
          BY <2>0, <4>1, <4>2 DEF BrokenByADeath, Died
      <3> QED
        BY <2>3, <3>1, <3>2, <3>3 DEF Dies
    <2>4. ASSUME NEW s \in Server, Sends(s)
          PROVE  BrokenByADeath'
      <3>1. PICK msg \in Messages :
              DOMAIN conns' = DOMAIN conns \cup {Arrival(s, msg)} /\ (msg = "nothing" => killed' > 0)
        BY <2>4, SendsAdds
      <3>2. CASE msg = "nothing"
        BY <3>1, <3>2 DEF BrokenByADeath, Died
      <3>3. CASE msg # "nothing"
        <4>1. ~Broken(Arrival(s, msg))
          BY <3>3, ArrivalShape DEF Broken
        <4> QED
          BY <2>1, <2>4, <3>1, <4>1 DEF Sends
      <3> QED
        BY <3>2, <3>3
    <2>5. ASSUME NEW s \in Server, Start(s)
          PROVE  BrokenByADeath'
      <3>1. process \in [Server -> {"unborn", "running", "exited", "fatal", "killed"}]
        BY DEF Base, Typed
      <3>2. process[s] = "unborn" /\ process' = [process EXCEPT ![s] = "running"] /\ conns' = conns
        BY <2>5 DEF Start
      <3>3. \A t \in Server : process'[t] = IF t = s THEN "running" ELSE process[t]
        BY <3>1, <3>2
      <3>4. Died => Died'
        BY <2>0, <3>2, <3>3 DEF Died
      <3>5. (\E t \in Server : process'[t] = "fatal") => \E t \in Server : process[t] = "fatal"
        BY <3>3
      <3> QED
        BY <3>2, <3>4, <3>5 DEF BrokenByADeath, Broken
    <2>6. ASSUME NEW s \in Server, Broadcasts(s)
          PROVE  BrokenByADeath'
      <3>1. PICK B, free : LeavesFrom(s, B, free) /\ Broadcast(s, B, free)
        BY <2>6 DEF Broadcasts
      <3>2. DOMAIN conns' = DOMAIN B \cup Requests(s, free)
        BY <2>6, <3>1, BroadcastAdds DEF Broadcasts
      <3>3. \A d \in Requests(s, free) : ~Broken(d)
        BY RequestShape DEF Broken
      <3>4. ASSUME NEW e \in DOMAIN B, Broken(e)
            PROVE  \E c \in DOMAIN conns : Broken(c)
        <4>1. CASE B = conns
          BY <3>4, <4>1
        <4>2. ASSUME NEW c \in DOMAIN conns, NEW d, B = After(c, d), Moves(c, d)
              PROVE  \E x \in DOMAIN conns : Broken(x)
          <5>1. e \in DOMAIN conns \cup {d}
            BY <4>2, AfterIsABag DEF Base, Typed
          <5>2. Broken(d) => Broken(c)
            BY <4>2 DEF Moves, Broken
          <5> QED
            BY <3>4, <5>1, <5>2
        <4> QED
          BY <3>1, <4>1, <4>2 DEF LeavesFrom
      <3> QED
        BY <2>1, <2>6, <3>2, <3>3, <3>4 DEF Broadcasts
    <2>7. ASSUME Stands
          PROVE  BrokenByADeath'
      BY <2>1, <2>7 DEF Stands
    <2> QED
      BY <1>2, <2>2, <2>3, <2>4, <2>5, <2>6, <2>7, StepKinds
  <1> QED
    BY <1>1, <1>2

LEMMA BaseAtFirst ==
  ASSUME Init
  PROVE  Base /\ BrokenByADeath /\ TroubleIsKnown /\ DOMAIN conns = {}
  <1>1. DOMAIN conns = {} /\ IsABag(conns)
    BY DEF Init, EmptyBag, SetToBag, IsABag
  <1>2. CountersTyped
    <2>1. N \in Nat /\ MaxSent \in Nat /\ MaxKilled \in Nat
      BY ProcessAssumption
    <2> QED
      BY <2>1 DEF Init, CountersTyped
  <1>3. OpenEnds /\ TroubleIsKnown
    BY <1>1 DEF Init, OpenEnds, TroubleIsKnown
  <1>4. Typed
    BY <1>1, <1>2 DEF Init, Typed
  <1>5. IsFiniteSet(DOMAIN conns)
    BY <1>1, FS_EmptySet
  <1>6. BrokenByADeath
    BY <1>1 DEF BrokenByADeath, Init
  <1> QED
    BY <1>1, <1>3, <1>4, <1>5, <1>6 DEF Base

(* A process that runs is the only one with open ends, in every state.     *)
THEOREM OnlyTheLivingHaveEnds == Spec => []Base
  <1>1. Init => Base
    BY BaseAtFirst
  <1>2. Base /\ [Next]_vars => Base'
    BY BaseStep
  <1> QED
    BY <1>1, <1>2, PTL DEF Spec

(* No server ends in fatal_error unless another process ended before: the  *)
(* empty message it reads is left by one that exited or was killed, by one *)
(* outside that died before it wrote, or by one that was fatal, and that   *)
(* one read such a message itself.                                         *)
THEOREM FatalIsSecondary == Spec => []FatalNeedsADeath
  <1>1. Init => Base /\ BrokenByADeath
    BY BaseAtFirst
  <1>2. Base /\ BrokenByADeath /\ [Next]_vars => Base' /\ BrokenByADeath'
    BY BaseStep, BrokenStep
  <1>3. BrokenByADeath => FatalNeedsADeath
    BY DEF BrokenByADeath, Died, FatalNeedsADeath
  <1> QED
    BY <1>1, <1>2, <1>3, PTL DEF Spec

-----------------------------------------------------------------------------
(* The limit of descriptors.                                               *)

(* Connection c has an end that is open in process t.                      *)
HeldBy(c, t) ==
  \/ c.from = t /\ c.near # "closed"
  \/ c.to = t /\ c.far \in {"read", "write", "leaked"}

HeldIn(B, t) == {c \in DOMAIN B : HeldBy(c, t)}

SizeIn(B, t) == Cardinality(NumberedIn(B, HeldIn(B, t)))

LEMMA FdsAreHeld ==
  ASSUME NEW t
  PROVE  /\ Fds(t) = SizeIn(conns, t) + no_response[t] + req_fd[t] + lost[t]
         /\ Fds(t)' = SizeIn(conns', t) + no_response'[t] + req_fd'[t] + lost'[t]
  <1>1. NearEnds(t) \cup FarEnds(t) = HeldIn(conns, t)
    BY DEF NearEnds, FarEnds, HeldIn, HeldBy
  <1>2. (NearEnds(t) \cup FarEnds(t))' = HeldIn(conns', t)
    BY DEF NearEnds, FarEnds, HeldIn, HeldBy
  <1> QED
    BY <1>1, <1>2 DEF Fds, Count, Copies, NumberedIn, SizeIn

LEMMA HeldAreFew ==
  ASSUME NEW B, IsABag(B), IsFiniteSet(DOMAIN B), NEW t
  PROVE  /\ HeldIn(B, t) \in SUBSET DOMAIN B /\ IsFiniteSet(HeldIn(B, t))
         /\ IsFiniteSet(NumberedIn(B, HeldIn(B, t))) /\ SizeIn(B, t) \in Nat
  <1>1. HeldIn(B, t) \in SUBSET DOMAIN B
    BY DEF HeldIn
  <1>2. IsFiniteSet(HeldIn(B, t))
    BY <1>1, FS_Subset
  <1> QED
    BY <1>1, <1>2, FewCopies DEF SizeIn

LEMMA HeldAfterAdd ==
  ASSUME NEW B, IsABag(B), IsFiniteSet(DOMAIN B), NEW e, NEW t
  PROVE  /\ ~HeldBy(e, t) => SizeIn(BagAdd(B, e), t) = SizeIn(B, t)
         /\ HeldBy(e, t) => SizeIn(BagAdd(B, e), t) = SizeIn(B, t) + 1
  <1> DEFINE A == BagAdd(B, e)
             n == IF e \in DOMAIN B THEN B[e] + 1 ELSE 1
             old == NumberedIn(B, HeldIn(B, t))
             new == NumberedIn(A, HeldIn(A, t))
  <1>1. /\ DOMAIN A = DOMAIN B \cup {e} /\ A[e] = n
        /\ \A x \in DOMAIN B \ {e} : A[x] = B[x]
    BY OneMore
  <1>2. IsFiniteSet(old) /\ Cardinality(old) \in Nat
    BY HeldAreFew DEF SizeIn
  <1>3. \A x \in DOMAIN B : B[x] \in Nat /\ B[x] > 0
    BY DEF IsABag
  <1> HIDE DEF A
  <1>4. ASSUME ~HeldBy(e, t)
        PROVE  new = old
    <2>1. HeldIn(A, t) = HeldIn(B, t) /\ \A x \in HeldIn(B, t) : A[x] = B[x]
      BY <1>1, <1>4 DEF HeldIn
    <2> QED
      BY <2>1 DEF NumberedIn
  <1>5. ASSUME HeldBy(e, t)
        PROVE  new = old \cup {<<e, n>>} /\ <<e, n>> \notin old
    <2>1. HeldIn(A, t) = HeldIn(B, t) \cup {e}
      BY <1>1, <1>5 DEF HeldIn
    <2>2. ASSUME NEW u \in new
          PROVE  u \in old \cup {<<e, n>>}
      <3>1. PICK x \in HeldIn(A, t) : \E i \in 1 .. A[x] : u = <<x, i>>
        BY CopyOf
      <3>2. PICK i \in 1 .. A[x] : u = <<x, i>>
        BY <3>1
      <3>3. CASE x # e
        <4>1. x \in HeldIn(B, t) /\ A[x] = B[x]
          BY <1>1, <2>1, <3>3 DEF HeldIn
        <4> QED
          BY <3>2, <4>1, CopyOf
      <3>4. CASE x = e /\ i = n
        BY <3>2, <3>4
      <3>5. CASE x = e /\ i # n
        <4>1. e \in DOMAIN B
          BY <1>1, <3>2, <3>5
        <4>2. i \in 1 .. B[e]
          BY <1>1, <1>3, <3>2, <3>5, <4>1
        <4>3. e \in HeldIn(B, t)
          BY <1>5, <4>1 DEF HeldIn
        <4> QED
          BY <3>2, <3>5, <4>2, <4>3, CopyOf
      <3> QED
        BY <3>3, <3>4, <3>5
    <2>3. ASSUME NEW u \in old \cup {<<e, n>>}
          PROVE  u \in new
      <3>1. CASE u = <<e, n>>
        <4>1. n \in 1 .. A[e]
          BY <1>1, <1>3
        <4> QED
          BY <2>1, <3>1, <4>1, CopyOf
      <3>2. CASE u \in old
        <4>1. PICK x \in HeldIn(B, t) : \E i \in 1 .. B[x] : u = <<x, i>>
          BY <3>2, CopyOf
        <4>2. PICK i \in 1 .. B[x] : u = <<x, i>>
          BY <4>1
        <4>3. x \in DOMAIN B
          BY DEF HeldIn
        <4>4. i \in 1 .. A[x]
          BY <1>1, <1>3, <4>2, <4>3
        <4> QED
          BY <2>1, <4>2, <4>4, CopyOf
      <3> QED
        BY <2>3, <3>1, <3>2
    <2>4. <<e, n>> \notin old
      <3> SUFFICES ASSUME <<e, n>> \in old PROVE FALSE
        OBVIOUS
      <3>1. PICK x \in HeldIn(B, t) : \E i \in 1 .. B[x] : <<e, n>> = <<x, i>>
        BY CopyOf
      <3>2. e \in DOMAIN B /\ n \in 1 .. B[e]
        BY <3>1 DEF HeldIn
      <3> QED
        BY <1>3, <3>2
    <2> QED
      BY <2>2, <2>3, <2>4
  <1>6. HeldBy(e, t) => Cardinality(new) = Cardinality(old) + 1
    <2> HIDE DEF new, old, n
    <2> QED
      BY <1>2, <1>5, FS_AddElement
  <1> QED
    BY <1>4, <1>6 DEF SizeIn, A

LEMMA HeldAfterRemove ==
  ASSUME NEW B, IsABag(B), IsFiniteSet(DOMAIN B), NEW e \in DOMAIN B, NEW t
  PROVE  /\ IsFiniteSet(DOMAIN BagRemove(B, e))
         /\ ~HeldBy(e, t) => SizeIn(BagRemove(B, e), t) = SizeIn(B, t)
         /\ HeldBy(e, t) => SizeIn(BagRemove(B, e), t) = SizeIn(B, t) - 1
  <1> DEFINE A == BagRemove(B, e)
             old == NumberedIn(B, HeldIn(B, t))
             new == NumberedIn(A, HeldIn(A, t))
  <1>1. /\ DOMAIN A = IF B[e] = 1 THEN DOMAIN B \ {e} ELSE DOMAIN B
        /\ B[e] # 1 => A[e] = B[e] - 1
        /\ \A x \in DOMAIN B \ {e} : A[x] = B[x]
    BY OneLess
  <1>2. IsFiniteSet(old) /\ Cardinality(old) \in Nat
    BY HeldAreFew DEF SizeIn
  <1>3. \A x \in DOMAIN B : B[x] \in Nat /\ B[x] > 0
    BY DEF IsABag
  <1> HIDE DEF A
  <1>4. ASSUME ~HeldBy(e, t)
        PROVE  new = old
    <2>1. HeldIn(A, t) = HeldIn(B, t) /\ \A x \in HeldIn(B, t) : A[x] = B[x]
      BY <1>1, <1>4 DEF HeldIn
    <2> QED
      BY <2>1 DEF NumberedIn
  <1>5. ASSUME HeldBy(e, t)
        PROVE  new = old \ {<<e, B[e]>>} /\ <<e, B[e]>> \in old
    <2>0. e \in HeldIn(B, t) /\ B[e] \in 1 .. B[e]
      BY <1>3, <1>5 DEF HeldIn
    <2>1. <<e, B[e]>> \in old
      BY <2>0, CopyOf
    <2>2. ASSUME NEW u \in new
          PROVE  u \in old \ {<<e, B[e]>>}
      <3>1. PICK x \in HeldIn(A, t) : \E i \in 1 .. A[x] : u = <<x, i>>
        BY CopyOf
      <3>2. PICK i \in 1 .. A[x] : u = <<x, i>>
        BY <3>1
      <3>3. x \in HeldIn(B, t) /\ x \in DOMAIN A
        BY <1>1 DEF HeldIn
      <3>4. i \in 1 .. B[x] /\ (x = e => i # B[e])
        BY <1>1, <1>3, <3>2, <3>3 DEF HeldIn
      <3> QED
        BY <3>2, <3>3, <3>4, CopyOf
    <2>3. ASSUME NEW u \in old \ {<<e, B[e]>>}
          PROVE  u \in new
      <3>1. PICK x \in HeldIn(B, t) : \E i \in 1 .. B[x] : u = <<x, i>>
        BY CopyOf
      <3>2. PICK i \in 1 .. B[x] : u = <<x, i>>
        BY <3>1
      <3>3. x = e => i # B[e] /\ B[e] # 1
        BY <1>3, <2>3, <3>2
      <3>4. x \in DOMAIN B
        BY DEF HeldIn
      <3>5. x \in DOMAIN A /\ i \in 1 .. A[x]
        BY <1>1, <1>3, <3>2, <3>3, <3>4
      <3>6. x \in HeldIn(A, t)
        BY <3>5 DEF HeldIn
      <3> QED
        BY <3>2, <3>5, <3>6, CopyOf
    <2> QED
      BY <2>1, <2>2, <2>3
  <1>6. HeldBy(e, t) => Cardinality(new) = Cardinality(old) - 1
    <2> HIDE DEF new, old
    <2> QED
      BY <1>2, <1>5, FS_RemoveElement
  <1>7. IsFiniteSet(DOMAIN A)
    BY <1>1, FS_Subset
  <1> QED
    BY <1>4, <1>6, <1>7 DEF SizeIn, A

Few == \A t \in Server : Fds(t) <= MaxFds

(* The descriptors of t before and after a step, by what they lead to.     *)
LEMMA FdsOf ==
  ASSUME Base, Base', NEW t \in Server
  PROVE  /\ Fds(t) = SizeIn(conns, t) + Kept(t) /\ Fds(t)' = SizeIn(conns', t) + Kept(t)'
         /\ {SizeIn(conns, t), SizeIn(conns', t), Kept(t), Kept(t)', MaxFds} \subseteq Nat
  <1>1. SizeIn(conns, t) \in Nat /\ SizeIn(conns', t) \in Nat
    BY HeldAreFew DEF Base, Typed
  <1>2. /\ no_response[t] \in Nat /\ req_fd[t] \in Nat /\ lost[t] \in Nat
        /\ no_response'[t] \in Nat /\ req_fd'[t] \in Nat /\ lost'[t] \in Nat
    BY DEF Base, Typed, CountersTyped
  <1>3. MaxFds \in Nat
    BY ProcessAssumption
  <1> QED
    BY <1>1, <1>2, <1>3, FdsAreHeld DEF Kept

LEMMA AfterSize ==
  ASSUME Base, NEW c \in DOMAIN conns, NEW d, NEW t
  PROVE  SizeIn(After(c, d), t) = SizeIn(conns, t) - (IF HeldBy(c, t) THEN 1 ELSE 0)
                                                    + (IF HeldBy(d, t) THEN 1 ELSE 0)
  <1> DEFINE R == BagRemove(conns, c)
  <1>1. IsABag(conns) /\ IsFiniteSet(DOMAIN conns)
    BY DEF Base, Typed
  <1>2. /\ IsABag(R) /\ IsFiniteSet(DOMAIN R)
        /\ ~HeldBy(c, t) => SizeIn(R, t) = SizeIn(conns, t)
        /\ HeldBy(c, t) => SizeIn(R, t) = SizeIn(conns, t) - 1
    BY <1>1, OneLess, HeldAfterRemove
  <1>3. After(c, d) = IF Over(d) THEN R ELSE BagAdd(R, d)
    BY DEF After
  <1> HIDE DEF R
  <1>4. /\ ~HeldBy(d, t) => SizeIn(BagAdd(R, d), t) = SizeIn(R, t)
        /\ HeldBy(d, t) => SizeIn(BagAdd(R, d), t) = SizeIn(R, t) + 1
    BY <1>2, HeldAfterAdd
  <1>5. Over(d) => ~HeldBy(d, t)
    BY DEF Over, HeldBy
  <1>6. SizeIn(conns, t) \in Nat /\ SizeIn(R, t) \in Nat
    BY <1>1, <1>2, HeldAreFew
  <1> QED
    BY <1>2, <1>3, <1>4, <1>5, <1>6

LEMMA AdvancesKeepsFew ==
  ASSUME Base, Base', Few, NEW c \in DOMAIN conns, NEW d, Advances(c, d)
  PROVE  Few'
  <1> SUFFICES ASSUME NEW t \in Server PROVE Fds(t)' <= MaxFds
    BY DEF Few
  <1>1. /\ Fds(t) = SizeIn(conns, t) + Kept(t) /\ Fds(t)' = SizeIn(conns', t) + Kept(t)'
        /\ {SizeIn(conns, t), SizeIn(conns', t), Kept(t), Kept(t)', MaxFds} \subseteq Nat
        /\ Fds(t) <= MaxFds /\ Free(t) = MaxFds - Fds(t)
    BY FdsOf, FreeIsANumber DEF Few
  <1>2. SizeIn(conns', t) = SizeIn(conns, t) - (IF HeldBy(c, t) THEN 1 ELSE 0)
                                            + (IF HeldBy(d, t) THEN 1 ELSE 0)
    BY AfterSize DEF Advances, Becomes
  <1>3. HeldBy(d, t) => HeldBy(c, t) \/ Free(t) >= 1
    BY DEF Advances, Moves, HeldBy, Open
  <1>4. Kept(t)' <= Kept(t) \/ (HeldBy(c, t) /\ ~HeldBy(d, t) /\ Kept(t)' <= Kept(t) + 1)
    <2>1. c.from # c.to
      BY DEF Base, OpenEnds, OpenEnd
    <2> QED
      BY <2>1 DEF Advances, Moves, KeepsCount, HeldBy, Open
  <1> QED
    BY <1>1, <1>2, <1>3, <1>4

LEMMA SendsKeepsFew ==
  ASSUME Base, Base', Few, NEW s \in Server, Sends(s)
  PROVE  Few'
  <1> SUFFICES ASSUME NEW t \in Server PROVE Fds(t)' <= MaxFds
    BY DEF Few
  <1>1. PICK msg \in Messages : conns' = BagAdd(conns, Arrival(s, msg))
    BY SendsAdds
  <1>2. ~HeldBy(Arrival(s, msg), t)
    BY ArrivalShape DEF HeldBy
  <1>3. SizeIn(conns', t) = SizeIn(conns, t)
    BY <1>1, <1>2, HeldAfterAdd DEF Base, Typed
  <1>4. Kept(t)' = Kept(t)
    BY DEF Sends, Kept, outward
  <1> QED
    BY <1>3, <1>4, FdsOf DEF Few

(* A descriptor for the routing service, and one for each peer opened.     *)
LEMMA OpenedFit ==
  ASSUME NEW s \in Server, NEW free \in Int
  PROVE  /\ IsFiniteSet(Opened(s, free)) /\ Cardinality(Opened(s, free)) \in Nat
         /\ free >= 1 => Cardinality(Opened(s, free)) <= free - 1
         /\ free < 1 => Opened(s, free) = {}
  <1> DEFINE Before(p) == {q \in Peers(s) : q < p}
             f == [p \in Opened(s, free) |-> Cardinality(Before(p))]
  <1>1. IsFiniteSet(Peers(s)) /\ Peers(s) \subseteq Int
    <2>1. Peers(s) \subseteq 0 .. N - 1
      BY DEF Peers, Server
    <2>2. IsFiniteSet(0 .. N - 1)
      BY ProcessAssumption, FS_Interval
    <2>3. Peers(s) \subseteq Int
      BY <2>1, ProcessAssumption
    <2>4. IsFiniteSet(Peers(s))
      BY <2>1, <2>2, FS_Subset
    <2> QED
      BY <2>3, <2>4
  <1>2. Opened(s, free) \subseteq Peers(s) /\ IsFiniteSet(Opened(s, free))
    BY <1>1, FS_Subset DEF Opened
  <1>3. \A p \in Peers(s) : IsFiniteSet(Before(p)) /\ Cardinality(Before(p)) \in Nat
    BY <1>1, FS_Subset, NatSize
  <1>4. \A p \in Opened(s, free) : Cardinality(Before(p)) + 1 < free
    BY DEF Opened
  <1>5. ASSUME NEW a \in Peers(s), NEW b \in Peers(s), a < b
        PROVE  Cardinality(Before(a)) # Cardinality(Before(b))
    <2>1. Before(a) \in SUBSET Before(b) /\ a \in Before(b) /\ a \notin Before(a)
      BY <1>1, <1>5
    <2> HIDE DEF Before
    <2> QED
      BY <1>3, <2>1, FS_Subset
  <1>6. free < 1 => Opened(s, free) = {}
    <2> HIDE DEF Before
    <2> QED
      BY <1>2, <1>3, <1>4
  <1>7. Cardinality(Opened(s, free)) \in Nat
    BY <1>2, NatSize
  <1>8. ASSUME free >= 1
        PROVE  Cardinality(Opened(s, free)) <= free - 1
    <2>1. f \in [Opened(s, free) -> 0 .. free - 2]
      <3> HIDE DEF Before
      <3> QED
        BY <1>2, <1>3, <1>4
    <2>2. \A a, b \in Opened(s, free) : f[a] = f[b] => a = b
      <3> SUFFICES ASSUME NEW a \in Opened(s, free), NEW b \in Opened(s, free), f[a] = f[b], a # b
                   PROVE  FALSE
        OBVIOUS
      <3>1. Cardinality(Before(a)) = Cardinality(Before(b))
        OBVIOUS
      <3>2. a < b \/ b < a
        BY <1>1, <1>2
      <3> HIDE DEF Before
      <3> QED
        BY <1>2, <1>5, <3>1, <3>2
    <2>3. IsFiniteSet(0 .. free - 2) /\ Cardinality(0 .. free - 2) = free - 1
      BY <1>8, FS_Interval
    <2> HIDE DEF f
    <2> QED
      BY <1>2, <2>1, <2>2, <2>3, FewerInto
  <1> QED
    BY <1>2, <1>6, <1>7, <1>8

LEMMA HeldAfterAll ==
  ASSUME NEW B, IsABag(B), IsFiniteSet(DOMAIN B), NEW T, IsFiniteSet(T), NEW t
  PROVE  /\ (\A e \in T : ~HeldBy(e, t)) => SizeIn(B (+) SetToBag(T), t) = SizeIn(B, t)
         /\ SizeIn(B (+) SetToBag(T), t) <= SizeIn(B, t) + Cardinality(T)
  <1> DEFINE A == B (+) SetToBag(T)
             f == [e \in T |-> <<e, IF e \in DOMAIN B THEN B[e] + 1 ELSE 1>>]
             R == {f[e] : e \in T}
             old == NumberedIn(B, HeldIn(B, t))
             new == NumberedIn(A, HeldIn(A, t))
  <1>1. /\ IsABag(A) /\ DOMAIN A = DOMAIN B \cup T
        /\ \A x \in DOMAIN B \ T : A[x] = B[x]
        /\ \A x \in T : A[x] = IF x \in DOMAIN B THEN B[x] + 1 ELSE 1
    BY AllMore
  <1>2. IsFiniteSet(old) /\ Cardinality(old) \in Nat /\ Cardinality(T) \in Nat
    BY HeldAreFew, NatSize DEF SizeIn
  <1>3. \A x \in DOMAIN B : B[x] \in Nat /\ B[x] > 0
    BY DEF IsABag
  <1> HIDE DEF A
  <1>4. ASSUME \A e \in T : ~HeldBy(e, t)
        PROVE  new = old
    <2>1. HeldIn(A, t) = HeldIn(B, t) /\ \A x \in HeldIn(B, t) : A[x] = B[x]
      BY <1>1, <1>4 DEF HeldIn
    <2> QED
      BY <2>1 DEF NumberedIn
  <1>5. ASSUME NEW u \in new
        PROVE  u \in old \cup R
    <2>1. PICK x \in HeldIn(A, t) : \E i \in 1 .. A[x] : u = <<x, i>>
      BY CopyOf
    <2>2. PICK i \in 1 .. A[x] : u = <<x, i>>
      BY <2>1
    <2>3. x \in DOMAIN A /\ HeldBy(x, t)
      BY DEF HeldIn
    <2>4. CASE x \in DOMAIN B /\ i \in 1 .. B[x]
      <3>1. x \in HeldIn(B, t)
        BY <2>3, <2>4 DEF HeldIn
      <3> QED
        BY <2>2, <2>4, <3>1, CopyOf
    <2>5. CASE ~(x \in DOMAIN B /\ i \in 1 .. B[x])
      <3>1. x \in T
        BY <1>1, <2>2, <2>3, <2>5
      <3>2. i = IF x \in DOMAIN B THEN B[x] + 1 ELSE 1
        BY <1>1, <1>3, <2>2, <2>5, <3>1
      <3>3. u = f[x]
        BY <2>2, <3>1, <3>2
      <3> QED
        BY <3>1, <3>3
    <2> QED
      BY <2>4, <2>5
  <1>6. f \in Surjection(T, R)
    BY DEF Surjection
  <1> HIDE DEF f, R, old, new
  <1>7. IsFiniteSet(R) /\ Cardinality(R) <= Cardinality(T) /\ Cardinality(R) \in Nat
    BY <1>6, FS_Surjection, NatSize
  <1>8. /\ IsFiniteSet(old \cup R) /\ Cardinality(old \cup R) \in Nat
        /\ Cardinality(old \cup R) <= Cardinality(old) + Cardinality(R)
    <2>1. IsFiniteSet(old \cap R)
      BY <1>7, FS_Subset
    <2>2. Cardinality(old \cap R) \in Nat
      BY <2>1, NatSize
    <2>3. /\ IsFiniteSet(old \cup R)
          /\ Cardinality(old \cup R) = Cardinality(old) + Cardinality(R) - Cardinality(old \cap R)
      BY <1>2, <1>7, FS_Union
    <2>4. Cardinality(old \cup R) \in Nat
      BY <2>3, NatSize
    <2>5. Cardinality(old \cup R) <= Cardinality(old) + Cardinality(R)
      BY <1>2, <1>7, <2>2, <2>3
    <2> QED
      BY <2>3, <2>4, <2>5
  <1>9. new \in SUBSET (old \cup R)
    BY <1>5
  <1>10. Cardinality(new) <= Cardinality(old \cup R) /\ Cardinality(new) \in Nat
    BY <1>8, <1>9, FS_Subset, NatSize
  <1> QED
    BY <1>2, <1>4, <1>7, <1>8, <1>10 DEF SizeIn, A, old, new

LEMMA BroadcastsKeepsFew ==
  ASSUME Base, Base', Few, NEW s \in Server, Broadcasts(s)
  PROVE  Few'
  <1> SUFFICES ASSUME NEW t \in Server PROVE Fds(t)' <= MaxFds
    BY DEF Few
  <1>1. PICK B, free : LeavesFrom(s, B, free) /\ Broadcast(s, B, free)
    BY DEF Broadcasts
  <1> DEFINE T == Requests(s, free)
             f == [p \in Opened(s, free) |-> Conn(s, p, "request")]
  <1>2. SoundBag(B) /\ conns' = B (+) SetToBag(T) /\ IsFiniteSet(T)
    BY <1>1, BroadcastAdds DEF Broadcasts
  <1>3. /\ Fds(t) = SizeIn(conns, t) + Kept(t) /\ Fds(t)' = SizeIn(conns', t) + Kept(t)'
        /\ {SizeIn(conns, t), SizeIn(conns', t), Kept(t), Kept(t)', MaxFds} \subseteq Nat
        /\ Fds(t) <= MaxFds /\ Free(t) = MaxFds - Fds(t)
    BY FdsOf, FreeIsANumber DEF Few
  <1>4. Free(s) \in Nat
    BY FreeIsANumber DEF Few
  <1>5. /\ t = s => SizeIn(B, t) + Kept(t) + free = MaxFds
        /\ t # s => SizeIn(B, t) = SizeIn(conns, t)
        /\ free \in Nat
    <2>1. CASE B = conns /\ free = Free(s)
      BY <1>3, <1>4, <2>1
    <2>2. ASSUME NEW c \in DOMAIN conns, NEW d, free = Free(s) + 1, B = After(c, d), Moves(c, d),
                 c.from = s, c.near # "closed", d.near = "closed", d.far = c.far
          PROVE  /\ t = s => SizeIn(B, t) + Kept(t) + free = MaxFds
                 /\ t # s => SizeIn(B, t) = SizeIn(conns, t)
                 /\ free \in Nat
      <3>1. SizeIn(B, t) = SizeIn(conns, t) - (IF HeldBy(c, t) THEN 1 ELSE 0)
                                            + (IF HeldBy(d, t) THEN 1 ELSE 0)
        BY <2>2, AfterSize
      <3>2. c.from # c.to /\ d.from = c.from /\ d.to = c.to
        BY <2>2 DEF Base, OpenEnds, OpenEnd, Moves
      <3>3. t = s => HeldBy(c, t) /\ ~HeldBy(d, t)
        BY <2>2, <3>2 DEF HeldBy
      <3>4. t # s => (HeldBy(c, t) <=> HeldBy(d, t))
        BY <2>2, <3>2 DEF HeldBy
      <3> QED
        BY <1>3, <1>4, <2>2, <3>1, <3>3, <3>4
    <2> QED
      BY <1>1, <2>1, <2>2 DEF LeavesFrom
  <1>6. /\ IsFiniteSet(Opened(s, free)) /\ Cardinality(Opened(s, free)) \in Nat
        /\ free >= 1 => Cardinality(Opened(s, free)) <= free - 1
        /\ free < 1 => Opened(s, free) = {}
    BY <1>5, OpenedFit
  <1>7. Cardinality(T) <= Cardinality(Opened(s, free)) /\ Cardinality(T) \in Nat
    <2>1. f \in Surjection(Opened(s, free), T)
      BY DEF Surjection, Requests
    <2> HIDE DEF f, T
    <2> QED
      BY <1>2, <1>6, <2>1, FS_Surjection, NatSize
  <1>8. \A e \in T : e.from = s /\ e.far = "none"
    BY RequestShape
  <1> HIDE DEF T
  <1>9. /\ (\A e \in T : ~HeldBy(e, t)) => SizeIn(conns', t) = SizeIn(B, t)
        /\ SizeIn(conns', t) <= SizeIn(B, t) + Cardinality(T)
    BY <1>2, HeldAfterAll DEF SoundBag
  <1>10. SizeIn(B, t) \in Nat
    BY <1>2, HeldAreFew DEF SoundBag
  <1>11. Kept(t)' = IF t = s /\ free > 0 THEN Kept(t) + 1 ELSE Kept(t)
    <2>1. no_response' = [no_response EXCEPT ![s] = IF free > 0 THEN @ + 1 ELSE @]
      BY <1>1 DEF Broadcast
    <2>2. no_response'[t] = IF t = s /\ free > 0 THEN no_response[t] + 1 ELSE no_response[t]
      BY <2>1 DEF Base, Typed, CountersTyped
    <2>3. UNCHANGED <<req_fd, lost>>
      BY DEF Broadcasts
    <2> QED
      BY <2>2, <2>3 DEF Kept, Base, Typed, CountersTyped
  <1>12. CASE t # s
    <2>1. \A e \in T : ~HeldBy(e, t)
      BY <1>8, <1>12 DEF HeldBy
    <2> QED
      BY <1>3, <1>5, <1>9, <1>11, <1>12, <2>1
  <1>13. CASE t = s /\ free >= 1
    BY <1>3, <1>5, <1>6, <1>7, <1>9, <1>10, <1>11, <1>13
  <1>14. CASE t = s /\ free < 1
    <2>1. Cardinality(Opened(s, free)) = 0
      BY <1>6, <1>14, FS_EmptySet
    <2> QED
      BY <1>3, <1>5, <1>7, <1>9, <1>10, <1>11, <1>14, <2>1
  <1> QED
    BY <1>5, <1>12, <1>13, <1>14

(* Every connection that is left comes from at least as many that were     *)
(* there: number both, and take a new copy to the old one of its number.   *)
LEMMA DiesKeepsFew ==
  ASSUME Base, Base', Few, NEW s \in Server, Dies(s)
  PROVE  Few'
  <1> SUFFICES ASSUME NEW t \in Server PROVE Fds(t)' <= MaxFds
    BY DEF Few
  <1>1. PICK how \in {"exited", "killed", "fatal"} : Ended(s, how)
    BY DEF Dies
  <1> DEFINE F(d) == {c \in DOMAIN conns : Closed(s, c) = d}
             K(d) == NumberedIn(conns, F(d))
             Number(d) == CHOOSE g \in [1 .. Cardinality(K(d)) -> K(d)] :
                            \A a, b \in 1 .. Cardinality(K(d)) : g[a] = g[b] => a = b
             old == NumberedIn(conns, HeldIn(conns, t))
             held == HeldIn(conns', t)
             new == NumberedIn(conns', held)
             f == [u \in new |-> Number(u[1])[u[2]]]
  <1>2. /\ IsABag(conns) /\ IsFiniteSet(DOMAIN conns) /\ IsABag(conns') /\ IsFiniteSet(DOMAIN conns')
        /\ \A d \in DOMAIN conns' : conns'[d] = Count(F(d)) /\ \E c \in DOMAIN conns : d = Closed(s, c)
    BY <1>1, EndedLeaves DEF Base, Typed
  <1>3. /\ IsFiniteSet(old) /\ SizeIn(conns, t) = Cardinality(old)
        /\ IsFiniteSet(new) /\ SizeIn(conns', t) = Cardinality(new)
    <2>1. IsFiniteSet(old) /\ SizeIn(conns, t) = Cardinality(old)
      BY <1>2, HeldAreFew DEF SizeIn
    <2>2. IsFiniteSet(new) /\ SizeIn(conns', t) = Cardinality(new)
      BY <1>2, HeldAreFew DEF SizeIn
    <2> QED
      BY <2>1, <2>2
  <1>4. ASSUME NEW c \in DOMAIN conns, HeldBy(Closed(s, c), t)
        PROVE  t # s /\ c \in HeldIn(conns, t)
    <2>1. c \in Connection /\ c.from # c.to
      BY DEF Base, Typed, OpenEnds, OpenEnd
    <2>2. /\ Closed(s, c).from = c.from /\ Closed(s, c).to = c.to
          /\ Closed(s, c).near = IF c.from = s THEN "closed" ELSE c.near
          /\ c.to # s => Closed(s, c).far = c.far
          /\ c.to = s => Closed(s, c).far \notin {"backlog", "read", "write", "leaked"}
      BY <2>1, ClosedShape
    <2>3. CASE c.from = t
      BY <1>4, <2>1, <2>2, <2>3 DEF HeldBy, HeldIn
    <2>4. CASE c.to = t
      BY <1>4, <2>1, <2>2, <2>4 DEF HeldBy, HeldIn
    <2> QED
      BY <1>4, <2>2, <2>3, <2>4 DEF HeldBy
  <1>5. ASSUME NEW d \in held
        PROVE  /\ d \in DOMAIN conns'
               /\ F(d) \in SUBSET HeldIn(conns, t) /\ conns'[d] = Cardinality(K(d))
               /\ K(d) \subseteq old
               /\ Number(d) \in [1 .. Cardinality(K(d)) -> K(d)]
               /\ \A a, b \in 1 .. Cardinality(K(d)) : Number(d)[a] = Number(d)[b] => a = b
    <2>1. d \in DOMAIN conns' /\ HeldBy(d, t)
      BY DEF HeldIn
    <2>2. F(d) \in SUBSET HeldIn(conns, t)
      BY <1>4, <2>1
    <2>3. F(d) \in SUBSET DOMAIN conns
      OBVIOUS
    <2> HIDE DEF F
    <2>4. Count(F(d)) = Cardinality(K(d)) /\ IsFiniteSet(K(d))
      <3>1. IsFiniteSet(F(d))
        BY <1>2, <2>3, FS_Subset
      <3> QED
        BY <1>2, <2>3, <3>1, CountsAreNaturals, FewCopies
    <2>5. K(d) \subseteq old
      BY <2>2 DEF NumberedIn
    <2>6. \E g \in [1 .. Cardinality(K(d)) -> K(d)] :
            \A a, b \in 1 .. Cardinality(K(d)) : g[a] = g[b] => a = b
      <3> HIDE DEF K
      <3> QED
        BY <2>4, Numbering
    <2> HIDE DEF K
    <2>7. /\ Number(d) \in [1 .. Cardinality(K(d)) -> K(d)]
          /\ \A a, b \in 1 .. Cardinality(K(d)) : Number(d)[a] = Number(d)[b] => a = b
      BY <2>6
    <2> QED
      BY <1>2, <2>1, <2>2, <2>4, <2>5, <2>7
  <1>6. ASSUME NEW u \in new
        PROVE  /\ u[1] \in held /\ u[2] \in 1 .. Cardinality(K(u[1])) /\ u = <<u[1], u[2]>>
    <2>1. PICK d \in held : \E i \in 1 .. conns'[d] : u = <<d, i>>
      BY CopyOf
    <2>2. PICK i \in 1 .. conns'[d] : u = <<d, i>>
      BY <2>1
    <2>3. conns'[d] = Cardinality(K(d))
      BY <1>5
    <2> HIDE DEF K, held
    <2> QED
      BY <2>2, <2>3
  <1>7. ASSUME NEW w, NEW d, NEW e, w \in K(d), w \in K(e)
        PROVE  d = e
    <2>1. PICK c \in F(d) : \E i \in 1 .. conns[c] : w = <<c, i>>
      BY <1>7, CopyOf
    <2>2. PICK b \in F(e) : \E i \in 1 .. conns[b] : w = <<b, i>>
      BY <1>7, CopyOf
    <2>3. b = c
      BY <2>1, <2>2
    <2> QED
      BY <2>3
  <1> HIDE DEF K, Number, held, F
  <1>8. ASSUME NEW u \in new
        PROVE  Number(u[1])[u[2]] \in K(u[1]) /\ K(u[1]) \subseteq old
    <2>1. u[1] \in held /\ u[2] \in 1 .. Cardinality(K(u[1]))
      BY <1>6
    <2>2. /\ K(u[1]) \subseteq old
          /\ Number(u[1]) \in [1 .. Cardinality(K(u[1])) -> K(u[1])]
      BY <1>5, <2>1
    <2> QED
      BY <2>1, <2>2
  <1> HIDE DEF new, old
  <1>9. f \in [new -> old]
    BY <1>8
  <1>10. \A u, v \in new : f[u] = f[v] => u = v
    <2> SUFFICES ASSUME NEW u \in new, NEW v \in new, f[u] = f[v] PROVE u = v
      OBVIOUS
    <2>1. Number(u[1])[u[2]] = Number(v[1])[v[2]]
      OBVIOUS
    <2>2. u[1] = v[1]
      BY <1>7, <1>8, <2>1
    <2>3. u[2] = v[2]
      BY <1>5, <1>6, <2>1, <2>2
    <2> QED
      BY <1>6, <2>2, <2>3
  <1> HIDE DEF f
  <1>11. Cardinality(new) <= Cardinality(old)
    BY <1>3, <1>9, <1>10, FewerInto
  <1>12. Cardinality(new) \in Nat /\ Cardinality(old) \in Nat /\ MaxFds \in Nat
    BY <1>3, NatSize, ProcessAssumption
  <1>13. /\ Fds(t) = Cardinality(old) + Kept(t) /\ Fds(t)' = Cardinality(new) + Kept(t)'
         /\ Kept(t) \in Nat /\ Kept(t)' \in Nat /\ Fds(t) <= MaxFds
    BY <1>3, FdsOf DEF Few
  <1>14. Kept(t)' <= Kept(t)
    <2>1. /\ no_response' = [no_response EXCEPT ![s] = 0]
          /\ req_fd' = [req_fd EXCEPT ![s] = 0] /\ lost' = [lost EXCEPT ![s] = 0]
      BY <1>1 DEF Ended
    <2> QED
      BY <2>1 DEF Kept, Base, Typed, CountersTyped
  <1> QED
    BY <1>11, <1>12, <1>13, <1>14

LEMMA FewStep ==
  ASSUME Base, Base', Few, [Next]_vars
  PROVE  Few'
  <1>1. ASSUME conns' = conns, \A t \in Server : Kept(t)' <= Kept(t)
        PROVE  Few'
    BY <1>1, FdsOf DEF Few
  <1>2. CASE UNCHANGED vars
    BY <1>1, <1>2, NothingTaken DEF vars
  <1>3. ASSUME NEW s \in Server, Start(s)
        PROVE  Few'
    BY <1>1, <1>3, NothingTaken DEF Start
  <1>4. ASSUME Stands
        PROVE  Few'
    BY <1>1, <1>4 DEF Stands
  <1> QED
    <2>1. CASE Next
      BY <1>3, <1>4, <2>1, StepKinds, AdvancesKeepsFew, SendsKeepsFew, BroadcastsKeepsFew, DiesKeepsFew
    <2> QED
      BY <1>2, <2>1

(* The types, and the limit of descriptors: Accept and Broadcast stop      *)
(* before a process has more than it may have, and whatever fails, no      *)
(* socket is counted twice.                                                *)
THEOREM ProcessTypesAreKept == Spec => []TypeOK
  <1>1. Init => Base /\ Few
    <2> SUFFICES ASSUME Init PROVE Base /\ Few
      OBVIOUS
    <2>1. Base /\ DOMAIN conns = {}
      BY BaseAtFirst
    <2>2. ASSUME NEW t \in Server
          PROVE  Fds(t) <= MaxFds
      <3>1. NearEnds(t) \cup FarEnds(t) = {}
        BY <2>1 DEF NearEnds, FarEnds
      <3>2. Copies({}) = {}
        BY DEF Copies
      <3>3. Count(NearEnds(t) \cup FarEnds(t)) = 0
        BY <3>1, <3>2, FS_EmptySet DEF Count
      <3>4. Fds(t) = 0
        BY <3>3 DEF Fds, Init
      <3> QED
        BY <3>4, ProcessAssumption
    <2> QED
      BY <2>1, <2>2 DEF Few
  <1>2. Base /\ Few /\ [Next]_vars => Base' /\ Few'
    BY BaseStep, FewStep
  <1>3. Base /\ Few => TypeOK
    BY DEF Base, Typed, CountersTyped, Few, TypeOK, Connection
  <1> QED
    BY <1>1, <1>2, <1>3, PTL DEF Spec

-----------------------------------------------------------------------------
(* Sockets between servers leak only in trouble.                           *)

LEMMA TroubleGrows ==
  ASSUME Base, troubled \subseteq troubled', NEW c, PeerSound(c)
  PROVE  PeerSound(c)'
  BY DEF PeerSound

(* A step that changes one connection, or none.                            *)
LEMMA TroubleAfter ==
  ASSUME Base, TroubleIsKnown, troubled \subseteq troubled',
         \A s \in Server : pretend_fail'[s] => s \in troubled',
         NEW c \in DOMAIN conns, NEW d, conns' = conns \/ (Becomes(c, d) /\ PeerSound(d)')
  PROVE  TroubleIsKnown'
  <1>1. DOMAIN conns' \subseteq DOMAIN conns \/ (DOMAIN conns' \subseteq DOMAIN conns \cup {d} /\ PeerSound(d)')
    BY AfterIsABag DEF Becomes, Base, Typed
  <1>2. \A e \in DOMAIN conns : PeerSound(e)'
    BY TroubleGrows DEF TroubleIsKnown
  <1> QED
    BY <1>1, <1>2 DEF TroubleIsKnown

LEMMA TroubleEnded ==
  ASSUME Base, TroubleIsKnown, NEW s \in Server, NEW how, Ended(s, how), UNCHANGED pretend_fail
  PROVE  TroubleIsKnown'
  <1>1. troubled' = troubled \cup {s}
    BY DEF Ended
  <1>2. ASSUME NEW e \in DOMAIN conns'
        PROVE  PeerSound(e)'
    <2>1. PICK c \in DOMAIN conns : e = Closed(s, c)
      BY EndedLeaves
    <2>2. c \in Connection /\ c.from # c.to /\ PeerSound(c)
      BY DEF Base, Typed, OpenEnds, OpenEnd, TroubleIsKnown
    <2>3. /\ e.from = c.from /\ e.to = c.to
          /\ e.near = IF c.from = s THEN "closed" ELSE c.near
          /\ e.to # s => e.far = c.far
      BY <2>1, <2>2, ClosedShape
    <2>4. e.msg \in {c.msg, "nothing"}
      BY <2>1, <2>2 DEF Closed, Connection
    <2> QED
      BY <1>1, <2>2, <2>3, <2>4 DEF PeerSound
  <1> QED
    BY <1>1, <1>2 DEF TroubleIsKnown

LEMMA TroubleSend ==
  ASSUME Base, TroubleIsKnown, NEW s \in Server, Sends(s), UNCHANGED <<pretend_fail, troubled>>
  PROVE  TroubleIsKnown'
  <1>1. PICK msg \in Messages : DOMAIN conns' = DOMAIN conns \cup {Arrival(s, msg)}
    BY SendsAdds
  <1>2. Outside \notin Server
    BY ProcessAssumption DEF Server
  <1>3. Arrival(s, msg).from = Outside
    BY ArrivalShape
  <1>4. PeerSound(Arrival(s, msg))'
    BY <1>2, <1>3 DEF PeerSound
  <1>5. \A e \in DOMAIN conns : PeerSound(e)'
    BY TroubleGrows DEF TroubleIsKnown
  <1> QED
    BY <1>1, <1>4, <1>5 DEF TroubleIsKnown

LEMMA TroubleBroadcast ==
  ASSUME Base, TroubleIsKnown, NEW s \in Server, Alive(s), NEW B, NEW free,
         LeavesFrom(s, B, free), Broadcast(s, B, free), \A e \in DOMAIN B : PeerSound(e),
         UNCHANGED <<pretend_fail, troubled>>
  PROVE  TroubleIsKnown'
  <1>1. DOMAIN conns' = DOMAIN B \cup Requests(s, free)
    BY BroadcastAdds
  <1>2. \A d \in Requests(s, free) : PeerSound(d)
    BY RequestShape DEF PeerSound
  <1>3. \A e \in DOMAIN conns' : PeerSound(e)'
    BY <1>1, <1>2, TroubleGrows
  <1> QED
    BY <1>3 DEF TroubleIsKnown

LEMMA TroubleNear ==
  ASSUME Base, TroubleIsKnown, NEW c \in DOMAIN conns, Near(c)
  PROVE  TroubleIsKnown'
  <1>1. c \in Connection /\ OpenEnd(c) /\ PeerSound(c)
    BY DEF Base, Typed, OpenEnds, TroubleIsKnown
  <1>2. \A s \in Server : pretend_fail[s] => s \in troubled
    BY DEF TroubleIsKnown
  <1>3. CASE Connected(c)
    <2> DEFINE d == [c EXCEPT !.near = "write", !.far = "backlog"]
    <2>1. PeerSound(d)'
      BY <1>1, <1>3 DEF Connected, PeerSound, Connection
    <2> QED
      BY <1>2, <1>3, <2>1, TroubleAfter DEF Connected
  <1>4. CASE Refused(c)
    <2> DEFINE d == [c EXCEPT !.near = "leaked"]
    <2>1. PeerSound(d)'
      BY <1>1, <1>4 DEF Refused, PeerSound, Connection
    <2> QED
      BY <1>2, <1>4, <2>1, TroubleAfter DEF Refused
  <1>5. CASE Written(c)
    <2> DEFINE d == [c EXCEPT !.near = IF c.far \in {"fin", "rst"} THEN "leaked" ELSE "read"]
    <2>1. PeerSound(d)'
      BY <1>1, <1>5 DEF Written, PeerSound, Connection
    <2> QED
      BY <1>2, <1>5, <2>1, TroubleAfter DEF Written
  <1>6. CASE ReadResponse(c)
    <2> DEFINE s == c.from
    <2>0. PICK d : d = AfterResponse(c)
      OBVIOUS
    <2>1. s \in Server /\ Alive(s) /\ UNCHANGED <<pretend_fail, troubled>>
      BY <1>1, <1>6 DEF ReadResponse, OpenEnd
    <2>2. PeerSound(d) /\ PeerSound(d)'
      BY <1>1, <1>2, <1>6, <2>0, <2>1 DEF ReadResponse, AfterResponse, PeerSound, Connection
    <2>3. CASE Becomes(c, d)
      <3>1. troubled \subseteq troubled' /\ \A t \in Server : pretend_fail'[t] => t \in troubled'
        BY <1>2, <2>1
      <3> QED
        BY <2>2, <2>3, <3>1, TroubleAfter
    <2>4. CASE ~pretend_fail[s] /\ Broadcast(s, After(c, d), Free(s) + 1)
      <3>1. Moves(c, d) /\ d.far = c.far /\ d.near = "closed" /\ c.near # "closed"
        BY <1>1, <1>6, <2>0, <2>4 DEF Moves, Connection, ReadResponse, AfterResponse, OpenEnd, Open
      <3>2. LeavesFrom(s, After(c, d), Free(s) + 1)
        BY <3>1 DEF LeavesFrom
      <3>3. \A e \in DOMAIN After(c, d) : PeerSound(e)
        BY <2>2, AfterIsABag DEF TroubleIsKnown, Base, Typed
      <3> QED
        BY <2>1, <2>4, <3>2, <3>3, TroubleBroadcast
    <2> QED
      BY <1>6, <2>0, <2>3, <2>4 DEF ReadResponse
  <1>7. CASE ReadEnd(c)
    <2>1. CASE c.far = "fin" /\ ~pretend_fail[c.from]
      <3>1. Ended(c.from, "fatal") /\ c.from \in Server /\ UNCHANGED pretend_fail
        BY <1>1, <1>7, <2>1 DEF ReadEnd, OpenEnd
      <3> QED
        BY <3>1, TroubleEnded
    <2>2. CASE ~(c.far = "fin" /\ ~pretend_fail[c.from])
      <3> DEFINE d == [c EXCEPT !.near = "leaked"]
      <3>1. Becomes(c, d) /\ UNCHANGED <<pretend_fail, troubled>>
        BY <1>7, <2>2 DEF ReadEnd
      <3>2. PeerSound(d)'
        BY <1>1, <1>7, <3>1 DEF ReadEnd, PeerSound, Connection
      <3> QED
        BY <1>2, <3>1, <3>2, TroubleAfter
    <2> QED
      BY <2>1, <2>2
  <1> QED
    BY <1>3, <1>4, <1>5, <1>6, <1>7 DEF Near

LEMMA TroubleFar ==
  ASSUME Base, TroubleIsKnown, NEW c \in DOMAIN conns, Far(c)
  PROVE  TroubleIsKnown'
  <1>1. c \in Connection /\ OpenEnd(c) /\ PeerSound(c) /\ c.to \in Server
    BY DEF Base, Typed, OpenEnds, TroubleIsKnown, Connection
  <1>2. \A s \in Server : pretend_fail[s] => s \in troubled
    BY DEF TroubleIsKnown
  <1>3. Outside \notin Server
    BY ProcessAssumption DEF Server
  <1>4. ASSUME ReturnEarly(c), troubled \subseteq troubled', c.from = Outside \/ c.to \in troubled'
        PROVE  \E d : Becomes(c, d) /\ PeerSound(d)'
    <2>1. CASE c.from = Outside
      <3> DEFINE d == [c EXCEPT !.far = "done"]
      <3>1. Becomes(c, d) /\ d.from = c.from
        BY <1>1, <1>4, <2>1 DEF ReturnEarly, Connection
      <3>2. PeerSound(d)'
        BY <1>3, <2>1, <3>1 DEF PeerSound
      <3> QED
        BY <3>1, <3>2
    <2>2. CASE c.from # Outside
      <3> DEFINE d == [c EXCEPT !.far = "leaked"]
      <3>1. Becomes(c, d)
        BY <1>4, <2>2 DEF ReturnEarly
      <3>2. PeerSound(d)'
        BY <1>1, <1>4, <2>2 DEF PeerSound, Connection
      <3> QED
        BY <3>1, <3>2
    <2> QED
      BY <2>1, <2>2
  <1>5. CASE Accept(c)
    <2> DEFINE d == [c EXCEPT !.far = "read"]
    <2>1. troubled \subseteq troubled' /\ Becomes(c, d) /\ UNCHANGED pretend_fail
      BY <1>5 DEF Accept, Accepts
    <2>2. PeerSound(d)'
      BY <1>1, <2>1 DEF PeerSound, Connection
    <2> QED
      BY <1>2, <2>1, <2>2, TroubleAfter
  <1>6. CASE ReadCommand(c)
    <2>1. troubled \subseteq troubled' /\ ReturnEarly(c)
      BY <1>6 DEF ReadCommand
    <2>2. c.from = Outside
      BY <1>1, <1>6 DEF ReadCommand, PeerSound, Connection
    <2>3. \A s \in Server : pretend_fail'[s] => s \in troubled'
      BY <1>1, <1>2, <1>6 DEF ReadCommand, Base, Typed, CountersTyped
    <2> QED
      BY <1>4, <2>1, <2>2, <2>3, TroubleAfter
  <1>7. CASE ReadExit(c)
    BY <1>1, <1>7, TroubleEnded DEF ReadExit
  <1>8. CASE ReadRequest(c)
    <2> DEFINE d == [c EXCEPT !.far = "write"]
    <2>1. Becomes(c, d) /\ UNCHANGED <<pretend_fail, troubled>>
      BY <1>8 DEF ReadRequest
    <2>2. PeerSound(d)'
      BY <1>1, <2>1 DEF PeerSound, Connection
    <2> QED
      BY <1>2, <2>1, <2>2, TroubleAfter
  <1>9. CASE ReadOutside(c)
    <2> DEFINE d == [c EXCEPT !.far = "done"]
    <2>1. Becomes(c, d) /\ UNCHANGED <<pretend_fail, troubled>>
      BY <1>9 DEF ReadOutside
    <2>2. PeerSound(d)'
      BY <1>1, <2>1 DEF PeerSound, Connection
    <2> QED
      BY <1>2, <2>1, <2>2, TroubleAfter
  <1>10. CASE ReadNothing(c)
    BY <1>1, <1>10, TroubleEnded DEF ReadNothing
  <1>11. CASE Drop(c)
    <2>1. ReturnEarly(c) /\ UNCHANGED <<pretend_fail, troubled>> /\ c.to \in troubled
      BY <1>1, <1>2, <1>11 DEF Drop, Reaches
    <2> QED
      BY <1>2, <1>4, <2>1, TroubleAfter
  <1>12. CASE Responded(c)
    <2> DEFINE d == [c EXCEPT !.far = "done"]
    <2>1. Becomes(c, d) /\ UNCHANGED <<pretend_fail, troubled>>
      BY <1>12 DEF Responded
    <2>2. PeerSound(d)'
      BY <1>1, <2>1 DEF PeerSound, Connection
    <2> QED
      BY <1>2, <2>1, <2>2, TroubleAfter
  <1> QED
    BY <1>5, <1>6, <1>7, <1>8, <1>9, <1>10, <1>11, <1>12 DEF Far, Read

LEMMA TroubleStep ==
  ASSUME Base, TroubleIsKnown, [Next]_vars
  PROVE  TroubleIsKnown'
  <1>1. ASSUME conns' = conns, pretend_fail' = pretend_fail, troubled \subseteq troubled'
        PROVE  TroubleIsKnown'
    BY <1>1, TroubleGrows DEF TroubleIsKnown
  <1>2. CASE UNCHANGED vars
    BY <1>1, <1>2 DEF vars
  <1>3. ASSUME NEW s \in Server, Start(s)
        PROVE  TroubleIsKnown'
    BY <1>1, <1>3 DEF Start
  <1>4. ASSUME NEW s \in Server, Timeout(s)
        PROVE  TroubleIsKnown'
    <2>1. LeavesFrom(s, conns, Free(s))
      BY DEF LeavesFrom
    <2> QED
      BY <1>4, <2>1, TroubleBroadcast DEF Timeout, TroubleIsKnown
  <1>5. ASSUME NEW s \in Server, Parted(s) \/ AcceptFails(s)
        PROVE  TroubleIsKnown'
    BY <1>1, <1>5 DEF Parted, AcceptFails, Accepts
  <1>6. ASSUME NEW s \in Server, Killed(s)
        PROVE  TroubleIsKnown'
    BY <1>6, TroubleEnded DEF Killed
  <1>7. ASSUME NEW s \in Server, SenderKilled(s)
        PROVE  TroubleIsKnown'
    <2>1. Sends(s)
      <3>1. killed' > 0
        BY <1>7 DEF SenderKilled, Base, Typed, CountersTyped
      <3> QED
        BY <1>7, <3>1 DEF SenderKilled, Sends, Messages, outward
    <2> QED
      BY <1>7, <2>1, TroubleSend DEF SenderKilled
  <1>8. ASSUME NEW s \in Server, NEW msg \in {"request", "Stop", "Resume"}, Message(s, msg)
        PROVE  TroubleIsKnown'
    <2>1. Sends(s)
      BY <1>8 DEF Message, Sends, Messages, outward
    <2> QED
      BY <1>8, <2>1, TroubleSend DEF Message
  <1>9. ASSUME ExitCommand
        PROVE  TroubleIsKnown'
    <2>1. exits \in Server
      BY <1>9, ProcessAssumption DEF ExitCommand, Base, Typed, CountersTyped, Server
    <2>2. /\ UNCHANGED <<pretend_fail, troubled>> /\ UNCHANGED outward
          /\ process' = process /\ accepting' = accepting
      BY <1>9 DEF ExitCommand, outward
    <2>3. CASE Send(exits, "Exit")
      <3>1. Sends(exits)
        BY <2>2, <2>3 DEF Sends, Messages
      <3> QED
        BY <2>1, <2>2, <3>1, TroubleSend
    <2>4. CASE conns' = conns
      BY <1>1, <2>2, <2>4
    <2> QED
      BY <1>9, <2>3, <2>4 DEF ExitCommand
  <1> QED
    BY <1>2, <1>3, <1>4, <1>5, <1>6, <1>7, <1>8, <1>9, TroubleNear, TroubleFar DEF Next

(* On a connection between servers, whatever the number of servers and     *)
(* descriptors and however the broadcasts overlap, nothing leaks unless    *)
(* one of the two was told to stop, was missing, ended, or ran out of      *)
(* descriptors.                                                            *)
THEOREM PeersLeakOnlyInTrouble == Spec => []PeerLeaksNeedFailures
  <1>1. Init => Base /\ TroubleIsKnown
    BY BaseAtFirst
  <1>2. Base /\ TroubleIsKnown /\ [Next]_vars => Base' /\ TroubleIsKnown'
    BY BaseStep, TroubleStep
  <1>3. TroubleIsKnown => PeerLeaksNeedFailures
    BY DEF TroubleIsKnown, PeerSound, PeerLeaksNeedFailures
  <1> QED
    BY <1>1, <1>2, <1>3, PTL DEF Spec

=============================================================================
