---------------------------- MODULE AtomicCommit ----------------------------
(***************************************************************************)
(* What two-phase commit promises of the transactions it takes on, without *)
(* requests, timeouts or a coordinator: a transaction is decided once, and *)
(* COMMIT is decided only when both of its clusters have said YES.         *)
(***************************************************************************)
CONSTANTS
  Txn,        \* the transactions
  Cluster,    \* the clusters
  Voters      \* [Txn -> the set of clusters that are asked]

VARIABLES
  agreed,     \* [Txn -> the clusters that said YES]
  outcome     \* [Txn -> "none", "COMMIT" or "ABORT"]

vars == <<agreed, outcome>>

Init ==
  /\ agreed = [t \in Txn |-> {}]
  /\ outcome = [t \in Txn |-> "none"]

Decide(t, decision) ==
  /\ outcome[t] = "none"
  /\ outcome' = [outcome EXCEPT ![t] = decision]

(* A cluster says YES; the last one to do so may decide the transaction. *)
Agree(t) ==
  /\ \E c \in Voters[t] : agreed' = [agreed EXCEPT ![t] = @ \cup {c}]
  /\ UNCHANGED outcome \/ (Voters[t] \subseteq agreed'[t] /\ Decide(t, "COMMIT"))

Abort(t) == Decide(t, "ABORT") /\ UNCHANGED agreed

Next == \E t \in Txn : Agree(t) \/ Abort(t)

Spec == Init /\ [][Next]_vars

=============================================================================
