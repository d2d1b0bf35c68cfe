---------------------- MODULE RoutingServiceProperties ----------------------
(***************************************************************************)
(* What the routing service promises, and what it is said to promise.      *)
(***************************************************************************)
EXTENDS RoutingService

Steps == [txn : Txn, cluster : Cluster, queue : BOOLEAN]

(* Every variable keeps its type; in particular a redirect always finds a  *)
(* server, also when no leader is known (config.py:49-51).                 *)
TypeOK ==
  /\ leader_per_cluster \in [Cluster -> Member \cup {Unknown}]
  /\ transaction_request \in [Cluster -> Seq(Txn)]
  /\ num_reply_for_2PC \in [Txn -> Int]
  /\ at \in [Coroutine -> {"new", "idle", "response", "COMMIT", "ABORT", "TIMEOUT"}]
  /\ work \in [Coroutine -> Seq(Steps)]
  /\ server \in [Coroutine -> Member]
  /\ thread \in [at : {"idle", "scan", "ABORT", "dead"}, cluster : Cluster \cup {Unknown},
                 old : Seq(Txn), kept : Seq(Txn)]
  /\ told \in [Txn -> {"nothing", "RESULT", "SUCCEED", "ABORTED"}]
  /\ elections \in Nat /\ scans \in Nat
  /\ direct \subseteq Txn /\ refused \subseteq Txn
  /\ queued \in [Txn -> SUBSET Cluster]
  /\ yes \in [Txn -> [Cluster -> Nat]]
  /\ sent \in [Txn -> SUBSET {"COMMIT", "ABORT"}]

(* COMMIT without a YES of both clusters is broadcast only for a           *)
(* transaction that was put in the queue of one of them when it came, and  *)
(* that this cluster said YES to twice, because its queue was flushed      *)
(* twice: a coroutine asks no cluster twice, no queue, flush or scan gives *)
(* a request to another cluster, and a YES that comes after an abort, of   *)
(* whatever coroutine or thread, never completes the count                 *)
(* (routingservice.py:118-131,203-216,268-291,372-392).  This is what      *)
(* RaftShard's Decided assumes of the service.                             *)
SaidYes(t) == {c \in Cluster : yes[t][c] > 0}

CommitNeedsTwoYes ==
  \A t \in Txn : "COMMIT" \in sent[t] =>
    \/ {From[t], To[t]} \subseteq SaidYes(t)
    \/ \E c \in queued[t] : yes[t][c] >= 2

(* A cross-shard transaction that found both leaders when it came is       *)
(* atomic, also when leaders change and answers fail or are late while it  *)
(* is on its way: it is never both committed and aborted, it is committed  *)
(* only with the YES of both clusters, and its client is told what was     *)
(* sent to the servers (routingservice.py:203-216,243-291).                *)
DirectIsAtomic ==
  \A t \in direct \cap CrossShard :
    /\ sent[t] # {"COMMIT", "ABORT"}
    /\ "COMMIT" \in sent[t] => {From[t], To[t]} \subseteq SaidYes(t)
    /\ told[t] = "SUCCEED" => sent[t] = {"COMMIT"}
    /\ told[t] = "ABORTED" => sent[t] = {"ABORT"}

(* The service implements two-phase commit for these transactions.         *)
Managed(t) == t \in direct
Outcome(t) ==
  CASE ~Managed(t) \/ sent[t] = {} -> "none"
    [] Managed(t) /\ sent[t] = {"COMMIT"} -> "COMMIT"
    [] Managed(t) /\ sent[t] = {"ABORT"} -> "ABORT"
    [] OTHER -> "both"
Agreed(t) == IF Managed(t) THEN SaidYes(t) ELSE {}

TwoPhaseCommit == INSTANCE AtomicCommit
  WITH Txn <- CrossShard,
       Voters <- [t \in CrossShard |-> {From[t], To[t]}],
       agreed <- [t \in CrossShard |-> Agreed(t)],
       outcome <- [t \in CrossShard |-> Outcome(t)]
ImplementsAtomicCommit == TwoPhaseCommit!Spec

(* Such a transaction is decided and its client told, whatever the servers *)
(* answer or fail to, unless a server refuses the connection: then the     *)
(* exception of open_connection leaves it undecided                        *)
(* (routingservice.py:256-268, utils.py:96).                               *)
DirectIsAnswered ==
  \A t \in CrossShard : (t \in direct) ~> (told[t] # "nothing" \/ t \in refused)

-----------------------------------------------------------------------------
(* What the README says and the code does not keep.                        *)

(* "all participating shards either commit or abort the transaction as a   *)
(* single unit" (README.md:19): no transaction is sent both decisions.     *)
OneDecision == \A t \in Txn : sent[t] # {"COMMIT", "ABORT"}

(* "collect all votes, enter 2PC COMMIT phase" (routingservice.py:277):    *)
(* COMMIT is broadcast only with the YES of both clusters.                 *)
CommitNeedsBothClusters ==
  \A t \in Txn : "COMMIT" \in sent[t] => {From[t], To[t]} \subseteq SaidYes(t)

=============================================================================
