-------------------------- MODULE MCRoutingService --------------------------
(* Values of the constants for the runs on the routing service. *)
EXTENDS RoutingServiceProperties

CONSTANTS c0, c1, m0, m2, x, p, f0, f1

(* x pays from c0 to c1, p is a payment inside c0.                         *)
MCFrom == [t \in Txn |-> c0]
MCTo == [t \in Txn |-> IF t = x THEN c1 ELSE c0]

(* A queue that is flushed again goes to another server, which does not    *)
(* have the request in its log: the traces of one_cluster_commit.          *)
FlushesAskAnother ==
  \A f, g \in Flush :
    f # g /\ at[f] = "idle" /\ at'[f] = "response" /\ at[g] # "idle" => server'[f] # server[g]

=============================================================================
