--------------------------- MODULE RoutingService ---------------------------
(***************************************************************************)
(* The routing service (client/routingservice.py): it learns the leaders,  *)
(* queues requests of a cluster without one, redirects payments, and       *)
(* coordinates two-phase commit.                                           *)
(*                                                                         *)
(* One event loop runs a coroutine per connection, so that everything      *)
(* between two awaits is one action.  The timeout thread                   *)
(* (process_message_queue) runs beside the loop on the same tables.        *)
(*                                                                         *)
(* The clusters are the environment: a server that is asked says YES or    *)
(* NO, or does not answer in time, or is gone.  Time is not modelled.      *)
(***************************************************************************)
EXTENDS Integers, Sequences, FiniteSets

CONSTANTS
  Cluster,
  Member,       \* a server's place in its cluster
  LastMember,   \* the place with index 2
  Unknown,      \* leader_per_cluster[c] = -1
  Txn,          \* the requests of the clients
  CrossShard,   \* those between two clusters
  From, To,     \* [Txn -> Cluster], the sender's and the receiver's cluster
  Flush,        \* bound: coroutines that flush a queue at the same time
  MaxElections, \* bound: RequestVote messages that reach the service
  MaxScans,     \* bound: queues the timeout thread goes through
  MaxRefused    \* bound: PREPAREs that meet a server that is gone

ASSUME RoutingAssumption ==
  /\ LastMember \in Member /\ Unknown \notin Member
  /\ CrossShard \subseteq Txn /\ Flush \cap Txn = {}
  /\ From \in [Txn -> Cluster] /\ To \in [Txn -> Cluster]
  /\ \A t \in Txn : t \in CrossShard <=> From[t] # To[t]
  /\ {MaxElections, MaxScans, MaxRefused} \subseteq Nat

VARIABLES
  leader_per_cluster,
  transaction_request,  \* [Cluster -> queue of requests]
  num_reply_for_2PC,    \* [Txn -> YES counted, -1 after an abort]
  at,                   \* what each coroutine awaits
  work,                 \* what each coroutine still has to do, current step first
  server,               \* the server that the coroutine's current step asks
  thread,               \* the timeout thread
  told,                 \* what the client of each request was told
  elections, scans,     \* how often so far, against the bounds
  direct,               \* history: requests that found every leader they need
  queued,               \* history: [Txn -> the clusters in whose queues they were put]
  refused,              \* history: requests that met a server that is gone
  yes,                  \* history: [Txn -> [Cluster -> YES answers so far]]
  sent                  \* history: [Txn -> the decisions broadcast]

tables    == <<transaction_request, num_reply_for_2PC>>
coroutine == <<at, work, server>>
counters  == <<elections, scans>>
history   == <<direct, queued, refused, yes, sent>>
vars == <<leader_per_cluster, tables, coroutine, thread, told, counters, history>>

Coroutine == Txn \cup Flush
Idle == [at |-> "idle", cluster |-> Unknown, old |-> << >>, kept |-> << >>]

Init ==
  /\ leader_per_cluster = [c \in Cluster |-> Unknown]
  /\ transaction_request = [c \in Cluster |-> << >>]
  /\ num_reply_for_2PC = [t \in Txn |-> 0]
  /\ at = [k \in Coroutine |-> IF k \in Txn THEN "new" ELSE "idle"]
  /\ work = [k \in Coroutine |-> << >>]
  /\ server = [k \in Coroutine |-> LastMember]
  /\ thread = Idle
  /\ told = [t \in Txn |-> "nothing"]
  /\ elections = 0 /\ scans = 0
  /\ direct = {} /\ refused = {}
  /\ queued = [t \in Txn |-> {}]
  /\ yes = [t \in Txn |-> [c \in Cluster |-> 0]]
  /\ sent = [t \in Txn |-> {}]

-----------------------------------------------------------------------------
(* Coroutines.                                                             *)

(* A step redirects a request to a cluster or puts it in its queue. *)
Step(t, c, queue) == [txn |-> t, cluster |-> c, queue |-> queue]

Current(k) == work[k][1]

(* Faulty variant of Target, for mutation: -1 is no index.                 *)
TargetAsKnown(c) == leader_per_cluster'[c]

(* server_id_to_index(-1) = -1 - (-1 // 3) * 3 = 2.                        *)
Target(c) == IF leader_per_cluster'[c] = Unknown THEN LastMember ELSE leader_per_cluster'[c]

(* Coroutine k goes on to its next await: it queues what is to be queued   *)
(* and sends the next request to whom it now takes for the leader.  A      *)
(* flush that comes to its end empties the queue.                          *)
RunOn(k, steps) ==
  LET n       == Cardinality({i \in DOMAIN steps : \A j \in 1 .. i : steps[j].queue})
      todo    == SubSeq(steps, n + 1, Len(steps))
      parked  == {steps[i].cluster : i \in 1 .. n}
      flushed == IF k \in Flush /\ todo = << >> THEN {Current(k).cluster} ELSE {}
  IN /\ work' = [work EXCEPT ![k] = todo]
     /\ at' = [at EXCEPT ![k] = IF todo = << >> THEN "idle" ELSE "response"]
     /\ server' = [server EXCEPT ![k] = IF todo = << >> THEN @ ELSE Target(todo[1].cluster)]
     /\ transaction_request' =
          [c \in Cluster |-> CASE c \in flushed -> << >>
                               [] c \in parked -> Append(transaction_request[c], steps[1].txn)
                               [] OTHER -> transaction_request[c]]

(* An exception ends the coroutine, and a flush leaves its queue as it is. *)
Raise(k) ==
  /\ work' = [work EXCEPT ![k] = << >>]
  /\ at' = [at EXCEPT ![k] = "idle"]
  /\ UNCHANGED <<server, transaction_request>>

Await(k, what) == at' = [at EXCEPT ![k] = what] /\ UNCHANGED <<work, server, transaction_request>>

-----------------------------------------------------------------------------
(* handle_request.                                                         *)

(* The sender's cluster comes first; both leaders are looked up at once.   *)
Arrive(t) ==
  LET queue(c) == leader_per_cluster[c] = Unknown
      steps    == IF t \in CrossShard
                  THEN <<Step(t, From[t], queue(From[t])), Step(t, To[t], queue(To[t]))>>
                  ELSE <<Step(t, From[t], queue(From[t]))>>
  IN /\ at[t] = "new"
     /\ UNCHANGED <<leader_per_cluster, num_reply_for_2PC, thread, told, counters,
                    refused, yes, sent>>
     /\ RunOn(t, steps)
     /\ queued' = [queued EXCEPT ![t] = {c \in {steps[i].cluster : i \in DOMAIN steps} : queue(c)}]
     /\ direct' = IF queued'[t] = {} THEN direct \cup {t} ELSE direct

(* The latest heartbeat wins, whoever sent it; after a time without a      *)
(* leader it flushes a copy of the queue.                                  *)
HeartBeat(c, m) ==
  /\ leader_per_cluster' = [leader_per_cluster EXCEPT ![c] = m]
  /\ IF leader_per_cluster[c] # Unknown \/ transaction_request[c] = << >>
     THEN UNCHANGED <<tables, coroutine>>
     ELSE \E f \in Flush :
            /\ at[f] = "idle"
            /\ RunOn(f, [i \in DOMAIN transaction_request[c] |->
                           Step(transaction_request[c][i], c, FALSE)])
            /\ UNCHANGED num_reply_for_2PC
  /\ UNCHANGED <<thread, told, counters, history>>

RequestVote(c) ==
  /\ elections < MaxElections
  /\ elections' = elections + 1
  /\ leader_per_cluster' = [leader_per_cluster EXCEPT ![c] = Unknown]
  /\ UNCHANGED <<tables, coroutine, thread, told, scans, history>>

-----------------------------------------------------------------------------
(* redirect_intra_shard_request_to_server.                                 *)

Asks(k, T) == at[k] = "response" /\ Current(k).txn \in T

(* The answer is passed on; the writer of a client that was answered       *)
(* before is closed, and drain() raises.                                   *)
PaymentAnswered(k) ==
  LET t == Current(k).txn IN
  /\ Asks(k, Txn \ CrossShard)
  /\ UNCHANGED <<leader_per_cluster, num_reply_for_2PC, thread, counters, history>>
  /\ IF told[t] # "nothing"
     THEN Raise(k) /\ UNCHANGED told
     ELSE /\ told' = [told EXCEPT ![t] = "RESULT"]
          /\ RunOn(k, Tail(work[k]))

PaymentTimesOut(k) ==
  /\ Asks(k, Txn \ CrossShard)
  /\ Raise(k)
  /\ UNCHANGED <<leader_per_cluster, num_reply_for_2PC, thread, told, counters, history>>

-----------------------------------------------------------------------------
(* redirect_cross_shard_request_to_server and the broadcasts.              *)

Broadcast(t, decision) == sent' = [sent EXCEPT ![t] = @ \cup {decision}]

(* Faulty variant of EnoughYes, for mutation: the first YES is enough.     *)
EnoughYesOfOne(n) == n = 1

EnoughYes(n) == n = 2

(* A server refuses a PREPARE only while it is in its log: another leader, *)
(* or one that lost it, says YES when a queue is flushed again.            *)
SaysYes(k) ==
  LET t == Current(k).txn
      n == num_reply_for_2PC[t] + 1
  IN /\ Asks(k, CrossShard)
     /\ UNCHANGED <<leader_per_cluster, thread, told, counters, direct, queued, refused>>
     /\ yes' = [yes EXCEPT ![t][Current(k).cluster] = @ + 1]
     /\ num_reply_for_2PC' = [num_reply_for_2PC EXCEPT ![t] = n]
     /\ IF EnoughYes(n)
        THEN Await(k, "COMMIT") /\ Broadcast(t, "COMMIT")
        ELSE RunOn(k, Tail(work[k])) /\ UNCHANGED sent

SaysNo(k) ==
  LET t == Current(k).txn IN
  /\ Asks(k, CrossShard)
  /\ UNCHANGED <<leader_per_cluster, num_reply_for_2PC, thread, told, counters,
                 direct, queued, refused, yes>>
  /\ IF num_reply_for_2PC[t] # -1
     THEN Await(k, "ABORT") /\ Broadcast(t, "ABORT")
     ELSE RunOn(k, Tail(work[k])) /\ UNCHANGED sent

(* Faulty variant of TimesOut, for mutation: nobody is told.               *)
TimesOutSilently(k) ==
  /\ Asks(k, CrossShard)
  /\ Raise(k)
  /\ UNCHANGED <<leader_per_cluster, num_reply_for_2PC, thread, told, counters, history>>

(* After the abort, the missing response raises an exception (line 270).   *)
TimesOut(k) ==
  LET t == Current(k).txn IN
  /\ Asks(k, CrossShard)
  /\ UNCHANGED <<leader_per_cluster, num_reply_for_2PC, thread, told, counters,
                 direct, queued, refused, yes>>
  /\ IF num_reply_for_2PC[t] # -1
     THEN Await(k, "TIMEOUT") /\ Broadcast(t, "ABORT")
     ELSE Raise(k) /\ UNCHANGED sent

(* A server that is gone refuses the connection, or closes it without an   *)
(* answer: an exception that nothing handles.                              *)
Refuses(k) ==
  /\ Asks(k, CrossShard)
  /\ Cardinality(refused) < MaxRefused
  /\ Raise(k)
  /\ refused' = refused \cup {Current(k).txn}
  /\ UNCHANGED <<leader_per_cluster, num_reply_for_2PC, thread, told, counters,
                 direct, queued, yes, sent>>

Verdict(what) == IF what = "COMMIT" THEN "SUCCEED" ELSE "ABORTED"

(* The broadcast is over, whoever answered it; the client is told, unless  *)
(* its writer is closed already: then drain() raises.  Only now an abort   *)
(* is noted in num_reply_for_2PC.                                          *)
BroadcastEnds(k) ==
  LET t == Current(k).txn IN
  /\ at[k] \in {"COMMIT", "ABORT", "TIMEOUT"}
  /\ UNCHANGED <<leader_per_cluster, thread, counters, history>>
  /\ IF told[t] # "nothing"
     THEN Raise(k) /\ UNCHANGED <<num_reply_for_2PC, told>>
     ELSE /\ told' = [told EXCEPT ![t] = Verdict(at[k])]
          /\ num_reply_for_2PC' =
               [num_reply_for_2PC EXCEPT ![t] = IF at[k] = "COMMIT" THEN @ ELSE -1]
          /\ IF at[k] = "TIMEOUT" THEN Raise(k) ELSE RunOn(k, Tail(work[k]))

-----------------------------------------------------------------------------
(* process_message_queue, the timeout thread.                              *)

(* It goes through a copy of the queue; the n oldest requests are past     *)
(* their 3 seconds.                                                        *)
ScanBegins(c) ==
  LET copy == transaction_request[c] IN
  /\ thread.at = "idle" /\ copy # << >>
  /\ scans < MaxScans
  /\ scans' = scans + 1
  /\ \E n \in 0 .. Len(copy) :
       thread' = [at |-> "scan", cluster |-> c, old |-> SubSeq(copy, 1, n),
                  kept |-> SubSeq(copy, n + 1, Len(copy))]
  /\ UNCHANGED <<leader_per_cluster, tables, coroutine, told, elections, history>>

NextOld == thread' = [thread EXCEPT !.at = "scan", !.old = Tail(@)]

(* A payment is dropped; a cross-shard request is aborted. *)
ScanStep ==
  LET t == thread.old[1] IN
  /\ thread.at = "scan" /\ thread.old # << >>
  /\ IF t \in CrossShard /\ num_reply_for_2PC[t] # -1
     THEN thread' = [thread EXCEPT !.at = "ABORT"] /\ Broadcast(t, "ABORT")
     ELSE NextOld /\ UNCHANGED sent
  /\ UNCHANGED <<leader_per_cluster, tables, coroutine, told, counters, direct, queued, refused, yes>>

(* The writer belongs to the event loop of the service: awaiting it in the *)
(* thread's own loop may raise, and always does when the writer is closed. *)
(* An exception ends the thread for good.                                  *)
ScanAborted ==
  LET t == thread.old[1] IN
  /\ thread.at = "ABORT"
  /\ told' = [told EXCEPT ![t] = IF @ = "nothing" THEN "ABORTED" ELSE @]
  /\ \/ /\ thread' = [Idle EXCEPT !.at = "dead"]
        /\ UNCHANGED num_reply_for_2PC
     \/ /\ told[t] = "nothing"
        /\ NextOld
        /\ num_reply_for_2PC' = [num_reply_for_2PC EXCEPT ![t] = -1]
  /\ UNCHANGED <<leader_per_cluster, transaction_request, coroutine, counters, history>>

(* The queue becomes what was kept of the copy, whatever happened to it    *)
(* meanwhile.                                                              *)
ScanEnds ==
  /\ thread.at = "scan" /\ thread.old = << >>
  /\ transaction_request' = [transaction_request EXCEPT ![thread.cluster] = thread.kept]
  /\ thread' = Idle
  /\ UNCHANGED <<leader_per_cluster, num_reply_for_2PC, coroutine, told, counters, history>>

-----------------------------------------------------------------------------

Resumes(k) ==
  \/ PaymentAnswered(k) \/ PaymentTimesOut(k)
  \/ SaysYes(k) \/ SaysNo(k) \/ TimesOut(k) \/ Refuses(k)
  \/ BroadcastEnds(k)

Thread == (\E c \in Cluster : ScanBegins(c)) \/ ScanStep \/ ScanAborted \/ ScanEnds

Next ==
  \/ \E t \in Txn : Arrive(t)
  \/ \E c \in Cluster : RequestVote(c) \/ \E m \in Member : HeartBeat(c, m)
  \/ \E k \in Coroutine : Resumes(k)
  \/ Thread

Spec == Init /\ [][Next]_vars

(* The event loop never blocks, every await ends (answers after 3 seconds  *)
(* at the latest), and the thread is scheduled.  Nothing says when clients *)
(* and heartbeats come.                                                    *)
Fairness == (\A k \in Coroutine : WF_vars(Resumes(k))) /\ WF_vars(ScanStep \/ ScanAborted \/ ScanEnds)

FairSpec == Spec /\ Fairness

=============================================================================
