------------------------------ MODULE RaftLog ------------------------------
(***************************************************************************)
(* The replicated log of a server (std::vector<LogEntry> in                *)
(* server/include/raftState.hpp) and the pure operations the executors     *)
(* apply to it: matching and merging an AppendEntries message, and paying  *)
(* out the entries a commit covers.                                        *)
(*                                                                         *)
(* The code numbers entries from 0 and uses -1 for "none"; an index i of   *)
(* the code is position i + 1 of the sequence.  Indexes keep the code's    *)
(* numbering, positions are only used inside these operators.              *)
(***************************************************************************)
EXTENDS Integers, Sequences, FiniteSets

CONSTANTS
  Account,      \* data items of this cluster's shard
  Txn,          \* transaction ids; an id stands for the whole request
  CrossShard,   \* ids of the cross-shard transactions
  Sender,       \* [Txn -> account], of another shard when not in Account
  Receiver,     \* [Txn -> account], likewise
  Amount,       \* [Txn -> units of money]
  MaxAmount     \* bound on the amount of a transaction

ASSUME TxnAssumption ==
  /\ CrossShard \subseteq Txn
  /\ MaxAmount \in Nat
  /\ Amount \in [Txn -> 0 .. MaxAmount]
  /\ \A t \in Txn \ CrossShard : Sender[t] \in Account /\ Receiver[t] \in Account

(* The tag in front of an entry's command; "PAY" is the command without    *)
(* a tag, an intra-shard payment.                                          *)
Kind == {"PAY", "PREPARE", "COMMIT", "ABORT"}

(* A log entry.  The command is its kind and its transaction; wait is      *)
(* req_fd != -1, a client connection that waits for the answer.            *)
Entry == [term : Nat \cup {-1}, index : Nat, kind : Kind, id : Txn, wait : BOOLEAN]

(* What an executor pushes at the end of lg. *)
Appended(lg, term, kind, t, wait) ==
  Append(lg, [term |-> term, index |-> Len(lg), kind |-> kind, id |-> t, wait |-> wait])

(* The log has an entry of one of these kinds for transaction t. *)
Logged(lg, kinds, t) == \E i \in DOMAIN lg : lg[i].kind \in kinds /\ lg[i].id = t

(* The entry, and nobody who waits for it. *)
WithoutFd(e) ==
  [term |-> e.term, index |-> e.index, kind |-> e.kind, id |-> e.id, wait |-> FALSE]

(* Faulty variants of Slice, for mutation: one entry is skipped; the file  *)
(* descriptors travel along.                                               *)
SliceSkips(lg, from) ==
  [k \in 1 .. Len(lg) - from - 1 |-> WithoutFd(lg[from + k + 1])]
SliceWithFd(lg, from) ==
  IF from < 0 THEN << >> ELSE [k \in 1 .. Len(lg) - from |-> lg[from + k]]

(* The slice from index "from" to the end, as a message carries it:        *)
(* without the file descriptors, empty when "from" is negative or past     *)
(* the end (the loop compares the int with an unsigned size).              *)
Slice(lg, from) ==
  IF from < 0 THEN << >>
  ELSE [k \in 1 .. Len(lg) - from |-> WithoutFd(lg[from + k])]

-----------------------------------------------------------------------------
(* AppendEntries on the receiving side.                                    *)

(* The entry before the new ones is in the log, with the sender's term.    *)
Matches(lg, prevlogindex, prevlogterm) ==
  /\ Len(lg) > prevlogindex
  /\ prevlogindex >= 0 => lg[prevlogindex + 1].term = prevlogterm

(* Faulty variant of Merge, for mutation: entries the log already holds    *)
(* are appended again.                                                     *)
MergeAppends(lg, prevlogindex, entries) == lg \o entries

(* Entries of the log are kept as long as their terms agree with the       *)
(* message; from the first that differs or is missing, the tail is cut off *)
(* and replaced.  A message that agrees with the log to its last entry     *)
(* cuts nothing.                                                           *)
Merge(lg, prevlogindex, entries) ==
  LET base    == prevlogindex + 1
      last    == base + Len(entries)
      kept(p) == \A q \in base + 1 .. p : q <= Len(lg) /\ lg[q].term = entries[q - base].term
  IN IF kept(last) THEN lg
     ELSE [p \in 1 .. last |-> IF kept(p) THEN lg[p] ELSE entries[p - base]]

-----------------------------------------------------------------------------
(* Paying out.                                                             *)

(* The units that transaction t takes out of and puts into account a. *)
Debit(t, a)  == IF Sender[t] = a THEN Amount[t] ELSE 0
Credit(t, a) == IF Receiver[t] = a THEN Amount[t] ELSE 0

(* The balances after transaction t moved its money; an account of another *)
(* shard is not in the table.                                              *)
Transfer(bal, t) == [a \in Account |-> bal[a] - Debit(t, a) + Credit(t, a)]

(* Every unit that the payments at positions P of lg take out of account a *)
(* (or put into it) is one element of the set that is counted, so that     *)
(* the sum over the positions is a cardinality.                            *)
PaidOut(lg, P, a) ==
  Cardinality({u \in P \X (1 .. MaxAmount) :
                 lg[u[1]].kind = "PAY" /\ u[2] <= Debit(lg[u[1]].id, a)})
PaidIn(lg, P, a) ==
  Cardinality({u \in P \X (1 .. MaxAmount) :
                 lg[u[1]].kind = "PAY" /\ u[2] <= Credit(lg[u[1]].id, a)})

(* The balances after the intra-shard payments at positions P of lg; the   *)
(* cross-shard entries move nothing when they commit.                      *)
ApplyPayments(bal, lg, P) == [a \in Account |-> bal[a] - PaidOut(lg, P, a) + PaidIn(lg, P, a)]

(* The accounts a payment or a PREPARE at positions P of lg touches. *)
Touched(lg, P) ==
  (UNION {{Sender[lg[p].id], Receiver[lg[p].id]} :
            p \in {q \in P : lg[q].kind \in {"PAY", "PREPARE"}}}) \cap Account

(* The log once every client waiting at positions P has been answered. *)
Answered(lg, P) == [p \in DOMAIN lg |-> IF p \in P THEN WithoutFd(lg[p]) ELSE lg[p]]

=============================================================================
