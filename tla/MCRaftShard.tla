---------------------------- MODULE MCRaftShard ----------------------------
(* Values of the constants for the runs on one cluster. *)
EXTENDS RaftShardProperties

CONSTANTS s0, s1, s2, t1, t2, t3, t4, a1, a2, a3, a4, b1

(* t1 and t2 pay from a1 to a2 and a1 has not enough for both; t3 takes    *)
(* money from a1 to another shard; t4 pays between two other accounts.     *)
MCSender == [t \in Txn |-> IF t = t4 THEN a3 ELSE a1]
MCReceiver == [t \in Txn |-> CASE t = t3 -> b1 [] t = t4 -> a4 [] OTHER -> a2]
MCAmount == [t \in Txn |-> IF t = t1 THEN 2 ELSE 1]

MCBalance == [a \in Account |-> 2]

(* Servers that may stand are alike, and so are the others, but for the    *)
(* last server, to which misdirected requests go.                          *)
Symmetry ==
  Permutations(Server \ (MayStand \cup {LastServer})) \cup Permutations(MayStand \ {LastServer})

(* Without requests the last server is like the others. *)
SymmetryOfElection == Permutations(Server \ MayStand) \cup Permutations(MayStand)

=============================================================================
