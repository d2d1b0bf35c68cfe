--------------------------- MODULE LeaderElection ---------------------------
(***************************************************************************)
(* What leader election promises to the rest of the system, without        *)
(* messages and votes: terms only grow, a term has at most one leader      *)
(* ever, and a leader that moves to another term no longer leads.          *)
(***************************************************************************)
EXTENDS Naturals

CONSTANT Server

VARIABLES
  term,      \* the term each server is in
  leading,   \* the servers that lead the term they are in
  elected    \* history: [term, leader] of every election

vars == <<term, leading, elected>>

Init ==
  /\ term = [s \in Server |-> 0]
  /\ leading = {}
  /\ elected = {}

(* A server moves to a later term, not leading it. *)
Advance(s) ==
  /\ term'[s] \in Nat /\ term'[s] > term[s]
  /\ term' = [term EXCEPT ![s] = term'[s]]
  /\ leading' = leading \ {s}
  /\ UNCHANGED elected

(* A server becomes the leader of its term, which had none before. *)
Elect(s) ==
  /\ \A e \in elected : e.term # term[s]
  /\ leading' = leading \cup {s}
  /\ elected' = elected \cup {[term |-> term[s], leader |-> s]}
  /\ UNCHANGED term

Next == \E s \in Server : Advance(s) \/ Elect(s)

Spec == Init /\ [][Next]_vars

=============================================================================
