------------------------------ MODULE MCPayments ------------------------------
(* Instances of Payments for TLC. *)
EXTENDS Payments, TLC

CONSTANTS a1, a2, w1, w2

MCInitDelays == [x \in Configurable |-> 1]
Symmetric == Permutations({a1, a2}) \cup Permutations({w1, w2})
==============================================================================
