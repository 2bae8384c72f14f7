------------------------------ MODULE MCPayouts ------------------------------
(* Instances of Payouts for TLC. *)
EXTENDS Payouts, TLC

CONSTANTS a, b, s1, s2, adm, adm2

MCPayAmounts == 0..3
MCOtps == {"0000", "0002"}

\* Sessions and admins are not singled out by any definition.
Interchangeable == Permutations(Sessions) \cup Permutations(Admins)
==============================================================================
