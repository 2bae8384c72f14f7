------------------------------ MODULE MCApiLogs ------------------------------
(* Instances of ApiLogs for TLC. *)
EXTENDS ApiLogs, TLC

CONSTANTS c1, c2

\* Calls are not singled out by any definition.
CallSymmetry == Permutations(Calls)
==============================================================================
