--------------------------- MODULE MCAdminAccounts ---------------------------
(* Instances of AdminAccounts for TLC. *)
EXTENDS AdminAccounts, TLC

CONSTANTS b1, b2, r1, r2, p1, p2

Symmetric == Permutations({b1, b2}) \cup Permutations({r1, r2}) \cup Permutations({p1, p2})
==============================================================================
