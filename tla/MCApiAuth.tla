------------------------------ MODULE MCApiAuth ------------------------------
(* Instances of ApiAuth for TLC. *)
EXTENDS ApiAuth, TLC

CONSTANTS p1, p2, r1, r2, x1, x2, pw1, pw2

Symmetric == Permutations({p1, p2}) \cup Permutations({r1, r2}) \cup Permutations({x1, x2})
==============================================================================
