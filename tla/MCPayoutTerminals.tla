-------------------------- MODULE MCPayoutTerminals --------------------------
(* Instances of PayoutTerminals for TLC. *)
EXTENDS PayoutTerminals, TLC

CONSTANTS a, b, c, s1, s2, s3

OnePointEach == (s1 :> a) @@ (s2 :> b) @@ (s3 :> c)
SharedPoint == (s1 :> a) @@ (s2 :> a)
==============================================================================
