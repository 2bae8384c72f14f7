--------------------------- MODULE PaymentLifecycle ---------------------------
(***************************************************************************)
(* What the payment API promises about an idempotency key (README,         *)
(* "Жизненный цикл платежа"): at most one payment is ever accepted for it, *)
(* its scenario fixes the outcome, and a final status does not move.       *)
(***************************************************************************)
EXTENDS Scenarios

CONSTANTS Keys, Suffixes

VARIABLES status, suffix     \* by key; "none" before the payment is accepted

Init ==
  /\ status = [k \in Keys |-> "none"]
  /\ suffix = [k \in Keys |-> "none"]

Accept(k, x) ==
  /\ status[k] = "none"
  /\ status' = [status EXCEPT ![k] = SCENARIOS[x].initial]
  /\ suffix' = [suffix EXCEPT ![k] = x]

Settle(k) ==
  /\ status[k] = "pending"
  /\ status' = [status EXCEPT ![k] = SCENARIOS[suffix[k]].final]
  /\ UNCHANGED suffix

Next == \E k \in Keys : Settle(k) \/ \E x \in Suffixes : Accept(k, x)

Spec == Init /\ [][Next]_<<status, suffix>>
==============================================================================
