----------------------------- MODULE PayoutLedger -----------------------------
(***************************************************************************)
(* What the payout API promises about a code, whatever the requests, locks *)
(* and transactions behind it (docstring of app/payouts.py, README         *)
(* "Жизненный цикл кода"): one point at a time reserves a code, each       *)
(* reservation is settled at most once and never for more than is left,    *)
(* and a code paid in full is closed.  Where administrators watch over the *)
(* codes, they may take a reservation back: the code is free again, with   *)
(* what was left of it.                                                    *)
(***************************************************************************)
EXTENDS Naturals

CONSTANTS
  Pins, Points, NoPoint, Amounts,
  Supervised  \* whether administrators watch over the codes

VARIABLES
  status,  \* absent -> active <-> blocked -> paid
  holder,  \* the point that reserved the code
  left     \* what can still be handed out

ledgerVars == <<status, holder, left>>

Init ==
  /\ status = [p \in Pins |-> "absent"]
  /\ holder = [p \in Pins |-> NoPoint]
  /\ left = [p \in Pins |-> 0]

Issue(batch, n) ==
  /\ \A p \in batch : status[p] = "absent"
  /\ status' = [p \in Pins |-> IF p \in batch THEN "active" ELSE status[p]]
  /\ left' = [p \in Pins |-> IF p \in batch THEN n ELSE left[p]]
  /\ UNCHANGED holder

Reserve(p, pt) ==
  /\ status[p] = "active"
  /\ status' = [status EXCEPT ![p] = "blocked"]
  /\ holder' = [holder EXCEPT ![p] = pt]
  /\ UNCHANGED left

Settle(p, pt, n) ==
  /\ status[p] = "blocked"
  /\ holder[p] = pt
  /\ n <= left[p]
  /\ left' = [left EXCEPT ![p] = @ - n]
  /\ status' = [status EXCEPT ![p] = IF n = left[p] THEN "paid" ELSE "active"]
  /\ holder' = [holder EXCEPT ![p] = NoPoint]

\* An administrator's unblock.  The one who asks for it may have seen the code
\* blocked long ago, so it may meet a free code, or one paid in full.
Release(p) ==
  /\ Supervised
  /\ status[p] # "absent"
  /\ status' = [status EXCEPT ![p] = "active"]
  /\ holder' = [holder EXCEPT ![p] = NoPoint]
  /\ UNCHANGED left

Next ==
  \/ \E batch \in SUBSET Pins, n \in Amounts : Issue(batch, n)
  \/ \E p \in Pins, pt \in Points : Reserve(p, pt)
  \/ \E p \in Pins, pt \in Points : \E n \in 0..left[p] : Settle(p, pt, n)
  \/ \E p \in Pins : Release(p)

Spec == Init /\ [][Next]_ledgerVars
==============================================================================
