--------------------------- MODULE PayoutTerminals ---------------------------
(***************************************************************************)
(* The payout API with its clients: cash terminals that check a code, block*)
(* it, hand out cash and report it with pay, over a network that loses     *)
(* answers.                                                                *)
(*                                                                         *)
(* A terminal is not part of the repository.  It is modelled from what     *)
(* README.md says of the three calls: check offers an amount, block grants *)
(* the code without naming one, pay reports what was handed out.  Terminal *)
(* t talks through session t of Payouts.  It follows the protocol: no cash *)
(* before a granted block, never more than the last check offered, and pay *)
(* is repeated until an answer arrives.  A block whose answer is lost is   *)
(* given up.  No admin interferes.                                         *)
(***************************************************************************)
EXTENDS Payouts

CONSTANT PointOf  \* PointOf[t]: the pointId terminal t sends

ASSUME TerminalsAssumption == PointOf \in [Sessions -> Points]

VARIABLES
  term,  \* term[t]: where terminal t is in its visit to a code
  cash   \* cash[p]: cash handed out for the code p, by all terminals

tvars == <<code, events, req, clock, term, cash>>

-----------------------------------------------------------------------------
NoVisit == [pc |-> "idle"]

\* offer: what the last check offered; fresh: that check was made under the
\* terminal's own block; out: the cash handed out; booked: how many times pay was
\* committed for this visit.
Visit == [pc : {"offered", "blocking", "granted", "holding", "paying", "unsure"},
          pin : Pins, offer : Nat, fresh : BOOLEAN, out : Nat, booked : Nat]

TermInit ==
  /\ Init
  /\ term = [t \in Sessions |-> NoVisit]
  /\ cash = [p \in Pins |-> 0]

\* payout_check, answered 0 with the balance.
Check(t, p) ==
  /\ term[t].pc = "idle"
  /\ CheckAnswer(code[p], code[p].currency, clock) = Success
  /\ term' = [term EXCEPT ![t] = [pc |-> "offered", pin |-> p, offer |-> code[p].balance,
                                  fresh |-> FALSE, out |-> 0, booked |-> 0]]
  /\ UNCHANGED <<code, events, req, clock, cash>>

\* The same call once the block is granted: a blocked code is still offered.
CheckAgain(t) ==
  LET p == term[t].pin
  IN  /\ term[t].pc = "granted"
      /\ CheckAnswer(code[p], code[p].currency, clock) = Success
      /\ term' = [term EXCEPT ![t].offer = code[p].balance, ![t].fresh = TRUE]
      /\ UNCHANGED <<code, events, req, clock, cash>>

SendBlock(t, otp) ==
  /\ term[t].pc = "offered"
  /\ Lock(t, "block", term[t].pin, PointOf[t], otp, code[term[t].pin].currency, 0)
  /\ term' = [term EXCEPT ![t].pc = "blocking"]
  /\ UNCHANGED cash

HandOut(t, n) ==
  /\ term[t].pc = "granted"
  /\ n <= term[t].offer
  /\ cash' = [cash EXCEPT ![term[t].pin] = @ + n]
  /\ term' = [term EXCEPT ![t].pc = "holding", ![t].out = n]
  /\ UNCHANGED vars

\* The first report, or a repetition of one whose outcome is unknown.
SendPay(t) ==
  /\ term[t].pc \in {"holding", "unsure"}
  /\ Lock(t, "pay", term[t].pin, PointOf[t], "", code[term[t].pin].currency, term[t].out)
  /\ term' = [term EXCEPT ![t].pc = "paying"]
  /\ UNCHANGED cash

\* The outcome is unknown: repeat a pay, give up a block.
Unknown(t, booked) ==
  term' = [term EXCEPT ![t] = IF @.pc = "paying" THEN [@ EXCEPT !.pc = "unsure", !.booked = booked]
                              ELSE NoVisit]

\* The handler of t committed; the answer arrives, or it does not.
CommitAnswered(t) ==
  /\ Commit(t)
  /\ term' = [term EXCEPT ![t] = IF @.pc = "blocking" THEN [@ EXCEPT !.pc = "granted"]
                                 ELSE NoVisit]
  /\ UNCHANGED cash

CommitLost(t) ==
  /\ Commit(t)
  /\ Unknown(t, term[t].booked + 1)
  /\ UNCHANGED cash

\* A state other than 0 ends the visit.
RefusalAnswered(t) ==
  /\ Refuse(t)
  /\ term' = [term EXCEPT ![t] = NoVisit]
  /\ UNCHANGED cash

RefusalLost(t) ==
  /\ Refuse(t)
  /\ Unknown(t, term[t].booked)
  /\ UNCHANGED cash

\* Rolled back: -100, or no answer.
Failed(t) ==
  /\ Fail(t)
  /\ Unknown(t, term[t].booked)
  /\ UNCHANGED cash

Work(t) ==
  /\ Stage(t)
  /\ UNCHANGED <<term, cash>>

TerminalStep(t) ==
  \/ \E p \in Pins : Check(t, p)
  \/ CheckAgain(t)
  \/ \E o \in OtpInputs : SendBlock(t, o)
  \/ \E n \in PayAmounts : HandOut(t, n)
  \/ SendPay(t)
  \/ Work(t)
  \/ CommitAnswered(t) \/ CommitLost(t)
  \/ RefusalAnswered(t) \/ RefusalLost(t)
  \/ Failed(t)

Others == (Tick \/ Create) /\ UNCHANGED <<term, cash>>

TermNext == Others \/ \E t \in Sessions : TerminalStep(t)

TermSpec == TermInit /\ [][TermNext]_tvars

-----------------------------------------------------------------------------
(* Properties. *)

\* Every variable has its type.
TermTypeOK ==
  /\ TypeOK
  /\ term \in [Sessions -> {NoVisit} \cup Visit]
  /\ cash \in [Pins -> Nat]

\* The cash handed out for a code is what its balance was debited by, whatever
\* answers were lost.  Where it is not (cash on the counter and its pay not yet
\* committed, or a terminal handed out more than was left, on an offer older than its
\* block), the code is blocked, so nobody else draws on it before an admin looks.
UnbookedIsHeld ==
  \A p \in Pins :
    cash[p] # code[p].amount - code[p].balance => code[p].status = "blocked"

\* A terminal that checks again under its block knows what it may hand out: until
\* its pay is committed the code stays blocked for its point with that balance.
HoldIsExclusive ==
  \A t \in Sessions :
    term[t].pc # "idle" /\ term[t].fresh /\ term[t].booked = 0 =>
      LET row == code[term[t].pin]
      IN  row.status = "blocked" /\ row.point = PointOf[t] /\ row.balance = term[t].offer

\* "Повторный pay не идемпотентен: после успешной выдачи блок снят, повтор получит
\* 4": however often a lost answer makes a terminal repeat it, one report of cash
\* is debited at most once.
BookedOnce ==
  \A t \in Sessions :
    /\ term[t].pc # "idle" => term[t].booked <= 1
    /\ (term[t].pc = "paying" /\ term[t].booked = 1) => req[t].pc # "staged"

\* Cash that was handed out by the book can be reported: the terminal that checked
\* under its block, and whose pay was not committed yet, is not answered 4 or -100,
\* however long it took, whatever got lost on the way, and whether or not the code
\* has expired meanwhile (pay has no test of expires_at).  Only a scenario that
\* forces an answer stands in the way.
HonestReportAccepted ==
  \A t \in Sessions :
    /\ term[t].pc = "paying"
    /\ term[t].fresh
    /\ term[t].booked = 0
    /\ req[t].pc = "locked"
    /\ Resolve(req[t].seen.scenario).pay = {}
    => Answer(req[t]) = Success
==============================================================================
