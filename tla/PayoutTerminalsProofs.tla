------------------------ MODULE PayoutTerminalsProofs ------------------------
(***************************************************************************)
(* Proofs about PayoutTerminals, for every number of terminals, codes and  *)
(* points.  A step of a terminal is a step of Payouts, so what is proved   *)
(* there holds here.  TermInv adds what ties a terminal to its request, to *)
(* the row it drew on and to the cash it handed out; the money properties  *)
(* need it to be the only terminal of its point.                           *)
(***************************************************************************)
EXTENDS PayoutTerminals, PayoutsProofs

\* No two terminals send the same pointId.
DistinctPoints == \A t, u \in Sessions : PointOf[t] = PointOf[u] => t = u

HasCash == {"holding", "paying", "unsure"}

TermTypes ==
  /\ term \in [Sessions -> {NoVisit} \cup Visit]
  /\ cash \in [Pins -> Nat]
  /\ \A t \in Sessions : term[t].pc \in HasCash => term[t].out \in PayAmounts

\* The request a terminal waits for is the one its handler holds.
Link(t) ==
  /\ Holds(t) <=> term[t].pc \in {"blocking", "paying"}
  /\ Holds(t) => /\ req[t].pin = term[t].pin
                 /\ req[t].point = PointOf[t]
                 /\ req[t].op = IF term[t].pc = "paying" THEN "pay" ELSE "block"
                 /\ req[t].amount = term[t].out

\* The row is blocked for the point of t.
Mine(t, row) == row.status = "blocked" /\ row.point = PointOf[t]

\* Until its pay is committed a granted code is blocked for the terminal, with the
\* cash it handed out as the only difference between cash and debits; once it is
\* committed the code is not the terminal's any more.
VisitInv(t) ==
  LET v == term[t]
      row == code[v.pin]
  IN  v.pc # "idle" =>
        /\ v.pc \in {"offered", "blocking"} => ~v.fresh
        /\ v.pc \notin HasCash => v.out = 0
        /\ v.pc \notin {"paying", "unsure"} => v.booked = 0
        /\ v.booked <= 1
        /\ v.pc \in HasCash \cup {"granted"} /\ v.booked = 0 =>
             /\ Mine(t, row)
             /\ cash[v.pin] + row.balance = row.amount + v.out
             /\ v.fresh => row.balance = v.offer
        /\ v.booked = 1 => ~Mine(t, row)

CashInv(p) ==
  /\ code[p].status = "absent" => cash[p] = 0
  /\ code[p].status # "blocked" => cash[p] + code[p].balance = code[p].amount

TermInv ==
  /\ IInv
  /\ TermTypes
  /\ \A t \in Sessions : Link(t)
  /\ \A t \in Sessions : VisitInv(t)
  /\ \A p \in Pins : CashInv(p)

-----------------------------------------------------------------------------
(* A step of a terminal is a step of its session in Payouts. *)

LEMMA StepOfSession ==
  ASSUME IInv, TermTypes, NEW t \in Sessions, TerminalStep(t)
  PROVE  [ApiStep(t)]_vars
<1>1. PointOf[t] \in Points
  BY TerminalsAssumption
<1>2. term[t].pc # "idle" => term[t].pin \in Pins
  BY DEF TermTypes, Visit, NoVisit
<1>3. term[t].pc # "idle" => code[term[t].pin].currency \in Currencies
  BY <1>2 DEF IInv, Row
<1>4. ASSUME NEW o \in OtpInputs, SendBlock(t, o)  PROVE BlockRequest(t)
  BY <1>1, <1>2, <1>4 DEF SendBlock, BlockRequest
<1>5. ASSUME SendPay(t)  PROVE PayRequest(t)
  <2>1. term[t].out \in PayAmounts
    BY <1>5 DEF SendPay, TermTypes, HasCash
  <2> QED BY <1>1, <1>2, <1>3, <1>5, <2>1 DEF SendPay, PayRequest
<1>6. ASSUME \/ \E p \in Pins : Check(t, p)
             \/ CheckAgain(t)
             \/ \E n \in PayAmounts : HandOut(t, n)
      PROVE  UNCHANGED vars
  BY <1>6 DEF Check, CheckAgain, HandOut, vars
<1>7. ASSUME \/ Work(t)
             \/ CommitAnswered(t) \/ CommitLost(t)
             \/ RefusalAnswered(t) \/ RefusalLost(t)
             \/ Failed(t)
      PROVE  Stage(t) \/ Commit(t) \/ Refuse(t) \/ Fail(t)
  BY <1>7 DEF Work, CommitAnswered, CommitLost, RefusalAnswered, RefusalLost, Failed
<1> QED BY <1>4, <1>5, <1>6, <1>7 DEF TerminalStep, ApiStep

LEMMA StepOfPayouts == IInv /\ TermTypes /\ [TermNext]_tvars => [Next]_vars
  BY StepOfSession DEF TermNext, Others, Next, vars, tvars

-----------------------------------------------------------------------------
(* Types. *)

\* What is left of a visit whose answer is lost.
LEMMA UnknownTyped ==
  ASSUME TermTypes, NEW t \in Sessions, NEW n \in Nat, Unknown(t, n)
  PROVE  /\ term' \in [Sessions -> {NoVisit} \cup Visit]
         /\ term'[t].pc \in HasCash => term'[t].out \in PayAmounts
<1>1. CASE term[t].pc = "paying"
  <2>1. term[t] \in Visit /\ term[t].out \in PayAmounts
    BY <1>1 DEF TermTypes, NoVisit, HasCash
  <2>2. [term[t] EXCEPT !.pc = "unsure", !.booked = n] \in Visit
    BY <2>1 DEF Visit
  <2>3. term' = [term EXCEPT ![t] = [term[t] EXCEPT !.pc = "unsure", !.booked = n]]
    BY <1>1 DEF Unknown
  <2> QED BY <2>1, <2>2, <2>3 DEF TermTypes, Visit
<1>2. CASE term[t].pc # "paying"
  <2>1. term' = [term EXCEPT ![t] = NoVisit]
    BY <1>2 DEF Unknown
  <2> QED BY <2>1 DEF TermTypes, NoVisit, HasCash
<1> QED BY <1>1, <1>2

\* A step of a terminal changes its own visit and no other.
LEMMA OthersKept ==
  ASSUME IInv, TermTypes, NEW t \in Sessions, TerminalStep(t), NEW u \in Sessions, u # t
  PROVE  term'[u] = term[u] /\ req'[u] = req[u]
<1>1. term'[u] = term[u]
  BY DEF TermTypes, TerminalStep, Check, CheckAgain, SendBlock, HandOut, SendPay, Work,
         CommitAnswered, CommitLost, RefusalAnswered, RefusalLost, Failed, Unknown
<1>2. req'[u] = req[u]
  <2>1. /\ u \in Handlers /\ t \in Handlers
        /\ req \in [Handlers -> {Idle} \cup ApiRequest \cup AdminRequest]
    BY DEF Handlers, IInv, ReqInv
  <2>2. ASSUME NEW op, NEW q, NEW pt, NEW o, NEW c, NEW n, Lock(t, op, q, pt, o, c, n)
        PROVE  req'[u] = req[u]
    BY <2>1, <2>2 DEF Lock
  <2>3. Stage(t) \/ Commit(t) \/ Refuse(t) \/ Fail(t) => req'[u] = req[u]
    BY <2>1 DEF Stage, Commit, Refuse, Fail
  <2> QED BY <2>1, <2>2, <2>3
          DEF TerminalStep, Check, CheckAgain, SendBlock, HandOut, SendPay, Work,
              CommitAnswered, CommitLost, RefusalAnswered, RefusalLost, Failed, vars
<1> QED BY <1>1, <1>2

LEMMA TypesKept == IInv /\ TermTypes /\ [TermNext]_tvars => TermTypes'
<1> SUFFICES ASSUME IInv, TermTypes, [TermNext]_tvars  PROVE TermTypes'
  OBVIOUS
<1>1. CASE Others \/ UNCHANGED tvars
  BY <1>1 DEF Others, tvars, TermTypes
<1>2. ASSUME NEW t \in Sessions, TerminalStep(t)  PROVE TermTypes'
  <2> DEFINE OneTyped == /\ term' \in [Sessions -> {NoVisit} \cup Visit]
                         /\ term'[t].pc \in HasCash => term'[t].out \in PayAmounts
  <2>0. /\ term \in [Sessions -> {NoVisit} \cup Visit]
        /\ term[t].pc # "idle" => term[t] \in Visit /\ term[t].pin \in Pins
        /\ term[t].pc \in HasCash => term[t].out \in PayAmounts
    BY DEF TermTypes, NoVisit, Visit
  <2>1. ASSUME NEW p \in Pins, Check(t, p)  PROVE OneTyped /\ cash' = cash
    <3>1. code[p].balance \in Nat
      BY DEF IInv, Row
    <3> QED BY <2>0, <2>1, <3>1 DEF Check, Visit, HasCash
  <2>2. CASE CheckAgain(t)
    <3>1. code[term[t].pin].balance \in Nat
      BY <2>0, <2>2 DEF CheckAgain, IInv, Row
    <3> QED BY <2>0, <2>2, <3>1 DEF CheckAgain, Visit, HasCash, TermTypes
  <2>3. ASSUME NEW o \in OtpInputs, SendBlock(t, o)  PROVE OneTyped /\ cash' = cash
    BY <2>0, <2>3 DEF SendBlock, Visit, HasCash
  <2>4. ASSUME NEW n \in PayAmounts, HandOut(t, n)
        PROVE  OneTyped /\ cash' \in [Pins -> Nat]
    <3>1. n \in Nat
      BY PayoutsAssumption
    <3>2. cash \in [Pins -> Nat] /\ cash[term[t].pin] + n \in Nat
      BY <2>0, <2>4, <3>1 DEF TermTypes, HandOut
    <3>3. OneTyped
      BY <2>0, <2>4, <3>1 DEF HandOut, Visit, HasCash
    <3>4. cash' \in [Pins -> Nat]
      BY <2>4, <3>2 DEF HandOut
    <3> QED BY <3>3, <3>4
  <2>5. CASE SendPay(t)
    BY <2>0, <2>5 DEF SendPay, Visit, HasCash, TermTypes
  <2>6. CASE Work(t)
    BY <2>0, <2>6 DEF Work, TermTypes
  <2>7. CASE CommitAnswered(t)
    <3>1. CASE term[t].pc = "blocking"
      BY <2>0, <2>7, <3>1 DEF CommitAnswered, Visit, HasCash, TermTypes
    <3>2. CASE term[t].pc # "blocking"
      BY <2>0, <2>7, <3>2 DEF CommitAnswered, NoVisit, HasCash, TermTypes
    <3> QED BY <3>1, <3>2
  <2>8. CASE RefusalAnswered(t)
    BY <2>0, <2>8 DEF RefusalAnswered, NoVisit, HasCash, TermTypes
  <2>9. ASSUME CommitLost(t) \/ RefusalLost(t) \/ Failed(t)  PROVE OneTyped /\ cash' = cash
    <3>1. PICK n : Unknown(t, n) /\ n \in {term[t].booked, term[t].booked + 1}
      BY <2>9 DEF CommitLost, RefusalLost, Failed
    <3>2. CASE n \in Nat
      BY <2>9, <3>1, <3>2, UnknownTyped DEF CommitLost, RefusalLost, Failed, TermTypes
    <3>3. CASE n \notin Nat
      <4>1. term[t].pc = "idle" \/ term[t].booked \in Nat
        BY <2>0 DEF Visit
      <4>2. term[t].pc = "idle"
        BY <3>1, <3>3, <4>1
      <4>3. term' = [term EXCEPT ![t] = NoVisit]
        BY <3>1, <4>2 DEF Unknown
      <4> QED BY <2>0, <2>9, <4>3 DEF CommitLost, RefusalLost, Failed, TermTypes, NoVisit, HasCash
    <3> QED BY <3>2, <3>3
  <2>10. OneTyped /\ cash' \in [Pins -> Nat]
    BY <1>2, <2>1, <2>2, <2>3, <2>4, <2>5, <2>6, <2>7, <2>8, <2>9 DEF TerminalStep, TermTypes
  <2>11. \A u \in Sessions : u # t => term'[u] = term[u]
    BY <1>2, OthersKept
  <2>12. ASSUME NEW u \in Sessions, term'[u].pc \in HasCash  PROVE term'[u].out \in PayAmounts
    BY <2>10, <2>11, <2>12 DEF TermTypes
  <2> QED BY <2>10, <2>12 DEF TermTypes
<1> QED BY <1>1, <1>2 DEF TermNext

LEMMA TypedInit == TermInit => TermTypes
  BY DEF TermInit, TermTypes, NoVisit, HasCash

\* Every variable has its type, and each step of a terminal is a step of Payouts:
\* what is proved of its handlers holds under these clients.
THEOREM TerminalsUsePayouts == TermSpec => Spec
<1>1. TermInit => Init /\ IInv /\ TermTypes
  BY TypedInit, InitInv DEF TermInit
<1>2. IInv /\ TermTypes /\ [TermNext]_tvars => IInv' /\ TermTypes' /\ [Next]_vars
  BY StepOfPayouts, NextInv, TypesKept
<1> QED BY <1>1, <1>2, PTL DEF TermSpec, Spec

THEOREM TermTypeCorrect == TermSpec => []TermTypeOK
<1>1. TermInit => TermTypes
  BY TypedInit
<1>2. IInv /\ TermTypes /\ [TermNext]_tvars => TermTypes'
  BY TypesKept
<1>3. TypeOK /\ TermTypes => TermTypeOK
  BY DEF TermTypes, TermTypeOK
<1> QED BY <1>1, <1>2, <1>3, TerminalsUsePayouts, Inductive, TypeCorrect, PTL DEF TermSpec

-----------------------------------------------------------------------------
(* TermInv, conjunct by conjunct. *)

\* Link: the terminal and its handler move together.
LEMMA LinkKept ==
  ASSUME IInv, TermTypes, NEW t \in Sessions, Link(t), VisitInv(t), TerminalStep(t)
  PROVE  Link(t)'
<1>0. /\ t \in Handlers
      /\ term \in [Sessions -> {NoVisit} \cup Visit]
      /\ req \in [Handlers -> {Idle} \cup ApiRequest \cup AdminRequest]
      /\ Link(t)
  BY DEF Handlers, IInv, ReqInv, TermTypes
<1>1. /\ term[t].pc # "idle" => term[t] \in Visit
      /\ req[t].pc \in {"locked", "staged"} => req[t] \in ApiRequest
  BY DEF TermTypes, NoVisit, IInv, ReqInv, HoldInv, Holds
<1>2. ASSUME NEW p \in Pins, Check(t, p)  PROVE Link(t)'
  BY <1>0, <1>2 DEF Check, Link, Holds
<1>3. CASE CheckAgain(t)
  BY <1>0, <1>1, <1>3 DEF CheckAgain, Link, Holds, Visit
<1>4. ASSUME NEW n \in PayAmounts, HandOut(t, n)  PROVE Link(t)'
  BY <1>0, <1>1, <1>4 DEF HandOut, Link, Holds, Visit, vars
<1>5. ASSUME NEW o \in OtpInputs, SendBlock(t, o)  PROVE Link(t)'
  <2>1. /\ req'[t].pc = "locked" /\ req'[t].op = "block" /\ req'[t].pin = term[t].pin
        /\ req'[t].point = PointOf[t] /\ req'[t].amount = 0
    BY <1>0, <1>5 DEF SendBlock, Lock
  <2>2. term'[t].pc = "blocking" /\ term'[t].pin = term[t].pin /\ term'[t].out = term[t].out
    BY <1>0, <1>1, <1>5 DEF SendBlock, Visit
  <2>3. term[t].out = 0
    BY <1>5 DEF VisitInv, SendBlock, HasCash
  <2> QED BY <2>1, <2>2, <2>3 DEF Link, Holds
<1>6. CASE SendPay(t)
  <2>1. /\ req'[t].pc = "locked" /\ req'[t].op = "pay" /\ req'[t].pin = term[t].pin
        /\ req'[t].point = PointOf[t] /\ req'[t].amount = term[t].out
    BY <1>0, <1>6 DEF SendPay, Lock
  <2>2. term'[t].pc = "paying" /\ term'[t].pin = term[t].pin /\ term'[t].out = term[t].out
    BY <1>0, <1>1, <1>6 DEF SendPay, Visit
  <2> QED BY <2>1, <2>2 DEF Link, Holds
<1>7. CASE Work(t)
  <2>1. /\ req[t] \in ApiRequest /\ req'[t] = [req[t] EXCEPT !.pc = "staged"]
        /\ req[t].pc = "locked" /\ term'[t] = term[t]
    BY <1>0, <1>1, <1>7 DEF Work, Stage
  <2>2. /\ req'[t].pc = "staged" /\ req'[t].op = req[t].op /\ req'[t].pin = req[t].pin
        /\ req'[t].point = req[t].point /\ req'[t].amount = req[t].amount
    BY <2>1 DEF ApiRequest
  <2> QED BY <1>0, <2>1, <2>2 DEF Link, Holds
<1>8. ASSUME CommitAnswered(t) \/ CommitLost(t) \/ RefusalAnswered(t) \/ RefusalLost(t) \/ Failed(t)
      PROVE  Link(t)'
  <2>1. req'[t] = Idle
    BY <1>0, <1>8 DEF CommitAnswered, CommitLost, RefusalAnswered, RefusalLost, Failed,
                      Commit, Refuse, Fail
  <2>2. term'[t].pc \in {"idle", "granted", "unsure"}
    <3>1. term[t].pc \in {"blocking", "paying"}
      BY <1>0, <1>8 DEF CommitAnswered, CommitLost, RefusalAnswered, RefusalLost, Failed,
                        Commit, Refuse, Fail, Link, Holds
    <3>2. CASE CommitAnswered(t) \/ RefusalAnswered(t)
      BY <1>0, <1>1, <3>1, <3>2 DEF CommitAnswered, RefusalAnswered, NoVisit, Visit
    <3>3. CASE \E n : Unknown(t, n)
      <4>1. PICK n : Unknown(t, n)
        BY <3>3
      <4>2. term'[t] = IF term[t].pc = "paying"
                       THEN [term[t] EXCEPT !.pc = "unsure", !.booked = n] ELSE NoVisit
        BY <1>0, <4>1 DEF Unknown
      <4> QED BY <1>1, <3>1, <4>2 DEF NoVisit, Visit
    <3>4. CommitLost(t) \/ RefusalLost(t) \/ Failed(t) => \E n : Unknown(t, n)
      BY DEF CommitLost, RefusalLost, Failed
    <3> QED BY <1>8, <3>2, <3>3, <3>4
  <2> QED BY <2>1, <2>2 DEF Link, Holds, Idle
<1> QED BY <1>2, <1>3, <1>4, <1>5, <1>6, <1>7, <1>8 DEF TerminalStep

\* What a commit of t does: block makes the code the terminal's, pay books the cash.
LEMMA CommitEffect ==
  ASSUME IInv, TermTypes, NEW t \in Sessions, Link(t), Commit(t)
  PROVE  LET p == term[t].pin IN
         /\ term[t].pc \in {"blocking", "paying"}
         /\ p \in Pins /\ code[p] \in Row /\ code'[p] \in Row
         /\ code'[p].amount = code[p].amount
         /\ \A q \in Pins : q # p => code'[q] = code[q]
         /\ term[t].pc = "blocking" =>
              /\ code[p].status = "active"
              /\ code'[p].status = "blocked" /\ code'[p].point = PointOf[t]
              /\ code'[p].balance = code[p].balance
         /\ term[t].pc = "paying" =>
              /\ code[p].status = "blocked" /\ code[p].point = PointOf[t]
              /\ code'[p].status \in {"paid", "active"}
              /\ code'[p].balance + term[t].out = code[p].balance
<1> PICK r \in ApiRequest : r = req[t]
  BY CommitFinds
<1> DEFINE p == r.pin
<1>1. /\ r.seen = code[p] /\ p \in Pins /\ r.point \in Points /\ r.amount \in Nat
      /\ code \in [Pins -> Row] /\ code[p] \in Row /\ code[p].balance \in Nat
  BY CommitFinds DEF ApiRequest, IInv, Row
<1>2. /\ term[t].pc \in {"blocking", "paying"} /\ term[t].pin = p /\ r.point = PointOf[t]
      /\ r.op = IF term[t].pc = "paying" THEN "pay" ELSE "block"
      /\ r.amount = term[t].out
  BY CommitFinds DEF Link, Holds
<1>3. CASE r.op = "block"
  <2>1. code[p].status = "active" /\ code' = [code EXCEPT ![p] = Blocked(@, r)]
    BY <1>3, CommitFinds
  <2>2. code'[p] = [code[p] EXCEPT !.status = "blocked", !.point = r.point]
    BY <1>1, <2>1 DEF Blocked
  <2>3. /\ code'[p] \in Row /\ code'[p].amount = code[p].amount
        /\ code'[p].status = "blocked" /\ code'[p].point = r.point
        /\ code'[p].balance = code[p].balance
    BY <1>1, <2>2 DEF Row, Statuses
  <2>4. \A q \in Pins : q # p => code'[q] = code[q]
    BY <1>1, <2>1
  <2>5. term[t].pc = "blocking"
    BY <1>2, <1>3
  <2> QED BY <1>1, <1>2, <2>1, <2>3, <2>4, <2>5
<1>4. CASE r.op = "pay"
  <2>1. /\ code[p].status = "blocked" /\ code[p].point = r.point
        /\ r.amount <= code[p].balance /\ code' = [code EXCEPT ![p] = Debited(@, r)]
    BY <1>4, CommitFinds
  <2>2. code'[p] = [code[p] EXCEPT
              !.balance = code[p].balance - r.amount,
              !.status  = IF code[p].balance - r.amount = 0 THEN "paid" ELSE "active",
              !.point   = NoPoint]
    BY <1>1, <2>1 DEF Debited
  <2>3. code[p].balance - r.amount \in Nat
        /\ (code[p].balance - r.amount) + r.amount = code[p].balance
    BY <1>1, <2>1
  <2>4. /\ code'[p] \in Row /\ code'[p].amount = code[p].amount
        /\ code'[p].status \in {"paid", "active"}
        /\ code'[p].balance + r.amount = code[p].balance
    BY <1>1, <2>2, <2>3 DEF Row, Statuses
  <2>5. \A q \in Pins : q # p => code'[q] = code[q]
    BY <1>1, <2>1
  <2>6. term[t].pc = "paying"
    BY <1>2, <1>4
  <2> QED BY <1>1, <1>2, <2>1, <2>4, <2>5, <2>6
<1> QED BY <1>3, <1>4 DEF ApiRequest

\* A step of another terminal, of the clock or of the generation form leaves the
\* codes of t and their cash, and makes no code one of t.
LEMMA OthersLeave ==
  ASSUME IInv, TermTypes, DistinctPoints, NEW t \in Sessions, NEW p \in Pins,
         \A u \in Sessions : Link(u), \A u \in Sessions : VisitInv(u),
         Others \/ (\E u \in Sessions : u # t /\ TerminalStep(u))
  PROVE  /\ Mine(t, code[p]) => code'[p] = code[p] /\ cash'[p] = cash[p]
         /\ ~Mine(t, code[p]) => ~Mine(t, code'[p])
<1>0. PointOf[t] \in Points /\ NoPoint \notin Points
  BY TerminalsAssumption, PayoutsAssumption
<1>1. CASE Others
  <2>1. cash' = cash
    BY <1>1 DEF Others
  <2>2. code'[p] = code[p] \/ (code[p].status = "absent" /\ code'[p].status = "active")
    BY <1>1 DEF Others, Tick, Create, CreateCodes
  <2> QED BY <2>1, <2>2 DEF Mine
<1>2. ASSUME NEW u \in Sessions, u # t, TerminalStep(u)
      PROVE  /\ Mine(t, code[p]) => code'[p] = code[p] /\ cash'[p] = cash[p]
             /\ ~Mine(t, code[p]) => ~Mine(t, code'[p])
  <2>0. PointOf[u] # PointOf[t]
    BY <1>2 DEF DistinctPoints
  <2>1. CASE Commit(u)
    <3>1. cash' = cash
      <4>1. cash' = cash \/ \E n \in PayAmounts : HandOut(u, n)
        BY <1>2 DEF TerminalStep, Check, CheckAgain, SendBlock, SendPay, Work,
           CommitAnswered, CommitLost, RefusalAnswered, RefusalLost, Failed
      <4>2. term[u].pc # "granted"
        BY <2>1, CommitEffect
      <4> QED BY <4>1, <4>2 DEF HandOut
    <3>2. CASE p # term[u].pin
      BY <2>1, <3>1, <3>2, CommitEffect DEF Mine
    <3>3. CASE p = term[u].pin
      <4>1. ~Mine(t, code[p])
        BY <2>0, <2>1, <3>3, CommitEffect DEF Mine
      <4>2. ~Mine(t, code'[p])
        BY <2>0, <2>1, <3>3, CommitEffect DEF Mine
      <4> QED BY <4>1, <4>2
    <3> QED BY <3>2, <3>3
  <2>2. ASSUME NEW n \in PayAmounts, HandOut(u, n)
        PROVE  /\ Mine(t, code[p]) => code'[p] = code[p] /\ cash'[p] = cash[p]
               /\ ~Mine(t, code[p]) => ~Mine(t, code'[p])
    <3>1. code' = code /\ cash' = [cash EXCEPT ![term[u].pin] = @ + n]
      BY <2>2 DEF HandOut, vars
    <3>2. Mine(u, code[term[u].pin])
      BY <2>2 DEF HandOut, VisitInv, HasCash
    <3>3. Mine(t, code[p]) => p # term[u].pin
      BY <2>0, <3>2 DEF Mine
    <3> QED BY <3>1, <3>3 DEF Mine, TermTypes
  <2>3. CASE ~Commit(u) /\ ~\E n \in PayAmounts : HandOut(u, n)
    <3>1. code' = code /\ cash' = cash
      BY <1>2, <2>3 DEF TerminalStep, Check, CheckAgain, SendBlock, SendPay, Work,
         CommitAnswered, CommitLost, RefusalAnswered, RefusalLost, Failed, vars,
         Lock, Stage, Refuse, Fail
    <3> QED BY <3>1 DEF Mine
  <2> QED BY <2>1, <2>2, <2>3
<1> QED BY <1>1, <1>2

\* VisitInv under a step of the terminal itself.
LEMMA VisitKept ==
  ASSUME TermInv, NEW t \in Sessions, TerminalStep(t)
  PROVE  VisitInv(t)'
<1> DEFINE p == term[t].pin
           Good(v, row, c) ==
             /\ v.pc \in {"offered", "blocking"} => ~v.fresh
             /\ v.pc \notin HasCash => v.out = 0
             /\ v.pc \notin {"paying", "unsure"} => v.booked = 0
             /\ v.booked <= 1
             /\ v.pc \in HasCash \cup {"granted"} /\ v.booked = 0 =>
                  /\ Mine(t, row)
                  /\ c + row.balance = row.amount + v.out
                  /\ v.fresh => row.balance = v.offer
             /\ v.booked = 1 => ~Mine(t, row)
<1>0. /\ term \in [Sessions -> {NoVisit} \cup Visit] /\ cash \in [Pins -> Nat]
      /\ IInv /\ TermTypes /\ Link(t) /\ VisitInv(t)
  BY DEF TermInv, TermTypes
<1>1. term[t].pc # "idle" =>
        /\ term[t] \in Visit /\ p \in Pins /\ term[t].out \in Nat /\ term[t].booked \in Nat
        /\ cash[p] \in Nat
        /\ Good(term[t], code[p], cash[p])
  BY <1>0 DEF NoVisit, Visit, VisitInv
<1>2. SUFFICES ASSUME term'[t].pc # "idle"
               PROVE  Good(term'[t], code'[term'[t].pin], cash'[term'[t].pin])
  BY DEF VisitInv, Mine
<1>3. ASSUME NEW q \in Pins, Check(t, q)
      PROVE  Good(term'[t], code'[term'[t].pin], cash'[term'[t].pin])
  BY <1>0, <1>3 DEF Check, HasCash
<1>4. CASE CheckAgain(t)
  <2>1. /\ term'[t] = [term[t] EXCEPT !.offer = code[p].balance, !.fresh = TRUE]
        /\ code' = code /\ cash' = cash /\ term[t].pc = "granted"
    BY <1>0, <1>4 DEF CheckAgain
  <2>2. /\ term'[t].pc = "granted" /\ term'[t].pin = p /\ term'[t].offer = code[p].balance
        /\ term'[t].out = term[t].out /\ term'[t].booked = term[t].booked
    BY <1>1, <2>1 DEF Visit
  <2> QED BY <1>1, <2>1, <2>2 DEF HasCash, Mine
<1>5. ASSUME NEW o \in OtpInputs, SendBlock(t, o)
      PROVE  Good(term'[t], code'[term'[t].pin], cash'[term'[t].pin])
  <2>1. /\ term'[t] = [term[t] EXCEPT !.pc = "blocking"]
        /\ code' = code /\ cash' = cash /\ term[t].pc = "offered"
    BY <1>0, <1>5 DEF SendBlock, Lock
  <2>2. /\ term'[t].pc = "blocking" /\ term'[t].fresh = term[t].fresh
        /\ term'[t].out = term[t].out /\ term'[t].booked = term[t].booked
    BY <1>1, <2>1 DEF Visit
  <2> QED BY <1>1, <2>1, <2>2 DEF HasCash
<1>6. ASSUME NEW n \in PayAmounts, HandOut(t, n)
      PROVE  Good(term'[t], code'[term'[t].pin], cash'[term'[t].pin])
  <2>1. /\ term'[t] = [term[t] EXCEPT !.pc = "holding", !.out = n]
        /\ code' = code /\ term[t].pc = "granted" /\ n \in Nat
        /\ p \in Pins /\ cash'[p] = cash[p] + n
    BY <1>0, <1>1, <1>6, PayoutsAssumption DEF HandOut, vars
  <2>2. /\ term'[t].pc = "holding" /\ term'[t].pin = p /\ term'[t].offer = term[t].offer
        /\ term'[t].fresh = term[t].fresh /\ term'[t].out = n
        /\ term'[t].booked = term[t].booked
    BY <1>1, <2>1 DEF Visit
  <2>3. /\ term[t].booked = 0 /\ Mine(t, code[p]) /\ cash[p] + code[p].balance = code[p].amount + 0
        /\ term[t].fresh => code[p].balance = term[t].offer
    BY <1>1, <2>1 DEF HasCash
  <2>4. code[p].balance \in Nat /\ code[p].amount \in Nat /\ cash[p] \in Nat
    BY <1>0, <1>1, <2>1 DEF IInv, Row
  <2>5. cash'[p] + code[p].balance = code[p].amount + n
    BY <2>1, <2>3, <2>4
  <2> QED BY <2>1, <2>2, <2>3, <2>5 DEF HasCash, Mine
<1>7. CASE SendPay(t)
  <2>1. /\ term'[t] = [term[t] EXCEPT !.pc = "paying"]
        /\ code' = code /\ cash' = cash /\ term[t].pc \in {"holding", "unsure"}
    BY <1>0, <1>7 DEF SendPay, Lock
  <2>2. /\ term'[t].pc = "paying" /\ term'[t].pin = p /\ term'[t].offer = term[t].offer
        /\ term'[t].fresh = term[t].fresh /\ term'[t].out = term[t].out
        /\ term'[t].booked = term[t].booked
    BY <1>1, <2>1 DEF Visit
  <2> QED BY <1>1, <2>1, <2>2 DEF HasCash, Mine
<1>8. CASE Work(t)
  BY <1>1, <1>2, <1>8 DEF Work, Stage, Mine
<1>9. CASE CommitAnswered(t)
  <2>1. Commit(t) /\ cash' = cash /\ term[t].pc = "blocking"
        /\ term'[t] = [term[t] EXCEPT !.pc = "granted"]
    BY <1>0, <1>2, <1>9 DEF CommitAnswered, NoVisit
  <2>2. /\ term'[t].pc = "granted" /\ term'[t].pin = p
        /\ term'[t].fresh = term[t].fresh /\ term'[t].out = term[t].out
        /\ term'[t].booked = term[t].booked
    BY <1>1, <2>1 DEF Visit
  <2>3. /\ code[p].status = "active" /\ code'[p].status = "blocked"
        /\ code'[p].point = PointOf[t] /\ code'[p].balance = code[p].balance
        /\ code'[p].amount = code[p].amount /\ p \in Pins
    BY <1>0, <2>1, CommitEffect
  <2>4. cash[p] + code[p].balance = code[p].amount
    BY <2>3 DEF TermInv, CashInv
  <2>5. code[p].amount \in Nat
    BY <1>0, <2>3 DEF IInv, Row
  <2>6. term[t].out = 0 /\ term[t].booked = 0 /\ ~term[t].fresh
    BY <1>1, <2>1 DEF HasCash
  <2>7. Mine(t, code'[term'[t].pin])
    BY <2>2, <2>3 DEF Mine
  <2>8. cash'[p] + code'[p].balance = code'[p].amount + term'[t].out
    BY <2>1, <2>2, <2>3, <2>4, <2>5, <2>6
  <2> QED BY <2>2, <2>6, <2>7, <2>8 DEF HasCash
<1>10. CASE CommitLost(t)
  <2>1. Commit(t) /\ cash' = cash /\ term[t].pc = "paying"
        /\ term'[t] = [term[t] EXCEPT !.pc = "unsure", !.booked = term[t].booked + 1]
    BY <1>0, <1>2, <1>10 DEF CommitLost, Unknown, NoVisit
  <2>2. /\ code[p].status = "blocked" /\ code[p].point = PointOf[t]
        /\ code'[p].status \in {"paid", "active"}
    BY <1>0, <2>1, CommitEffect
  <2>3. term[t].booked = 0
    <3>1. term[t].booked # 1 /\ term[t].booked <= 1 /\ term[t].booked \in Nat
      BY <1>1, <2>1, <2>2 DEF Mine
    <3> QED BY <3>1
  <2>4. /\ term'[t].pc = "unsure" /\ term'[t].pin = p /\ term'[t].booked = 1
    BY <1>1, <2>1, <2>3 DEF Visit
  <2>5. ~Mine(t, code'[term'[t].pin])
    BY <2>2, <2>4 DEF Mine
  <2> QED BY <2>4, <2>5 DEF HasCash
<1>11. CASE RefusalAnswered(t)
  BY <1>0, <1>2, <1>11 DEF RefusalAnswered, NoVisit
<1>12. CASE RefusalLost(t) \/ Failed(t)
  <2>1. /\ term[t].pc = "paying" /\ code' = code /\ cash' = cash
        /\ term'[t] = [term[t] EXCEPT !.pc = "unsure", !.booked = term[t].booked]
    BY <1>0, <1>2, <1>12 DEF RefusalLost, Failed, Refuse, Fail, Unknown, NoVisit
  <2>2. /\ term'[t].pc = "unsure" /\ term'[t].pin = p /\ term'[t].offer = term[t].offer
        /\ term'[t].fresh = term[t].fresh /\ term'[t].out = term[t].out
        /\ term'[t].booked = term[t].booked
    BY <1>1, <2>1 DEF Visit
  <2> QED BY <1>1, <2>1, <2>2 DEF HasCash, Mine
<1> QED BY <1>3, <1>4, <1>5, <1>6, <1>7, <1>8, <1>9, <1>10, <1>11, <1>12 DEF TerminalStep

\* VisitInv under every other step.
LEMMA VisitLeft ==
  ASSUME TermInv, DistinctPoints, NEW t \in Sessions,
         Others \/ (\E u \in Sessions : u # t /\ TerminalStep(u))
  PROVE  VisitInv(t)'
<1>0. /\ IInv /\ TermTypes /\ VisitInv(t)
      /\ term[t].pc # "idle" => term[t].pin \in Pins
  BY DEF TermInv, TermTypes, NoVisit, Visit
<1>1. term'[t] = term[t]
  BY <1>0, OthersKept DEF Others
<1>2. ASSUME term[t].pc # "idle"
      PROVE  LET p == term[t].pin IN
             /\ Mine(t, code[p]) => code'[p] = code[p] /\ cash'[p] = cash[p]
             /\ ~Mine(t, code[p]) => ~Mine(t, code'[p])
  BY <1>0, <1>2, OthersLeave DEF TermInv
<1>3. CASE term[t].pc = "idle"
  BY <1>1, <1>3 DEF VisitInv
<1>4. CASE term[t].pc # "idle" /\ Mine(t, code[term[t].pin])
  BY <1>0, <1>1, <1>2, <1>4 DEF VisitInv, Mine
<1>5. CASE term[t].pc # "idle" /\ ~Mine(t, code[term[t].pin])
  BY <1>0, <1>1, <1>2, <1>5 DEF VisitInv, Mine
<1> QED BY <1>3, <1>4, <1>5

\* CashInv: only a new code, a hand-out and a committed request touch it.
LEMMA CashKept ==
  ASSUME TermInv, [TermNext]_tvars, NEW p \in Pins
  PROVE  CashInv(p)'
<1>0. /\ IInv /\ TermTypes /\ CashInv(p)
      /\ code[p] \in Row /\ code[p].amount \in Nat /\ code[p].balance \in Nat
      /\ cash[p] \in Nat
  BY DEF TermInv, IInv, Row, TermTypes
<1>1. CASE code'[p] = code[p] /\ cash'[p] = cash[p]
  BY <1>0, <1>1 DEF CashInv
<1>2. ASSUME NEW batch \in SUBSET Pins, NEW n \in Amounts, NEW c \in Currencies,
             NEW x \in Ttls, NEW sc \in Scenarios, NEW o \in BOOLEAN,
             CreateCodes(batch, n, c, x, sc, o), cash' = cash
      PROVE  CashInv(p)'
  <2>1. CASE p \in batch
    <3>1. /\ code'[p].status = "active" /\ code'[p].amount = n /\ code'[p].balance = n
          /\ code[p].status = "absent" /\ n \in Nat
      BY <1>2, <2>1, PayoutsAssumption DEF CreateCodes
    <3>2. cash'[p] = 0
      BY <1>0, <1>2, <3>1 DEF CashInv
    <3> QED BY <3>1, <3>2 DEF CashInv
  <2>2. CASE p \notin batch
    BY <1>1, <1>2, <2>2 DEF CreateCodes
  <2> QED BY <2>1, <2>2
<1>3. ASSUME NEW t \in Sessions, NEW n \in PayAmounts, HandOut(t, n)
      PROVE  CashInv(p)'
  <2>1. code' = code /\ cash' = [cash EXCEPT ![term[t].pin] = @ + n]
    BY <1>3 DEF HandOut, vars
  <2>2. code[term[t].pin].status = "blocked"
    <3>1. VisitInv(t) /\ term[t].pc = "granted"
      BY <1>3 DEF HandOut, TermInv
    <3> QED BY <3>1 DEF VisitInv, HasCash, Mine
  <2>3. CASE p = term[t].pin
    BY <2>1, <2>2, <2>3 DEF CashInv
  <2>4. CASE p # term[t].pin
    BY <1>0, <1>1, <2>1, <2>4 DEF TermTypes
  <2> QED BY <2>3, <2>4
<1>4. ASSUME NEW t \in Sessions, Commit(t), cash' = cash
      PROVE  CashInv(p)'
  <2>0. Link(t) /\ VisitInv(t)
    BY DEF TermInv
  <2>1. CASE p # term[t].pin
    BY <1>0, <1>1, <1>4, <2>0, <2>1, CommitEffect
  <2>2. CASE p = term[t].pin /\ term[t].pc = "blocking"
    BY <1>0, <1>4, <2>0, <2>2, CommitEffect DEF CashInv
  <2>3. CASE p = term[t].pin /\ term[t].pc = "paying"
    <3>1. /\ code[p].status = "blocked" /\ code[p].point = PointOf[t]
          /\ code'[p].status \in {"paid", "active"} /\ code'[p] \in Row
          /\ code'[p].balance + term[t].out = code[p].balance
          /\ code'[p].amount = code[p].amount
      BY <1>0, <1>4, <2>0, <2>3, CommitEffect
    <3>2. term[t] \in Visit /\ term[t].out \in Nat /\ term[t].booked \in Nat
      BY <1>0, <2>3 DEF TermTypes, NoVisit, Visit
    <3>3. term[t].booked = 0
      <4>1. term[t].booked <= 1 /\ term[t].booked # 1
        BY <2>0, <2>3, <3>1 DEF VisitInv, Mine
      <4> QED BY <3>2, <4>1
    <3>4. cash[p] + code[p].balance = code[p].amount + term[t].out
      BY <2>0, <2>3, <3>3 DEF VisitInv, HasCash
    <3>5. code'[p].balance \in Nat
      BY <3>1 DEF Row
    <3>6. cash'[p] + code'[p].balance = code'[p].amount
      BY <1>0, <1>4, <3>1, <3>2, <3>4, <3>5
    <3> QED BY <3>1, <3>6 DEF CashInv
  <2> QED BY <1>0, <1>4, <2>0, <2>1, <2>2, <2>3, CommitEffect
<1>5. CASE Others \/ UNCHANGED tvars
  BY <1>1, <1>2, <1>5 DEF Others, Tick, Create, tvars
<1>6. ASSUME NEW t \in Sessions, TerminalStep(t)
      PROVE  \/ code' = code /\ cash' = cash
             \/ Commit(t) /\ cash' = cash
             \/ \E n \in PayAmounts : HandOut(t, n)
  BY <1>6 DEF TerminalStep, Check, CheckAgain, SendBlock, SendPay, Work, CommitAnswered,
              CommitLost, RefusalAnswered, RefusalLost, Failed, Lock, Stage, Refuse, Fail
<1> QED BY <1>1, <1>3, <1>4, <1>5, <1>6 DEF TermNext

LEMMA TermInitInv == TermInit => TermInv
<1> SUFFICES ASSUME TermInit  PROVE TermInv
  OBVIOUS
<1>1. IInv /\ TermTypes
  BY InitInv, TypedInit DEF TermInit
<1>2. \A t \in Sessions : Link(t) /\ VisitInv(t)
  BY DEF TermInit, Init, Link, VisitInv, Holds, Handlers, Idle, NoVisit
<1>3. \A p \in Pins : CashInv(p)
  BY DEF TermInit, Init, AbsentRow, CashInv
<1> QED BY <1>1, <1>2, <1>3 DEF TermInv

LEMMA TermNextInv == DistinctPoints /\ TermInv /\ [TermNext]_tvars => TermInv'
<1> SUFFICES ASSUME DistinctPoints, TermInv, [TermNext]_tvars  PROVE TermInv'
  OBVIOUS
<1>1. IInv' /\ TermTypes'
  BY StepOfPayouts, NextInv, TypesKept DEF TermInv
<1>2. \A p \in Pins : CashInv(p)'
  BY CashKept
<1>3. ASSUME NEW t \in Sessions  PROVE Link(t)' /\ VisitInv(t)'
  <2>0. IInv /\ TermTypes /\ Link(t) /\ VisitInv(t)
    BY DEF TermInv
  <2>1. CASE TerminalStep(t)
    BY <2>0, <2>1, LinkKept, VisitKept
  <2>2. CASE Others \/ \E u \in Sessions : u # t /\ TerminalStep(u)
    <3>1. term'[t] = term[t] /\ req'[t] = req[t]
      BY <2>0, <2>2, OthersKept DEF Others, Tick, Create, CreateCodes
    <3>2. Link(t)'
      BY <2>0, <3>1 DEF Link, Holds
    <3> QED BY <2>2, <3>2, VisitLeft
  <2>3. CASE UNCHANGED tvars
    BY <2>0, <2>3 DEF tvars, Link, Holds, VisitInv, Mine
  <2> QED BY <2>1, <2>2, <2>3 DEF TermNext
<1> QED BY <1>1, <1>2, <1>3 DEF TermInv

THEOREM TermInductive == ASSUME DistinctPoints  PROVE TermSpec => []TermInv
<1>1. TermInv /\ [TermNext]_tvars => TermInv'
  BY TermNextInv
<1> QED BY <1>1, TermInitInv, PTL DEF TermSpec

\* With one terminal per point, lost answers never hide cash: what was handed out
\* for a code that is not blocked is exactly what its balance was debited by.
THEOREM CashIsBookedOrHeld == ASSUME DistinctPoints  PROVE TermSpec => []UnbookedIsHeld
<1>1. TermInv => UnbookedIsHeld
  <2> SUFFICES ASSUME TermInv, NEW p \in Pins, code[p].status # "blocked"
               PROVE  cash[p] = code[p].amount - code[p].balance
    BY DEF UnbookedIsHeld
  <2>1. /\ code[p].amount \in Nat /\ code[p].balance \in Nat /\ cash[p] \in Nat
    BY DEF TermInv, IInv, Row, TermTypes
  <2>2. cash[p] + code[p].balance = code[p].amount
    BY DEF TermInv, CashInv
  <2> QED BY <2>1, <2>2
<1> QED BY <1>1, TermInductive, PTL

\* A terminal that checked under its block holds the code, at the balance it saw.
THEOREM HoldsAreExclusive == ASSUME DistinctPoints  PROVE TermSpec => []HoldIsExclusive
<1>1. TermInv => HoldIsExclusive
  <2> SUFFICES ASSUME TermInv, NEW t \in Sessions,
                      term[t].pc # "idle", term[t].fresh, term[t].booked = 0
               PROVE  /\ code[term[t].pin].status = "blocked"
                      /\ code[term[t].pin].point = PointOf[t]
                      /\ code[term[t].pin].balance = term[t].offer
    BY DEF HoldIsExclusive
  <2>1. VisitInv(t) /\ term[t] \in Visit
    BY DEF TermInv, TermTypes, NoVisit
  <2>2. term[t].pc \in HasCash \cup {"granted"}
    BY <2>1 DEF VisitInv, Visit, HasCash
  <2> QED BY <2>1, <2>2 DEF VisitInv, Mine
<1> QED BY <1>1, TermInductive, PTL

\* One report of cash is debited at most once, however often it is repeated.
THEOREM ReportsBookedOnce == ASSUME DistinctPoints  PROVE TermSpec => []BookedOnce
<1>1. TermInv => BookedOnce
  <2> SUFFICES ASSUME TermInv, NEW t \in Sessions
               PROVE  /\ term[t].pc # "idle" => term[t].booked <= 1
                      /\ (term[t].pc = "paying" /\ term[t].booked = 1) => req[t].pc # "staged"
    BY DEF BookedOnce
  <2>1. VisitInv(t) /\ Link(t) /\ HoldInv(t)
    BY DEF TermInv, IInv, ReqInv
  <2>2. ASSUME term[t].pc = "paying", term[t].booked = 1, req[t].pc = "staged"
        PROVE  FALSE
    <3>1. /\ Holds(t) /\ req[t].op = "pay" /\ req[t].pin = term[t].pin
          /\ req[t].point = PointOf[t]
      BY <2>1, <2>2 DEF Link, Holds
    <3>2. Mine(t, code[term[t].pin])
      BY <2>1, <2>2, <3>1 DEF HoldInv, Mine
    <3> QED BY <2>1, <2>2, <3>2 DEF VisitInv
  <2> QED BY <2>1, <2>2 DEF VisitInv
<1> QED BY <1>1, TermInductive, PTL

-----------------------------------------------------------------------------
(* What an honest terminal reports. *)

\* A report names the currency of the row, and no more cash than was offered.
ReportInv(t) ==
  /\ Holds(t) => req[t].currency = req[t].seen.currency
  /\ term[t].pc \in HasCash => term[t].out <= term[t].offer

LEMMA ReportKept ==
  ASSUME IInv, TermTypes, NEW t \in Sessions, Link(t), ReportInv(t), [TermNext]_tvars
  PROVE  ReportInv(t)'
<1>0. /\ t \in Handlers
      /\ term \in [Sessions -> {NoVisit} \cup Visit]
      /\ req \in [Handlers -> {Idle} \cup ApiRequest \cup AdminRequest]
      /\ term[t].pc # "idle" => term[t] \in Visit
      /\ Holds(t) => req[t] \in ApiRequest
  BY DEF Handlers, IInv, ReqInv, TermTypes, NoVisit, HoldInv, Holds
<1>1. CASE term'[t] = term[t] /\ req'[t] = req[t]
  BY <1>1 DEF ReportInv, Holds
<1>2. ASSUME NEW p \in Pins, Check(t, p)  PROVE ReportInv(t)'
  BY <1>0, <1>2 DEF Check, ReportInv, Holds, HasCash
<1>3. CASE CheckAgain(t)
  BY <1>0, <1>3 DEF CheckAgain, ReportInv, Holds, HasCash, Visit
<1>4. ASSUME NEW n \in PayAmounts, HandOut(t, n)  PROVE ReportInv(t)'
  <2>1. term'[t].out = n /\ term'[t].offer = term[t].offer /\ n <= term[t].offer
    BY <1>0, <1>4 DEF HandOut, Visit
  <2> QED BY <1>4, <2>1 DEF HandOut, ReportInv, Holds, vars
<1>5. ASSUME NEW o \in OtpInputs, SendBlock(t, o)  PROVE ReportInv(t)'
  <2>1. req'[t].currency = req'[t].seen.currency
    BY <1>0, <1>5 DEF SendBlock, Lock
  <2>2. term'[t].pc = "blocking"
    BY <1>0, <1>5 DEF SendBlock, Visit
  <2> QED BY <2>1, <2>2 DEF ReportInv, HasCash
<1>6. CASE SendPay(t)
  <2>1. req'[t].currency = req'[t].seen.currency
    BY <1>0, <1>6 DEF SendPay, Lock
  <2>2. term'[t].out = term[t].out /\ term'[t].offer = term[t].offer
    BY <1>0, <1>6 DEF SendPay, Visit
  <2>3. term[t].pc \in HasCash
    BY <1>6 DEF SendPay, HasCash
  <2> QED BY <2>1, <2>2, <2>3 DEF ReportInv
<1>7. CASE Work(t)
  <2>1. Holds(t) /\ req'[t] = [req[t] EXCEPT !.pc = "staged"] /\ term' = term
    BY <1>0, <1>7 DEF Work, Stage, Holds
  <2>2. req'[t].currency = req[t].currency /\ req'[t].seen = req[t].seen
    BY <1>0, <2>1 DEF ApiRequest
  <2> QED BY <2>1, <2>2 DEF ReportInv
<1>8. ASSUME CommitAnswered(t) \/ CommitLost(t) \/ RefusalAnswered(t) \/ RefusalLost(t) \/ Failed(t)
      PROVE  ReportInv(t)'
  <2>1. req'[t] = Idle /\ term[t].pc \in {"blocking", "paying"}
    BY <1>0, <1>8 DEF CommitAnswered, CommitLost, RefusalAnswered, RefusalLost, Failed,
                      Commit, Refuse, Fail, Link, Holds
  <2>2. CASE CommitAnswered(t) \/ RefusalAnswered(t)
    <3>1. term'[t].pc \in {"idle", "granted"}
      BY <1>0, <2>1, <2>2 DEF CommitAnswered, RefusalAnswered, NoVisit, Visit
    <3> QED BY <2>1, <3>1 DEF ReportInv, Holds, Idle, HasCash
  <2>3. CASE CommitLost(t) \/ RefusalLost(t) \/ Failed(t)
    <3>1. PICK n : Unknown(t, n)
      BY <2>3 DEF CommitLost, RefusalLost, Failed
    <3>2. term'[t] = IF term[t].pc = "paying"
                     THEN [term[t] EXCEPT !.pc = "unsure", !.booked = n] ELSE NoVisit
      BY <1>0, <3>1 DEF Unknown
    <3>3. CASE term[t].pc = "paying"
      <4>1. term'[t].out = term[t].out /\ term'[t].offer = term[t].offer
        BY <1>0, <3>2, <3>3 DEF Visit
      <4> QED BY <2>1, <3>3, <4>1 DEF ReportInv, Holds, Idle, HasCash
    <3>4. CASE term[t].pc # "paying"
      BY <2>1, <3>2, <3>4 DEF ReportInv, Holds, Idle, HasCash, NoVisit
    <3> QED BY <3>3, <3>4
  <2> QED BY <1>8, <2>2, <2>3
<1>9. CASE TerminalStep(t)
  BY <1>2, <1>3, <1>4, <1>5, <1>6, <1>7, <1>8, <1>9 DEF TerminalStep
<1>10. CASE Others \/ UNCHANGED tvars \/ \E u \in Sessions : u # t /\ TerminalStep(u)
  BY <1>1, <1>10, OthersKept DEF Others, Tick, Create, CreateCodes, tvars
<1> QED BY <1>9, <1>10 DEF TermNext

\* Cash handed out by the book can always be reported, also after the deadline.
THEOREM HonestReportsAccepted == ASSUME DistinctPoints  PROVE TermSpec => []HonestReportAccepted
<1> DEFINE Reports == \A t \in Sessions : ReportInv(t)
<1>1. TermInit => Reports
  BY DEF TermInit, Init, ReportInv, Holds, Handlers, Idle, NoVisit, HasCash
<1>2. TermInv /\ Reports /\ [TermNext]_tvars => Reports'
  BY ReportKept DEF TermInv
<1>3. TermInv /\ Reports => HonestReportAccepted
  <2> SUFFICES ASSUME TermInv, Reports, NEW t \in Sessions,
                      term[t].pc = "paying", term[t].fresh, term[t].booked = 0,
                      req[t].pc = "locked", Resolve(req[t].seen.scenario).pay = {}
               PROVE  Answer(req[t]) = Success
    BY DEF HonestReportAccepted
  <2> DEFINE r == req[t]
  <2>1. /\ VisitInv(t) /\ Link(t) /\ HoldInv(t) /\ ReportInv(t)
        /\ term[t] \in Visit
    BY DEF TermInv, IInv, ReqInv, TermTypes, NoVisit
  <2>2. /\ r.op = "pay" /\ r.pin = term[t].pin /\ r.point = PointOf[t]
        /\ r.amount = term[t].out /\ r.seen = code[r.pin]
        /\ r.currency = r.seen.currency
    BY <2>1 DEF Link, Holds, HoldInv, ReportInv
  <2>3. /\ r.seen.status = "blocked" /\ r.seen.point = r.point
        /\ r.seen.balance = term[t].offer /\ term[t].out <= term[t].offer
    BY <2>1, <2>2 DEF VisitInv, HasCash, Mine, ReportInv
  <2>4. term[t].out \in Nat /\ term[t].offer \in Nat
    BY <2>1 DEF Visit
  <2>5. ~(r.amount > r.seen.balance)
    BY <2>2, <2>3, <2>4
  <2> HIDE DEF r
  <2>6. PayAnswer(r.seen, r.point, r.currency, r.amount) = Success
    BY <2>2, <2>3, <2>5 DEF PayAnswer, r
  <2> QED BY <2>2, <2>6 DEF Answer, r
<1> QED BY <1>1, <1>2, <1>3, TermInductive, PTL DEF TermSpec

-----------------------------------------------------------------------------
(* What a terminal gains by a second check. *)

\* No terminal hands out cash on an offer older than its block.
ChecksUnderBlock == \A t \in Sessions : term[t].pc = "holding" => term[t].fresh

\* No code costs more cash than it was issued with.
NeverOverpaid == \A p \in Pins : cash[p] <= code[p].amount

\* The step that hands out cash finds all of it on the code.
LEMMA HandsOutWhatIsLeft ==
  ASSUME TermInv, ChecksUnderBlock', NEW t \in Sessions, NEW n \in PayAmounts, HandOut(t, n)
  PROVE  /\ term[t].pin \in Pins
         /\ cash'[term[t].pin] <= code[term[t].pin].amount
<1> DEFINE p == term[t].pin
<1>1. /\ term[t] \in Visit /\ term[t].pc = "granted" /\ p \in Pins /\ VisitInv(t)
      /\ term[t].offer \in Nat /\ n \in Nat /\ n <= term[t].offer
      /\ cash'[p] = cash[p] + n
      /\ term'[t] = [term[t] EXCEPT !.pc = "holding", !.out = n]
  BY PayoutsAssumption DEF HandOut, TermInv, TermTypes, NoVisit, Visit
<1>2. term'[t].pc = "holding" /\ term'[t].fresh = term[t].fresh
  BY <1>1 DEF Visit
<1>3. term[t].fresh
  BY <1>2 DEF ChecksUnderBlock
<1>4. term[t].booked = 0 /\ term[t].out = 0
  BY <1>1 DEF VisitInv, HasCash
<1>5. cash[p] + code[p].balance = code[p].amount + 0 /\ code[p].balance = term[t].offer
  BY <1>1, <1>3, <1>4 DEF VisitInv, HasCash
<1>6. cash[p] \in Nat /\ code[p].balance \in Nat /\ code[p].amount \in Nat
  BY <1>1 DEF TermInv, TermTypes, IInv, Row
<1> QED BY <1>1, <1>5, <1>6

\* An amount is given once, and to a code that has cost nothing.
LEMMA AmountsStay ==
  ASSUME TermInv, [TermNext]_tvars, NEW p \in Pins
  PROVE  code'[p].amount = code[p].amount \/ (code[p].status = "absent" /\ code'[p].amount \in Nat)
<1>1. ASSUME NEW t \in Sessions, Commit(t)  PROVE code'[p].amount = code[p].amount
  BY <1>1, CommitEffect DEF TermInv
<1>2. Create => code'[p] = code[p] \/ (code[p].status = "absent" /\ code'[p].amount \in Nat)
  BY PayoutsAssumption DEF Create, CreateCodes
<1>3. ASSUME NEW t \in Sessions, TerminalStep(t)  PROVE code' = code \/ Commit(t)
  BY <1>3 DEF TerminalStep, Check, CheckAgain, SendBlock, HandOut, SendPay, Work, CommitAnswered,
              CommitLost, RefusalAnswered, RefusalLost, Failed, Lock, Stage, Refuse, Fail, vars
<1> QED BY <1>1, <1>2, <1>3 DEF TermNext, Others, Tick, tvars

\* A block names no amount, and the offer of a check made before it may be spent by
\* then.  Terminals that check again under their block need no more than that: however
\* many of them race for a code, and whatever answers are lost, they never hand out more
\* than it was issued with.
THEOREM CheckedCashIsCovered ==
  ASSUME DistinctPoints
  PROVE  TermSpec /\ []ChecksUnderBlock => []NeverOverpaid
<1>1. TermInit => NeverOverpaid
  BY DEF TermInit, Init, AbsentRow, NeverOverpaid
<1>2. ASSUME TermInv, ChecksUnderBlock', NeverOverpaid, [TermNext]_tvars  PROVE NeverOverpaid'
  <2> SUFFICES ASSUME NEW p \in Pins  PROVE cash'[p] <= code'[p].amount
    BY DEF NeverOverpaid
  <2>1. /\ cash \in [Pins -> Nat] /\ CashInv(p) /\ cash[p] <= code[p].amount
    BY <1>2 DEF TermInv, TermTypes, NeverOverpaid
  <2>2. ASSUME NEW t \in Sessions, NEW n \in PayAmounts, HandOut(t, n)
        PROVE  cash'[p] <= code'[p].amount
    <3>1. code' = code /\ (p # term[t].pin => cash'[p] = cash[p])
      BY <2>1, <2>2 DEF HandOut, vars
    <3> QED BY <1>2, <2>1, <2>2, <3>1, HandsOutWhatIsLeft
  <2>3. CASE cash' = cash
    <3>1. CASE code'[p].amount = code[p].amount
      BY <2>1, <2>3, <3>1
    <3>2. CASE code[p].status = "absent" /\ code'[p].amount \in Nat
      <4>1. cash[p] = 0
        BY <2>1, <3>2 DEF CashInv
      <4> QED BY <2>3, <3>2, <4>1
    <3> QED BY <1>2, <3>1, <3>2, AmountsStay
  <2>4. ASSUME NEW t \in Sessions, TerminalStep(t)
        PROVE  cash' = cash \/ \E n \in PayAmounts : HandOut(t, n)
    BY <2>4 DEF TerminalStep, Check, CheckAgain, SendBlock, SendPay, Work,
       CommitAnswered, CommitLost, RefusalAnswered, RefusalLost, Failed
  <2> QED BY <1>2, <2>2, <2>3, <2>4 DEF TermNext, Others, tvars
<1> QED BY <1>1, <1>2, TermInductive, PTL DEF TermSpec

\* Under these clients, too, the handlers implement the ledger of codes.
THEOREM TerminalsImplementLedger == TermSpec => ImplementsLedger
  BY TerminalsUsePayouts, HandlersImplementLedger, PTL

==============================================================================
