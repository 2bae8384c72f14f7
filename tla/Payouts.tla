------------------------------- MODULE Payouts -------------------------------
(***************************************************************************)
(* Payout codes (app/payouts.py) as the database sees them: the table      *)
(* payout_codes, the audit table payout_events, and the handlers that read *)
(* a row, decide in Python and write it back.                              *)
(*                                                                         *)
(* An API request (/api/block, /api/pay) is three steps: Lock is the       *)
(* SELECT ... FOR UPDATE that copies the row; Stage and Refuse are the     *)
(* Python code up to its return or its commit, at the clock of that        *)
(* moment; Commit writes the columns the handler assigned, with the values *)
(* computed from the copy.  The row stays locked until commit or rollback. *)
(*                                                                         *)
(* An admin opens the card of a code, and some time later sends one of its *)
(* forms.  That request is two steps: AdminLoad is a plain SELECT, and the *)
(* action then decides on that copy, never on the row the card was made    *)
(* of, whose fields the form of the card sends back all the same.  Its     *)
(* UPDATE waits for a locked row, but nothing makes it read the row again: *)
(* the ORM writes the columns it changed and no others.                    *)
(***************************************************************************)
EXTENDS PayoutScenarios, Naturals, Sequences

CONSTANTS
  Pins,        \* PINs the generator may draw
  Points,      \* cash points (pointId)
  NoPoint,     \* SQL NULL in blocked_point_id / point_id
  Sessions,    \* API requests in flight, one per database session
  Admins,      \* admin requests in flight
  Currencies,  \* currency codes
  Amounts,     \* amounts a code may be issued with
  PayAmounts,  \* amounts a terminal may report as handed out
  Ttls,        \* lifetimes of a code, in clock units
  Scenarios,   \* scenarios an admin picks
  OtpInputs,   \* OTP classes a terminal sends
  MaxTime,     \* bound: the clock stops here
  MaxEvents    \* bound: no handler starts when the trail of the code is this long

ASSUME PayoutsAssumption ==
  /\ NoPoint \notin Points
  /\ Sessions \cap Admins = {}
  /\ Amounts \subseteq Nat \ {0}        \* the generation form wants amount > 0
  /\ PayAmounts \subseteq Nat           \* PayoutPayRequest.amount has ge=0
  /\ Ttls \subseteq Nat \ {0}
  /\ Scenarios \subseteq ScenarioKeys
  /\ OtpInputs \subseteq Otps
  /\ Currencies # {}
  /\ MaxTime \in Nat /\ MaxEvents \in Nat

VARIABLES
  code,    \* code[p]: the row with that PIN, Absent when there is none
  events,  \* events[p]: the rows of payout_events of that code, oldest first
  req,     \* req[s]: what the handler s holds in memory
  clock    \* utcnow()

vars == <<code, events, req, clock>>

-----------------------------------------------------------------------------
Statuses == {"absent", "active", "blocked", "paid"}

Row == [status : Statuses, amount : Nat, balance : Nat, currency : Currencies,
        scenario : ScenarioKeys, otpNeeded : BOOLEAN,
        point : Points \cup {NoPoint}, expiresAt : Nat]

\* The generator has not drawn this PIN: no row.
AbsentRow == [status |-> "absent", amount |-> 0, balance |-> 0,
              currency |-> CHOOSE c \in Currencies : TRUE, scenario |-> "normal",
              otpNeeded |-> FALSE, point |-> NoPoint, expiresAt |-> 0]

EventNames == {"created", "blocked", "paid", "partial",
               "admin_unblock", "admin_expire", "admin_update"}

Event == [event : EventNames, point : Points \cup {NoPoint}, amount : Nat, balance : Nat]

PayoutEvent(name, point, amount, balance) ==
  [event |-> name, point |-> point, amount |-> amount, balance |-> balance]

Handlers == Sessions \cup Admins

\* A handler is idle, holds a locked row ("locked"), has flushed its UPDATE but
\* not committed ("staged"); or it is an admin who looks at a card ("card"), or whose
\* request holds an unlocked copy ("loaded").
Idle == [pc |-> "idle"]

ApiRequest == [pc : {"locked", "staged"}, op : {"block", "pay"}, pin : Pins,
               point : Points, otp : Otps, currency : Currencies, amount : Nat, seen : Row]

\* What the card fills its form with.
Form == [scenario : ScenarioKeys, otpNeeded : BOOLEAN]
FormOf(row) == [scenario |-> row.scenario, otpNeeded |-> row.otpNeeded]

AdminRequest ==
  [pc : {"card"}, pin : Pins, shown : Form]
    \cup [pc : {"loaded"}, pin : Pins, shown : Form, seen : Row, at : Nat]

\* Slip: get_by_pin without for_update.
LockedNever(p) == FALSE

Locked(p) == \E s \in Sessions : req[s].pc \in {"locked", "staged"} /\ req[s].pin = p

\* Slip: the code still lives at the moment it expires.
IsExpiredLate(row, now) == now > row.expiresAt

IsExpired(row, now) == now >= row.expiresAt

\* What the pages and /check show; nothing stores "expired".
EffectiveStatus(row, now) ==
  IF row.status = "active" /\ IsExpired(row, now) THEN "expired" ELSE row.status

HasRoom(p) == Len(events[p]) < MaxEvents

-----------------------------------------------------------------------------
Init ==
  /\ code = [p \in Pins |-> AbsentRow]
  /\ events = [p \in Pins |-> <<>>]
  /\ req = [h \in Handlers |-> Idle]
  /\ clock = 0

Tick ==
  /\ clock < MaxTime
  /\ clock' = clock + 1
  /\ UNCHANGED <<code, events, req>>

\* create_codes: one transaction for the batch.  A PIN that is taken breaks the
\* unique index, the batch is rolled back and drawn again (three times, then the
\* request fails): only batches of unused PINs are ever stored.
CreateCodes(batch, amount, currency, ttl, scenario, otpNeeded) ==
  /\ batch # {}
  /\ \A p \in batch : code[p].status = "absent"
  /\ code' = [p \in Pins |->
                IF p \in batch
                THEN [status |-> "active", amount |-> amount, balance |-> amount,
                      currency |-> currency, scenario |-> scenario, otpNeeded |-> otpNeeded,
                      point |-> NoPoint, expiresAt |-> clock + ttl]
                ELSE code[p]]
  /\ events' = [p \in Pins |->
                  IF p \in batch
                  THEN Append(events[p], PayoutEvent("created", NoPoint, 0, amount))
                  ELSE events[p]]
  /\ UNCHANGED <<req, clock>>

-----------------------------------------------------------------------------
(* The answers of the three endpoints, in the order of their early returns. *)

CheckAnswer(row, currency, now) ==
  IF row.status = "absent" \/ row.currency # currency THEN NotFound
  ELSE IF Resolve(row.scenario).check # {} THEN CHOOSE st \in Resolve(row.scenario).check : TRUE
  ELSE IF row.status = "paid" THEN AlreadyPaid
  ELSE IF EffectiveStatus(row, now) = "expired" THEN Expired
  ELSE Success

\* Slip: block takes over a code another point holds.
BlockAnswerTakesOver(row, otp, now) ==
  IF row.status \in {"active", "blocked"} /\ ~IsExpired(row, now) THEN Success ELSE NotFound

BlockAnswer(row, otp, now) ==
  IF row.status = "absent" THEN NotFound
  ELSE IF Resolve(row.scenario).block # {} THEN CHOOSE st \in Resolve(row.scenario).block : TRUE
  ELSE IF row.status = "paid" THEN AlreadyPaid
  ELSE IF row.status = "blocked" THEN NotFound
  ELSE IF IsExpired(row, now) THEN Expired
  ELSE IF row.otpNeeded /\ CheckOtp(otp) # {} THEN CHOOSE st \in CheckOtp(otp) : TRUE
  ELSE Success

\* Slips: pay trusts the reported amount; pay accepts any point's block.
PayAnswerUnbounded(row, point, currency, amount) ==
  IF row.status = "blocked" /\ row.point = point THEN Success ELSE NotBlocked

PayAnswerAnyPoint(row, point, currency, amount) ==
  IF row.status = "blocked" /\ amount <= row.balance THEN Success ELSE NotBlocked

\* Slip: pay tests the deadline, as block does.
PayAnswerInTime(row, point, currency, amount) ==
  IF row.status # "blocked" \/ row.point # point THEN NotBlocked
  ELSE IF IsExpired(row, clock) THEN Expired
  ELSE IF amount > row.balance THEN InternalError
  ELSE Success

PayAnswer(row, point, currency, amount) ==
  IF row.status = "absent" \/ row.currency # currency THEN NotFound
  ELSE IF Resolve(row.scenario).pay # {} THEN CHOOSE st \in Resolve(row.scenario).pay : TRUE
  ELSE IF row.status # "blocked" \/ row.point # point THEN NotBlocked
  ELSE IF amount > row.balance THEN InternalError
  ELSE Success

Answer(r) ==
  IF r.op = "block" THEN BlockAnswer(r.seen, r.otp, clock)
  ELSE PayAnswer(r.seen, r.point, r.currency, r.amount)

-----------------------------------------------------------------------------
\* get_by_pin(for_update=True): waits for the row, then copies it.  A PIN with no
\* row locks nothing and is refused without a step of its own.
Lock(s, op, p, point, otp, currency, amount) ==
  /\ req[s].pc = "idle"
  /\ code[p].status # "absent"
  /\ ~Locked(p)
  /\ HasRoom(p)
  /\ req' = [req EXCEPT ![s] = [pc |-> "locked", op |-> op, pin |-> p, point |-> point,
                                otp |-> otp, currency |-> currency, amount |-> amount,
                                seen |-> code[p]]]
  /\ UNCHANGED <<code, events, clock>>

\* An early return: the finally clause rolls back, which frees the row.
Refuse(s) ==
  /\ req[s].pc = "locked"
  /\ Answer(req[s]) # Success
  /\ req' = [req EXCEPT ![s] = Idle]
  /\ UNCHANGED <<code, events, clock>>

\* The checks passed: the assignments are flushed, the commit is on its way.
Stage(s) ==
  /\ req[s].pc = "locked"
  /\ Answer(req[s]) = Success
  /\ req' = [req EXCEPT ![s].pc = "staged"]
  /\ UNCHANGED <<code, events, clock>>

\* The columns block() assigns.
Blocked(row, r) == [row EXCEPT !.status = "blocked", !.point = r.point]

\* The columns pay() assigns; the new balance is computed from the copy.
Debited(row, r) ==
  [row EXCEPT !.balance = r.seen.balance - r.amount,
              !.status  = IF r.seen.balance - r.amount = 0 THEN "paid" ELSE "active",
              !.point   = NoPoint]

Commit(s) ==
  LET r == req[s]
      rest == r.seen.balance - r.amount
  IN  /\ r.pc = "staged"
      /\ \/ /\ r.op = "block"
            /\ code' = [code EXCEPT ![r.pin] = Blocked(@, r)]
            /\ events' = [events EXCEPT ![r.pin] =
                            Append(@, PayoutEvent("blocked", r.point, 0, r.seen.balance))]
         \/ /\ r.op = "pay"
            /\ code' = [code EXCEPT ![r.pin] = Debited(@, r)]
            /\ events' = [events EXCEPT ![r.pin] =
                            Append(@, PayoutEvent(IF rest = 0 THEN "paid" ELSE "partial",
                                                  r.point, r.amount, rest))]
      /\ req' = [req EXCEPT ![s] = Idle]
      /\ UNCHANGED clock

\* Any exception, or the death of the worker, before the commit: the
\* transaction is rolled back, the client reads -100 or nothing.
Fail(s) ==
  /\ req[s].pc \in {"locked", "staged"}
  /\ req' = [req EXCEPT ![s] = Idle]
  /\ UNCHANGED <<code, events, clock>>

-----------------------------------------------------------------------------
\* GET of the card, with the form for the scenario and the OTP.
AdminOpen(a, p) ==
  /\ req[a].pc = "idle"
  /\ code[p].status # "absent"
  /\ HasRoom(p)
  /\ req' = [req EXCEPT ![a] = [pc |-> "card", pin |-> p, shown |-> FormOf(code[p])]]
  /\ UNCHANGED <<code, events, clock>>

\* POST of a form of the card.  _load_code: a SELECT that locks nothing.
AdminLoad(a) ==
  LET r == req[a]
  IN  /\ r.pc = "card"
      /\ HasRoom(r.pin)
      /\ req' = [req EXCEPT ![a] = [pc |-> "loaded", pin |-> r.pin, shown |-> r.shown,
                                    seen |-> code[r.pin], at |-> clock]]
      /\ UNCHANGED <<code, events, clock>>

\* Nothing is changed: the card is left, or the request returns early on its copy or fails.
AdminSkip(a) ==
  /\ req[a].pc \in {"card", "loaded"}
  /\ req' = [req EXCEPT ![a] = Idle]
  /\ UNCHANGED <<code, events, clock>>

\* UPDATE of the changed columns, INSERT of the event and commit.
AdminWrite(a, row, event) ==
  LET p == req[a].pin
  IN  /\ ~Locked(p)
      /\ code' = [code EXCEPT ![p] = row]
      /\ events' = [events EXCEPT ![p] = Append(@, event)]
      /\ req' = [req EXCEPT ![a] = Idle]
      /\ UNCHANGED clock

\* Slip: unblock without its status test.
AdminUnblockAnyCode(a) ==
  LET r == req[a]
  IN  /\ r.pc = "loaded"
      /\ AdminWrite(a, [code[r.pin] EXCEPT !.status = "active", !.point = NoPoint],
                    PayoutEvent("admin_unblock", r.seen.point, 0, r.seen.balance))

\* Slip: the UPDATE writes the whole row back from the copy.
AdminUnblockFromCopy(a) ==
  LET r == req[a]
  IN  /\ r.pc = "loaded"
      /\ r.seen.status = "blocked"
      /\ AdminWrite(a, [r.seen EXCEPT !.status = "active", !.point = NoPoint],
                    PayoutEvent("admin_unblock", r.seen.point, 0, r.seen.balance))

AdminUnblock(a) ==
  LET r == req[a]
  IN  /\ r.pc = "loaded"
      /\ r.seen.status = "blocked"
      /\ AdminWrite(a, [code[r.pin] EXCEPT !.status = "active", !.point = NoPoint],
                    PayoutEvent("admin_unblock", r.seen.point, 0, r.seen.balance))

\* The new deadline is the time at which the handler ran, which may be over when a
\* locked row lets its UPDATE through.
AdminExpire(a) ==
  LET r == req[a]
  IN  /\ r.pc = "loaded"
      /\ r.seen.status # "paid"
      /\ \E now \in r.at .. clock :
           AdminWrite(a, [code[r.pin] EXCEPT !.expiresAt = now],
                      PayoutEvent("admin_expire", NoPoint, 0, r.seen.balance))

\* Slip: the UPDATE writes every field of the form.
AdminUpdateWholeForm(a, scenario, otpNeeded) ==
  LET r == req[a]
  IN  /\ r.pc = "loaded"
      /\ <<scenario, otpNeeded>> # <<r.seen.scenario, r.seen.otpNeeded>>
      /\ AdminWrite(a, [code[r.pin] EXCEPT !.scenario = scenario, !.otpNeeded = otpNeeded],
                    PayoutEvent("admin_update", NoPoint, 0, r.seen.balance))

\* The form always carries both fields, as the card showed them or as the admin set them;
\* the UPDATE has the ones that differ from the copy.
AdminUpdate(a, scenario, otpNeeded) ==
  LET r == req[a]
      now == code[r.pin]
  IN  /\ r.pc = "loaded"
      /\ <<scenario, otpNeeded>> # <<r.seen.scenario, r.seen.otpNeeded>>
      /\ AdminWrite(a,
           [now EXCEPT
              !.scenario  = IF scenario # r.seen.scenario THEN scenario ELSE @,
              !.otpNeeded = IF otpNeeded # r.seen.otpNeeded THEN otpNeeded ELSE @],
           PayoutEvent("admin_update", NoPoint, 0, r.seen.balance))

-----------------------------------------------------------------------------
Create ==
  \E batch \in SUBSET Pins, n \in Amounts, c \in Currencies, t \in Ttls,
     sc \in Scenarios, o \in BOOLEAN : CreateCodes(batch, n, c, t, sc, o)

\* Fields a handler never reads are given one value.
BlockRequest(s) ==
  \E p \in Pins, pt \in Points, o \in OtpInputs :
     Lock(s, "block", p, pt, o, code[p].currency, 0)

PayRequest(s) ==
  \E p \in Pins, pt \in Points, c \in Currencies, n \in PayAmounts :
     Lock(s, "pay", p, pt, "", c, n)

ApiStep(s) == BlockRequest(s) \/ PayRequest(s) \/ Refuse(s) \/ Stage(s) \/ Commit(s) \/ Fail(s)

AdminStep(a) ==
  \/ \E p \in Pins : AdminOpen(a, p)
  \/ AdminLoad(a)
  \/ AdminSkip(a)
  \/ AdminUnblock(a)
  \/ AdminExpire(a)
  \/ \E sc \in Scenarios, o \in BOOLEAN : AdminUpdate(a, sc, o)

Next ==
  \/ Tick
  \/ Create
  \/ \E s \in Sessions : ApiStep(s)
  \/ \E a \in Admins : AdminStep(a)

Spec == Init /\ [][Next]_vars

-----------------------------------------------------------------------------
(* Properties. *)

\* Every variable has its type.
TypeOK ==
  /\ code \in [Pins -> Row]
  /\ events \in [Pins -> Seq(Event)]
  /\ req \in [Handlers -> {Idle} \cup ApiRequest \cup AdminRequest]
  /\ \A s \in Sessions : req[s].pc \notin {"card", "loaded"}
  /\ \A a \in Admins : req[a].pc \in {"idle", "card", "loaded"}
  /\ clock \in Nat

PayEvents   == {"paid", "partial"}
MoneyEvents == PayEvents \cup {"created"}
HoldEvents  == PayEvents \cup {"blocked", "admin_unblock"}

\* No event of the set lies between positions i and j of the trail.
NoneBetween(trail, i, j, names) == \A k \in i+1 .. j-1 : trail[k].event \notin names

TrailAccounts(trail, amount, balance) ==
  /\ trail # <<>>
  /\ trail[1].event = "created"
  /\ trail[1].balance = amount
  /\ \A i, j \in 1 .. Len(trail) :
        /\ i < j
        /\ trail[i].event \in MoneyEvents
        /\ trail[j].event \in PayEvents
        /\ NoneBetween(trail, i, j, MoneyEvents)
        => trail[i].balance = trail[j].balance + trail[j].amount
  /\ \A i \in 1 .. Len(trail) :
        /\ trail[i].event \in MoneyEvents
        /\ NoneBetween(trail, i, Len(trail) + 1, MoneyEvents)
        => trail[i].balance = balance

\* The audit trail accounts for every unit of a code: it opens with the issued
\* amount, each debit starts from the balance the previous one left, and the
\* balance of the row is what the last debit left.  This is the "двойного
\* списания быть не может" of the docstring: two requests that debit the same
\* copy of the row break the chain.
LedgerChain ==
  \A p \in Pins : code[p].status # "absent" =>
     TrailAccounts(events[p], code[p].amount, code[p].balance)

\* At position j the point holds a reservation made at an earlier "blocked" event
\* that no event before j debited or released.
Reserved(trail, point, j) ==
  \E i \in 1 .. j-1 :
    /\ trail[i].event = "blocked"
    /\ trail[i].point = point
    /\ NoneBetween(trail, i, j, HoldEvents)

DebitsReserved(trail) ==
  \A j \in 1 .. Len(trail) :
     trail[j].event \in PayEvents => Reserved(trail, trail[j].point, j)

\* Every debit spends a reservation of its own, made by the same point: between
\* the "blocked" event it rests on and the debit no other request reserved,
\* debited or released the code.  So a repeated or a concurrent pay cannot be
\* booked twice, and a second point cannot pay on the first one's block.
DebitSpendsItsBlock == \A p \in Pins : DebitsReserved(events[p])

\* A code that ran out while it was free is dead: no request blocks or debits it
\* again, and no admin action revives it.  (A reservation whose commit is on its
\* way was granted before the deadline and may still land.)
Dead(p) ==
  /\ code[p].status = "active"
  /\ clock >= code[p].expiresAt
  /\ \A s \in Sessions : req[s].pc = "staged" => req[s].pin # p

ExpiredStaysDead ==
  [][\A p \in Pins : Dead(p) => Dead(p)' /\ code'[p].balance = code[p].balance]_vars

\* A code paid in full is never payable again, except by an admin's unblock that
\* was decided on a copy of the row read while the code was still blocked.
PaidEndsOnlyByStaleUnblock ==
  [][\A p \in Pins :
       code[p].status = "paid" /\ code'[p].status # "paid" =>
         \E a \in Admins :
           /\ req[a].pc = "loaded"
           /\ req[a].pin = p
           /\ req[a].seen.status = "blocked"]_vars

\* In this step the admin a saves its card of p, on which it had set this field to value,
\* or which no longer showed the field as the row had it when the form arrived.
Saves(a, p) == req[a].pc = "loaded" /\ req'[a] = Idle /\ req[a].pin = p
Meant(shown, seen, value) == value # shown \/ seen # shown

\* The card sends scenario and otp_needed together, and admin_update decides on an
\* unlocked copy; still a save changes only what its admin set.  Of two requests that
\* overlap, each changing one field, neither puts the other's field back.  Only a card
\* that was out of date before its form arrived does that.
UntouchedFieldsStay ==
  [][\A p \in Pins : code[p].status # "absent" =>
       /\ code'[p].scenario # code[p].scenario =>
            \E a \in Admins : /\ Saves(a, p)
                              /\ Meant(req[a].shown.scenario, req[a].seen.scenario,
                                       code'[p].scenario)
       /\ code'[p].otpNeeded # code[p].otpNeeded =>
            \E a \in Admins : /\ Saves(a, p)
                              /\ Meant(req[a].shown.otpNeeded, req[a].seen.otpNeeded,
                                       code'[p].otpNeeded)]_vars

\* The lifecycle the docstring draws: paid is final.
PaidIsFinal ==
  [][\A p \in Pins : code[p].status = "paid" => code'[p].status = "paid"]_vars

\* The rows, seen as the abstract ledger.
Ledger == INSTANCE PayoutLedger WITH
            status <- [p \in Pins |-> code[p].status],
            holder <- [p \in Pins |-> code[p].point],
            left   <- [p \in Pins |-> code[p].balance],
            Supervised <- Admins # {}

\* The locked, two-phase handlers implement the ledger, and all that the stale
\* copies of the admins can do to it is to release a code.
ImplementsLedger == Ledger!Spec

==============================================================================
