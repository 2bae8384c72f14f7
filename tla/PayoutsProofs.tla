---------------------------- MODULE PayoutsProofs ----------------------------
(***************************************************************************)
(* Proofs about Payouts for every set of PINs, points, sessions and        *)
(* admins.  The inductive invariant IInv says of each row and its trail    *)
(* what RowInv says, and of each request that holds a row: its copy is the *)
(* row, no other request holds it, and a staged request passed its checks. *)
(***************************************************************************)
EXTENDS Payouts, TLAPS

RowInv(row, trail) ==
  /\ row \in Row
  /\ trail \in Seq(Event)
  /\ row.status = "absent" => trail = <<>>
  /\ row.status # "absent" => TrailAccounts(trail, row.amount, row.balance)
  /\ DebitsReserved(trail)
  /\ row.status # "blocked" => row.point = NoPoint
  /\ row.status = "blocked" =>
       row.point \in Points /\ Reserved(trail, row.point, Len(trail) + 1)

Holds(s) == req[s].pc \in {"locked", "staged"}

\* The copy is fresh, and the checks a staged request passed are true of it.
HoldInv(s) ==
  Holds(s) =>
    /\ req[s] \in ApiRequest
    /\ req[s].seen = code[req[s].pin]
    /\ req[s].seen.status # "absent"
    /\ req[s].pc = "staged" /\ req[s].op = "block" =>
         req[s].seen.status = "active"
    /\ req[s].pc = "staged" /\ req[s].op = "pay" =>
         /\ req[s].seen.status = "blocked"
         /\ req[s].seen.point = req[s].point
         /\ req[s].amount <= req[s].seen.balance

AdminInv(a) ==
  /\ req[a].pc \in {"card", "loaded"} =>
       req[a] \in AdminRequest /\ code[req[a].pin].status # "absent"
  /\ req[a].pc = "loaded" /\ req[a].seen.status = "blocked" => req[a].seen.point \in Points

ReqInv ==
  /\ req \in [Handlers -> {Idle} \cup ApiRequest \cup AdminRequest]
  /\ \A s \in Sessions : req[s].pc \notin {"card", "loaded"}
  /\ \A a \in Admins : req[a].pc \in {"idle", "card", "loaded"}
  /\ \A s \in Sessions : HoldInv(s)
  /\ \A a \in Admins : AdminInv(a)
  /\ \A s, t \in Sessions : Holds(s) /\ Holds(t) /\ req[s].pin = req[t].pin => s = t

IInv ==
  /\ code \in [Pins -> Row]
  /\ events \in [Pins -> Seq(Event)]
  /\ \A p \in Pins : RowInv(code[p], events[p])
  /\ ReqInv
  /\ clock \in Nat

-----------------------------------------------------------------------------
(* Trails under Append. *)

LEMMA AppendFacts ==
  ASSUME NEW trail \in Seq(Event), NEW e \in Event
  PROVE  /\ Append(trail, e) \in Seq(Event)
         /\ Len(Append(trail, e)) = Len(trail) + 1
         /\ Len(trail) \in Nat
         /\ \A i \in 1 .. Len(trail) : Append(trail, e)[i] = trail[i]
         /\ Append(trail, e)[Len(trail) + 1] = e
  OBVIOUS

\* An event that moves no money leaves the accounts as they are.
LEMMA AccountsOther ==
  ASSUME NEW trail \in Seq(Event), NEW e \in Event, NEW n \in Nat, NEW b \in Nat,
         TrailAccounts(trail, n, b), e.event \notin MoneyEvents
  PROVE  TrailAccounts(Append(trail, e), n, b)
<1> DEFINE t2 == Append(trail, e)
<1>1. /\ Len(t2) = Len(trail) + 1
      /\ Len(trail) \in Nat \ {0}
      /\ \A i \in 1 .. Len(trail) : t2[i] = trail[i]
      /\ t2[Len(trail) + 1] = e
      /\ t2 \in Seq(Event)
  BY AppendFacts DEF TrailAccounts
<1> HIDE DEF t2
<1>2. t2 # <<>> /\ t2[1].event = "created" /\ t2[1].balance = n
  BY <1>1 DEF TrailAccounts
<1>3. ASSUME NEW i \in 1 .. Len(t2), NEW j \in 1 .. Len(t2), i < j,
             t2[i].event \in MoneyEvents, t2[j].event \in PayEvents,
             NoneBetween(t2, i, j, MoneyEvents)
      PROVE  t2[i].balance = t2[j].balance + t2[j].amount
  <2>1. j # Len(trail) + 1
    BY <1>1, <1>3 DEF MoneyEvents
  <2>2. j \in 1 .. Len(trail) /\ i \in 1 .. Len(trail)
    BY <1>1, <1>3, <2>1
  <2>3. NoneBetween(trail, i, j, MoneyEvents)
    BY <1>1, <1>3, <2>2 DEF NoneBetween
  <2> QED BY <1>1, <1>3, <2>2, <2>3 DEF TrailAccounts
<1>4. ASSUME NEW i \in 1 .. Len(t2), t2[i].event \in MoneyEvents,
             NoneBetween(t2, i, Len(t2) + 1, MoneyEvents)
      PROVE  t2[i].balance = b
  <2>1. i \in 1 .. Len(trail)
    BY <1>1, <1>4
  <2>2. NoneBetween(trail, i, Len(trail) + 1, MoneyEvents)
    BY <1>1, <1>4, <2>1 DEF NoneBetween
  <2> QED BY <1>1, <1>4, <2>1, <2>2 DEF TrailAccounts
<1> QED BY <1>2, <1>3, <1>4 DEF TrailAccounts, t2

\* A debit that starts from the balance left moves the accounts to the rest.
LEMMA AccountsDebit ==
  ASSUME NEW trail \in Seq(Event), NEW e \in Event, NEW n \in Nat, NEW b \in Nat,
         TrailAccounts(trail, n, b), e.event \in PayEvents, e.balance + e.amount = b
  PROVE  TrailAccounts(Append(trail, e), n, e.balance)
<1> DEFINE t2 == Append(trail, e)
<1>1. /\ Len(t2) = Len(trail) + 1
      /\ Len(trail) \in Nat \ {0}
      /\ \A i \in 1 .. Len(trail) : t2[i] = trail[i]
      /\ t2[Len(trail) + 1] = e
      /\ t2 \in Seq(Event)
  BY AppendFacts DEF TrailAccounts
<1> HIDE DEF t2
<1>2. t2 # <<>> /\ t2[1].event = "created" /\ t2[1].balance = n
  BY <1>1 DEF TrailAccounts
<1>3. ASSUME NEW i \in 1 .. Len(t2), NEW j \in 1 .. Len(t2), i < j,
             t2[i].event \in MoneyEvents, t2[j].event \in PayEvents,
             NoneBetween(t2, i, j, MoneyEvents)
      PROVE  t2[i].balance = t2[j].balance + t2[j].amount
  <2>1. i \in 1 .. Len(trail)
    BY <1>1, <1>3
  <2>2. CASE j = Len(trail) + 1
    <3>1. NoneBetween(trail, i, Len(trail) + 1, MoneyEvents)
      BY <1>1, <1>3, <2>1, <2>2 DEF NoneBetween
    <3>2. trail[i].balance = b
      BY <1>1, <1>3, <2>1, <3>1 DEF TrailAccounts
    <3> QED BY <1>1, <2>1, <2>2, <3>2
  <2>3. CASE j # Len(trail) + 1
    <3>1. j \in 1 .. Len(trail)
      BY <1>1, <1>3, <2>3
    <3>2. NoneBetween(trail, i, j, MoneyEvents)
      BY <1>1, <1>3, <2>1, <3>1 DEF NoneBetween
    <3> QED BY <1>1, <1>3, <2>1, <3>1, <3>2 DEF TrailAccounts
  <2> QED BY <2>2, <2>3
<1>4. ASSUME NEW i \in 1 .. Len(t2), t2[i].event \in MoneyEvents,
             NoneBetween(t2, i, Len(t2) + 1, MoneyEvents)
      PROVE  t2[i].balance = e.balance
  <2>1. i = Len(trail) + 1
    BY <1>1, <1>4 DEF NoneBetween, MoneyEvents
  <2> QED BY <1>1, <2>1
<1> QED BY <1>2, <1>3, <1>4 DEF TrailAccounts, t2

\* The trail of a new code.
LEMMA AccountsCreated ==
  ASSUME NEW e \in Event, e.event = "created"
  PROVE  /\ TrailAccounts(Append(<<>>, e), e.balance, e.balance)
         /\ DebitsReserved(Append(<<>>, e))
<1> DEFINE t2 == Append(<<>>, e)
<1>1. Len(t2) = 1 /\ t2[1] = e /\ t2 # <<>>
  OBVIOUS
<1> HIDE DEF t2
<1>2. TrailAccounts(t2, e.balance, e.balance)
  BY <1>1 DEF TrailAccounts
<1>3. DebitsReserved(t2)
  BY <1>1 DEF DebitsReserved, PayEvents
<1> QED BY <1>2, <1>3 DEF t2

\* A reservation survives an event that neither reserves, debits nor releases.
LEMMA ReservedOther ==
  ASSUME NEW trail \in Seq(Event), NEW e \in Event, NEW pt \in Points,
         Reserved(trail, pt, Len(trail) + 1), e.event \notin HoldEvents
  PROVE  Reserved(Append(trail, e), pt, Len(trail) + 2)
<1> DEFINE t2 == Append(trail, e)
<1>1. /\ Len(trail) \in Nat
      /\ \A i \in 1 .. Len(trail) : t2[i] = trail[i]
      /\ t2[Len(trail) + 1] = e
  BY AppendFacts
<1> HIDE DEF t2
<1>2. PICK i \in 1 .. Len(trail) :
        /\ trail[i].event = "blocked"
        /\ trail[i].point = pt
        /\ NoneBetween(trail, i, Len(trail) + 1, HoldEvents)
  BY <1>1 DEF Reserved
<1>3. NoneBetween(t2, i, Len(trail) + 2, HoldEvents)
  BY <1>1, <1>2 DEF NoneBetween
<1> QED BY <1>1, <1>2, <1>3 DEF Reserved, t2

\* A "blocked" event reserves for its point.
LEMMA ReservedByBlock ==
  ASSUME NEW trail \in Seq(Event), NEW e \in Event, e.event = "blocked"
  PROVE  Reserved(Append(trail, e), e.point, Len(trail) + 2)
<1> DEFINE t2 == Append(trail, e)
<1>1. Len(trail) \in Nat /\ t2[Len(trail) + 1] = e
  BY AppendFacts
<1> HIDE DEF t2
<1>2. NoneBetween(t2, Len(trail) + 1, Len(trail) + 2, HoldEvents)
  BY <1>1 DEF NoneBetween
<1> QED BY <1>1, <1>2 DEF Reserved, t2

\* A trail of reserved debits stays one when the new event is no debit, or one
\* that the trail reserves.
LEMMA DebitsAppend ==
  ASSUME NEW trail \in Seq(Event), NEW e \in Event, DebitsReserved(trail),
         e.event \in PayEvents => Reserved(trail, e.point, Len(trail) + 1)
  PROVE  DebitsReserved(Append(trail, e))
<1> DEFINE t2 == Append(trail, e)
<1>1. /\ Len(t2) = Len(trail) + 1
      /\ Len(trail) \in Nat
      /\ \A i \in 1 .. Len(trail) : t2[i] = trail[i]
      /\ t2[Len(trail) + 1] = e
  BY AppendFacts
<1> HIDE DEF t2
<1>2. ASSUME NEW j \in 1 .. Len(t2), t2[j].event \in PayEvents
      PROVE  Reserved(trail, t2[j].point, j)
  BY <1>1, <1>2 DEF DebitsReserved
<1>3. ASSUME NEW j \in 1 .. Len(t2), NEW pt, Reserved(trail, pt, j)
      PROVE  Reserved(t2, pt, j)
  BY <1>1, <1>3 DEF Reserved, NoneBetween
<1> QED BY <1>2, <1>3 DEF DebitsReserved, t2
-----------------------------------------------------------------------------
(* What a successful answer says of the row it was computed from. *)

LEMMA ForcedIsNoSuccess ==
  ASSUME NEW key \in ScenarioKeys
  PROVE  /\ Success \notin Resolve(key).block
         /\ Success \notin Resolve(key).pay
  BY DEF ScenarioKeys, Resolve, SCENARIOS, Success, ScenarioBlocked, Limited,
         ScenarioExpired, InternalError

LEMMA BlockSuccess ==
  ASSUME NEW row \in Row, NEW otp, NEW now \in Nat, BlockAnswer(row, otp, now) = Success
  PROVE  row.status = "active" /\ now < row.expiresAt
<1>1. Resolve(row.scenario).block = {}
  <2>1. SUFFICES ASSUME Resolve(row.scenario).block # {}  PROVE FALSE
    OBVIOUS
  <2>2. (CHOOSE st \in Resolve(row.scenario).block : TRUE) \in Resolve(row.scenario).block
    BY <2>1
  <2>3. row.scenario \in ScenarioKeys
    BY DEF Row
  <2>4. row.status = "absent" \/ BlockAnswer(row, otp, now) # Success
    BY <2>1, <2>2, <2>3, ForcedIsNoSuccess DEF BlockAnswer
  <2> QED BY <2>4 DEF BlockAnswer, NotFound, Success
<1>2. row.status \in Statuses /\ row.expiresAt \in Nat
  BY DEF Row
<1>3. row.status = "active"
  BY <1>1, <1>2 DEF BlockAnswer, NotFound, AlreadyPaid, Success, Statuses
<1>4. ~IsExpired(row, now)
  BY <1>1, <1>3 DEF BlockAnswer, Expired, Success
<1> QED BY <1>2, <1>3, <1>4 DEF IsExpired

LEMMA PaySuccess ==
  ASSUME NEW row \in Row, NEW pt, NEW c, NEW n \in Nat, PayAnswer(row, pt, c, n) = Success
  PROVE  row.status = "blocked" /\ row.point = pt /\ n <= row.balance
<1>1. row.balance \in Nat /\ row.scenario \in ScenarioKeys
  BY DEF Row
<1>2. ~(row.status = "absent" \/ row.currency # c)
  BY DEF PayAnswer, NotFound, Success
<1>3. Resolve(row.scenario).pay = {}
  <2>1. SUFFICES ASSUME Resolve(row.scenario).pay # {}  PROVE FALSE
    OBVIOUS
  <2>2. (CHOOSE st \in Resolve(row.scenario).pay : TRUE) \in Resolve(row.scenario).pay
    BY <2>1
  <2> QED BY <1>1, <1>2, <2>1, <2>2, ForcedIsNoSuccess DEF PayAnswer
<1>4. row.status = "blocked" /\ row.point = pt
  BY <1>2, <1>3 DEF PayAnswer, NotBlocked, Success
<1> QED BY <1>1, <1>2, <1>3, <1>4 DEF PayAnswer, InternalError, Success

-----------------------------------------------------------------------------
(* Each write keeps RowInv. *)

LEMMA RowCreated ==
  ASSUME NEW n \in Nat, NEW c \in Currencies, NEW x \in Nat, NEW sc \in ScenarioKeys,
         NEW o \in BOOLEAN
  PROVE  RowInv([status |-> "active", amount |-> n, balance |-> n, currency |-> c,
                 scenario |-> sc, otpNeeded |-> o, point |-> NoPoint, expiresAt |-> x],
                Append(<<>>, PayoutEvent("created", NoPoint, 0, n)))
<1> DEFINE e == PayoutEvent("created", NoPoint, 0, n)
<1>1. e \in Event /\ e.event = "created" /\ e.balance = n
  BY DEF PayoutEvent, Event, EventNames
<1>2. Append(<<>>, e) \in Seq(Event)
  BY <1>1
<1> HIDE DEF e
<1> QED BY <1>1, <1>2, AccountsCreated DEF RowInv, Row, Statuses, e

LEMMA RowBlocked ==
  ASSUME NEW row, NEW trail, RowInv(row, trail), row.status = "active", NEW pt \in Points
  PROVE  RowInv([row EXCEPT !.status = "blocked", !.point = pt],
                Append(trail, PayoutEvent("blocked", pt, 0, row.balance)))
<1> DEFINE e == PayoutEvent("blocked", pt, 0, row.balance)
           new == [row EXCEPT !.status = "blocked", !.point = pt]
<1>1. row \in Row /\ trail \in Seq(Event) /\ row.amount \in Nat /\ row.balance \in Nat
  BY DEF RowInv, Row
<1>2. e \in Event /\ e.event = "blocked" /\ e.point = pt
  BY <1>1 DEF PayoutEvent, Event, EventNames
<1>3. /\ new \in Row /\ new.status = "blocked" /\ new.point = pt
      /\ new.amount = row.amount /\ new.balance = row.balance
  BY <1>1 DEF Row, Statuses
<1> HIDE DEF e, new
<1>4. TrailAccounts(Append(trail, e), row.amount, row.balance)
  BY <1>1, <1>2, AccountsOther DEF RowInv, MoneyEvents, PayEvents
<1>5. DebitsReserved(Append(trail, e))
  BY <1>1, <1>2, DebitsAppend DEF RowInv, PayEvents
<1>6. Reserved(Append(trail, e), pt, Len(trail) + 2)
  BY <1>1, <1>2, ReservedByBlock
<1>7. Append(trail, e) \in Seq(Event) /\ Len(Append(trail, e)) + 1 = Len(trail) + 2
  BY <1>1, <1>2, AppendFacts
<1> QED BY <1>3, <1>4, <1>5, <1>6, <1>7 DEF RowInv, e, new

LEMMA RowDebited ==
  ASSUME NEW row, NEW trail, RowInv(row, trail), row.status = "blocked",
         NEW n \in Nat, n <= row.balance, NEW r, r.seen = row, r.amount = n
  PROVE  RowInv(Debited(row, r),
                Append(trail, PayoutEvent(IF row.balance - n = 0 THEN "paid" ELSE "partial",
                                          row.point, n, row.balance - n)))
<1> DEFINE rest == row.balance - n
           e == PayoutEvent(IF rest = 0 THEN "paid" ELSE "partial", row.point, n, rest)
           new == Debited(row, r)
<1>1. /\ row \in Row /\ trail \in Seq(Event) /\ row.amount \in Nat
      /\ row.balance \in Nat /\ row.point \in Points /\ rest \in Nat
  BY DEF RowInv, Row
<1>2. e \in Event /\ e.event \in PayEvents /\ e.point = row.point
      /\ e.balance + e.amount = row.balance /\ e.balance = rest
  BY <1>1 DEF PayoutEvent, Event, EventNames, PayEvents
<1>3. /\ new \in Row /\ new.status \in {"paid", "active"} /\ new.point = NoPoint
      /\ new.amount = row.amount /\ new.balance = rest
  BY <1>1 DEF Row, Statuses, Debited
<1> HIDE DEF e, new, rest
<1>4. TrailAccounts(Append(trail, e), row.amount, rest)
  BY <1>1, <1>2, AccountsDebit DEF RowInv
<1>5. DebitsReserved(Append(trail, e))
  BY <1>1, <1>2, DebitsAppend DEF RowInv
<1>6. Append(trail, e) \in Seq(Event)
  BY <1>1, <1>2, AppendFacts
<1> QED BY <1>3, <1>4, <1>5, <1>6 DEF RowInv, e, new, rest

\* A write of an admin that leaves the money alone: it frees the code and says
\* so in the trail, or leaves the reservation as it is.
LEMMA RowAdmin ==
  ASSUME NEW row, NEW trail, RowInv(row, trail), row.status # "absent",
         NEW new \in Row, new.amount = row.amount, new.balance = row.balance,
         NEW e \in Event, e.event \notin MoneyEvents, e.event # "blocked",
         \/ new.status = "active" /\ new.point = NoPoint
         \/ /\ new.status = row.status /\ new.point = row.point
            /\ e.event \notin HoldEvents
  PROVE  RowInv(new, Append(trail, e))
<1>1. trail \in Seq(Event) /\ row.amount \in Nat /\ row.balance \in Nat
  BY DEF RowInv, Row
<1>2. TrailAccounts(Append(trail, e), new.amount, new.balance)
  BY <1>1, AccountsOther DEF RowInv
<1>3. DebitsReserved(Append(trail, e))
  BY <1>1, DebitsAppend DEF RowInv, MoneyEvents
<1>4. Append(trail, e) \in Seq(Event) /\ Len(Append(trail, e)) + 1 = Len(trail) + 2
  BY <1>1, AppendFacts
<1>5. new.status = "blocked" =>
        new.point \in Points /\ Reserved(Append(trail, e), new.point, Len(trail) + 2)
  BY <1>1, ReservedOther DEF RowInv
<1>6. new.status # "absent" /\ (new.status # "blocked" => new.point = NoPoint)
  BY DEF RowInv
<1> QED BY <1>2, <1>3, <1>4, <1>5, <1>6 DEF RowInv

-----------------------------------------------------------------------------
(* The inductive invariant. *)

\* A step that changes only what one handler holds.
LEMMA RequestKeeps ==
  ASSUME IInv, NEW h \in Handlers, NEW v \in {Idle} \cup ApiRequest \cup AdminRequest,
         req' = [req EXCEPT ![h] = v], UNCHANGED <<code, events, clock>>,
         h \in Sessions => v.pc \notin {"card", "loaded"} /\ HoldInv(h)',
         h \in Admins => v.pc \in {"idle", "card", "loaded"} /\ AdminInv(h)',
         h \in Sessions /\ v.pc \in {"locked", "staged"} =>
           \A t \in Sessions : Holds(t) /\ req[t].pin = v.pin => t = h
  PROVE  IInv'
<1>1. req \in [Handlers -> {Idle} \cup ApiRequest \cup AdminRequest]
  BY DEF IInv, ReqInv
<1>2. req' \in [Handlers -> {Idle} \cup ApiRequest \cup AdminRequest]
  BY <1>1
<1>3. /\ req'[h] = v
      /\ \A t \in Handlers : t # h => req'[t] = req[t]
      /\ Sessions \subseteq Handlers /\ Admins \subseteq Handlers
  BY <1>1 DEF Handlers
<1>4. \A t \in Sessions : t # h => HoldInv(t)'
  BY <1>3 DEF IInv, ReqInv, HoldInv, Holds
<1>5. \A t \in Admins : t # h => AdminInv(t)'
  BY <1>3 DEF IInv, ReqInv, AdminInv
<1>6. \A t \in Sessions : req'[t].pc \notin {"card", "loaded"}
  BY <1>3 DEF IInv, ReqInv
<1>7. \A t \in Admins : req'[t].pc \in {"idle", "card", "loaded"}
  BY <1>3 DEF IInv, ReqInv
<1>8. \A t, u \in Sessions : Holds(t)' /\ Holds(u)' /\ req'[t].pin = req'[u].pin => t = u
  BY <1>3 DEF IInv, ReqInv, Holds
<1>9. ReqInv'
  BY <1>2, <1>4, <1>5, <1>6, <1>7, <1>8 DEF ReqInv
<1> QED BY <1>9 DEF IInv

\* A step that writes one row, which no other session holds, and goes idle.
LEMMA WriteKeeps ==
  ASSUME IInv, NEW h \in Handlers, NEW p \in Pins, NEW row, NEW e \in Event,
         RowInv(row, Append(events[p], e)), row.status # "absent",
         code' = [code EXCEPT ![p] = row],
         events' = [events EXCEPT ![p] = Append(@, e)],
         req' = [req EXCEPT ![h] = Idle],
         UNCHANGED clock,
         \A t \in Sessions : Holds(t) /\ req[t].pin = p => t = h
  PROVE  IInv'
<1>1. /\ code \in [Pins -> Row] /\ events \in [Pins -> Seq(Event)]
      /\ req \in [Handlers -> {Idle} \cup ApiRequest \cup AdminRequest]
  BY DEF IInv, ReqInv
<1>2. /\ code'[p] = row /\ events'[p] = Append(events[p], e)
      /\ \A q \in Pins : q # p => code'[q] = code[q] /\ events'[q] = events[q]
  BY <1>1
<1>3. /\ req'[h] = Idle
      /\ \A t \in Handlers : t # h => req'[t] = req[t]
      /\ Sessions \subseteq Handlers /\ Admins \subseteq Handlers
  BY <1>1 DEF Handlers
<1>4. \A q \in Pins : RowInv(code'[q], events'[q])
  BY <1>2 DEF IInv
<1>5. code' \in [Pins -> Row] /\ events' \in [Pins -> Seq(Event)]
  BY <1>1 DEF RowInv
<1>6. req' \in [Handlers -> {Idle} \cup ApiRequest \cup AdminRequest]
  BY <1>1
<1>7. ASSUME NEW t \in Sessions  PROVE HoldInv(t)'
  <2>1. CASE t = h
    BY <1>3, <2>1 DEF HoldInv, Holds, Idle
  <2>2. CASE t # h
    <3>1. req'[t] = req[t] /\ (Holds(t)' <=> Holds(t)) /\ (Holds(t) => req[t].pin # p)
      BY <1>3, <2>2 DEF Holds
    <3>2. Holds(t) => req[t].pin \in Pins
      BY DEF IInv, ReqInv, HoldInv, ApiRequest
    <3> QED BY <1>2, <3>1, <3>2 DEF IInv, ReqInv, HoldInv
  <2> QED BY <2>1, <2>2
<1>8. ASSUME NEW t \in Admins  PROVE AdminInv(t)'
  <2>1. CASE t = h
    BY <1>3, <2>1 DEF AdminInv, Idle
  <2>2. CASE t # h
    <3>1. req'[t] = req[t] /\ (req[t].pc \in {"card", "loaded"} => req[t].pin \in Pins)
      BY <1>3, <2>2 DEF IInv, ReqInv, AdminInv, AdminRequest
    <3> QED BY <1>2, <3>1 DEF IInv, ReqInv, AdminInv
  <2> QED BY <2>1, <2>2
<1>9. \A t, u \in Sessions : Holds(t)' /\ Holds(u)' /\ req'[t].pin = req'[u].pin => t = u
  BY <1>3 DEF IInv, ReqInv, Holds, Idle
<1>10. /\ \A t \in Sessions : req'[t].pc \notin {"card", "loaded"}
       /\ \A t \in Admins : req'[t].pc \in {"idle", "card", "loaded"}
  BY <1>3 DEF IInv, ReqInv, Idle
<1>11. ReqInv'
  BY <1>6, <1>7, <1>8, <1>9, <1>10 DEF ReqInv
<1> QED BY <1>4, <1>5, <1>11 DEF IInv

LEMMA InitInv == Init => IInv
<1> SUFFICES ASSUME Init  PROVE IInv
  OBVIOUS
<1>1. (CHOOSE c \in Currencies : TRUE) \in Currencies
  BY PayoutsAssumption
<1>2. AbsentRow \in Row /\ AbsentRow.status = "absent" /\ AbsentRow.point = NoPoint
  BY <1>1 DEF AbsentRow, Row, Statuses, ScenarioKeys, SCENARIOS
<1>3. DebitsReserved(<<>>) /\ <<>> \in Seq(Event)
  BY DEF DebitsReserved
<1>4. RowInv(AbsentRow, <<>>)
  BY <1>2, <1>3 DEF RowInv
<1>5. ReqInv
  BY DEF Init, ReqInv, Idle, HoldInv, Holds, AdminInv, Handlers
<1> QED BY <1>2, <1>3, <1>4, <1>5 DEF Init, IInv

-----------------------------------------------------------------------------
(* One lemma per action that writes or reads a row. *)

LEMMA CreateInv ==
  ASSUME IInv, NEW batch \in SUBSET Pins, NEW n \in Amounts, NEW c \in Currencies,
         NEW x \in Ttls, NEW sc \in Scenarios, NEW o \in BOOLEAN,
         CreateCodes(batch, n, c, x, sc, o)
  PROVE  IInv'
<1> DEFINE row == [status |-> "active", amount |-> n, balance |-> n, currency |-> c,
                   scenario |-> sc, otpNeeded |-> o, point |-> NoPoint,
                   expiresAt |-> clock + x]
           e == PayoutEvent("created", NoPoint, 0, n)
<1>1. n \in Nat /\ x \in Nat /\ sc \in ScenarioKeys /\ clock + x \in Nat
  BY PayoutsAssumption DEF IInv
<1>2. RowInv(row, Append(<<>>, e))
  BY <1>1, RowCreated
<1>3. row.status = "active"
  OBVIOUS
<1>4. \A p \in batch : events[p] = <<>>
  BY DEF CreateCodes, IInv, RowInv
<1>5. /\ code' = [p \in Pins |-> IF p \in batch THEN row ELSE code[p]]
      /\ events' = [p \in Pins |-> IF p \in batch THEN Append(events[p], e) ELSE events[p]]
      /\ req' = req /\ clock' = clock
  BY DEF CreateCodes
<1> HIDE DEF row, e
<1>6. \A p \in Pins : RowInv(code'[p], events'[p])
  BY <1>2, <1>4, <1>5 DEF IInv
<1>7. code' \in [Pins -> Row] /\ events' \in [Pins -> Seq(Event)]
  BY <1>5, <1>6 DEF RowInv
<1>8. ASSUME NEW s \in Sessions  PROVE HoldInv(s)'
  <2>1. Holds(s) => req[s].pin \in Pins /\ code[req[s].pin].status # "absent"
    BY DEF IInv, ReqInv, HoldInv, ApiRequest
  <2>2. Holds(s) => code'[req[s].pin] = code[req[s].pin]
    BY <1>5, <2>1 DEF CreateCodes
  <2> QED BY <1>5, <2>2 DEF IInv, ReqInv, HoldInv, Holds
<1>9. ASSUME NEW a \in Admins  PROVE AdminInv(a)'
  <2>1. req[a].pc \in {"card", "loaded"} =>
          req[a].pin \in Pins /\ code[req[a].pin].status # "absent"
    BY DEF IInv, ReqInv, AdminInv, AdminRequest
  <2> QED BY <1>5, <2>1 DEF IInv, ReqInv, AdminInv, CreateCodes
<1>10. ReqInv'
  BY <1>5, <1>8, <1>9 DEF IInv, ReqInv, Holds
<1> QED BY <1>5, <1>6, <1>7, <1>10 DEF IInv

LEMMA LockInv ==
  ASSUME IInv, NEW s \in Sessions, NEW op \in {"block", "pay"}, NEW p \in Pins,
         NEW pt \in Points, NEW o \in Otps, NEW c \in Currencies, NEW n \in Nat,
         Lock(s, op, p, pt, o, c, n)
  PROVE  IInv'
<1> DEFINE v == [pc |-> "locked", op |-> op, pin |-> p, point |-> pt, otp |-> o,
                 currency |-> c, amount |-> n, seen |-> code[p]]
<1>1. code[p] \in Row /\ code[p].status # "absent"
  BY DEF IInv, Lock
<1>2. v \in ApiRequest /\ v.pc = "locked" /\ v.pin = p /\ v.seen = code[p]
  BY <1>1 DEF ApiRequest
<1>3. req' = [req EXCEPT ![s] = v] /\ UNCHANGED <<code, events, clock>>
  BY DEF Lock
<1> HIDE DEF v
<1>4. s \in Handlers /\ s \notin Admins
  BY PayoutsAssumption DEF Handlers
<1>5. req'[s] = v
  BY <1>3, <1>4 DEF IInv, ReqInv
<1>6. HoldInv(s)'
  BY <1>1, <1>2, <1>3, <1>5 DEF HoldInv, Holds
<1>7. \A t \in Sessions : ~(Holds(t) /\ req[t].pin = p)
  BY DEF Lock, Locked, Holds
<1> QED BY <1>2, <1>3, <1>4, <1>6, <1>7, RequestKeeps

\* Refuse and Fail.
LEMMA ReleaseInv ==
  ASSUME IInv, NEW h \in Handlers, req' = [req EXCEPT ![h] = Idle],
         UNCHANGED <<code, events, clock>>
  PROVE  IInv'
<1>1. req'[h] = Idle /\ Idle.pc = "idle"
  BY DEF IInv, ReqInv, Idle
<1>2. (h \in Sessions => HoldInv(h)') /\ (h \in Admins => AdminInv(h)')
  BY <1>1 DEF HoldInv, Holds, AdminInv
<1> QED BY <1>1, <1>2, RequestKeeps

LEMMA StageInv == ASSUME IInv, NEW s \in Sessions, Stage(s)  PROVE IInv'
<1> DEFINE r == req[s]
           v == [r EXCEPT !.pc = "staged"]
<1>1. /\ r \in ApiRequest /\ r.seen = code[r.pin] /\ r.seen.status # "absent"
      /\ r.pc = "locked" /\ Answer(r) = Success
  BY DEF IInv, ReqInv, HoldInv, Holds, Stage
<1>2. r.seen \in Row /\ r.amount \in Nat /\ r.op \in {"block", "pay"} /\ clock \in Nat
  BY <1>1 DEF ApiRequest, IInv
<1>3. /\ v \in ApiRequest /\ v.pc = "staged" /\ v.pin = r.pin /\ v.seen = r.seen
      /\ v.op = r.op /\ v.point = r.point /\ v.amount = r.amount
  BY <1>1 DEF ApiRequest
<1>4. r.op = "block" => r.seen.status = "active"
  BY <1>1, <1>2, BlockSuccess DEF Answer
<1>5. r.op = "pay" => /\ r.seen.status = "blocked" /\ r.seen.point = r.point
                     /\ r.amount <= r.seen.balance
  BY <1>1, <1>2, PaySuccess DEF Answer
<1>6. s \in Handlers /\ s \notin Admins
  BY PayoutsAssumption DEF Handlers
<1>7. req' = [req EXCEPT ![s] = v] /\ UNCHANGED <<code, events, clock>>
  BY DEF Stage
<1>8. \A t \in Sessions : Holds(t) /\ req[t].pin = r.pin => t = s
  BY <1>1 DEF IInv, ReqInv, Holds
<1> HIDE DEF v
<1>9. req'[s] = v
  BY <1>6, <1>7 DEF IInv, ReqInv
<1>10. HoldInv(s)'
  BY <1>1, <1>3, <1>4, <1>5, <1>7, <1>9 DEF HoldInv, Holds
<1> QED BY <1>3, <1>6, <1>7, <1>8, <1>10, RequestKeeps

LEMMA CommitInv == ASSUME IInv, NEW s \in Sessions, Commit(s)  PROVE IInv'
<1> DEFINE r == req[s]
           p == r.pin
<1>1. /\ r \in ApiRequest /\ r.seen = code[p] /\ r.pc = "staged"
      /\ req' = [req EXCEPT ![s] = Idle] /\ UNCHANGED clock
  BY DEF IInv, ReqInv, HoldInv, Holds, Commit
<1>2. /\ p \in Pins /\ r.point \in Points /\ r.amount \in Nat
      /\ code[p] \in Row /\ events[p] \in Seq(Event) /\ RowInv(code[p], events[p])
  BY <1>1 DEF ApiRequest, IInv
<1>3. s \in Handlers
  BY DEF Handlers
<1>4. \A t \in Sessions : Holds(t) /\ req[t].pin = p => t = s
  BY <1>1 DEF IInv, ReqInv, Holds
<1>5. CASE r.op = "block"
  <2> DEFINE row == [code[p] EXCEPT !.status = "blocked", !.point = r.point]
             e == PayoutEvent("blocked", r.point, 0, code[p].balance)
  <2>1. code' = [code EXCEPT ![p] = row] /\ events' = [events EXCEPT ![p] = Append(@, e)]
    BY <1>1, <1>2, <1>5 DEF Commit, Blocked, IInv
  <2>2. code[p].status = "active"
    BY <1>1, <1>5 DEF IInv, ReqInv, HoldInv, Holds
  <2>3. RowInv(row, Append(events[p], e))
    BY <1>2, <2>2, RowBlocked
  <2>4. row.status = "blocked" /\ e \in Event
    BY <1>2 DEF PayoutEvent, Event, EventNames, Row
  <2> HIDE DEF row, e, p, r
  <2> QED BY <1>1, <1>2, <1>3, <1>4, <2>1, <2>3, <2>4, WriteKeeps
<1>6. CASE r.op = "pay"
  <2> DEFINE row == Debited(code[p], r)
             rest == code[p].balance - r.amount
             e == PayoutEvent(IF rest = 0 THEN "paid" ELSE "partial", r.point, r.amount, rest)
  <2>1. code' = [code EXCEPT ![p] = row] /\ events' = [events EXCEPT ![p] = Append(@, e)]
    BY <1>1, <1>2, <1>6 DEF Commit, IInv
  <2>2. /\ code[p].status = "blocked" /\ code[p].point = r.point
        /\ r.amount <= code[p].balance
    BY <1>1, <1>6 DEF IInv, ReqInv, HoldInv, Holds
  <2>3. RowInv(row, Append(events[p], e))
    BY <1>1, <1>2, <2>2, RowDebited
  <2>4. row.status # "absent"
    BY <1>2 DEF Debited, Row
  <2>5. e \in Event
    BY <1>2, <2>2 DEF PayoutEvent, Event, EventNames, Row
  <2> HIDE DEF row, e, rest, p, r
  <2> QED BY <1>1, <1>2, <1>3, <1>4, <2>1, <2>3, <2>4, <2>5, WriteKeeps
<1> QED BY <1>1, <1>5, <1>6 DEF ApiRequest

LEMMA AdminOpenInv == ASSUME IInv, NEW a \in Admins, NEW p \in Pins, AdminOpen(a, p)  PROVE IInv'
<1> DEFINE v == [pc |-> "card", pin |-> p, shown |-> FormOf(code[p])]
<1>1. code[p] \in Row /\ code[p].status # "absent"
  BY DEF IInv, AdminOpen
<1>2. v \in AdminRequest /\ v.pc = "card" /\ v.pin = p
  BY <1>1 DEF AdminRequest, Form, FormOf, Row
<1>3. req' = [req EXCEPT ![a] = v] /\ UNCHANGED <<code, events, clock>>
  BY DEF AdminOpen
<1> HIDE DEF v
<1>4. a \in Handlers /\ a \notin Sessions
  BY PayoutsAssumption DEF Handlers
<1>5. AdminInv(a)'
  BY <1>1, <1>2, <1>3, <1>4 DEF AdminInv, IInv, ReqInv
<1> QED BY <1>2, <1>3, <1>4, <1>5, RequestKeeps

LEMMA AdminLoadInv == ASSUME IInv, NEW a \in Admins, AdminLoad(a)  PROVE IInv'
<1> DEFINE r == req[a]
           v == [pc |-> "loaded", pin |-> r.pin, shown |-> r.shown, seen |-> code[r.pin],
                 at |-> clock]
<1>1. r \in AdminRequest /\ r.pc = "card" /\ code[r.pin].status # "absent"
  BY DEF IInv, ReqInv, AdminInv, AdminLoad
<1>2. r.pin \in Pins /\ r.shown \in Form
  BY <1>1 DEF AdminRequest
<1>3. /\ code[r.pin] \in Row /\ clock \in Nat
      /\ code[r.pin].status = "blocked" => code[r.pin].point \in Points
  BY <1>2 DEF IInv, RowInv
<1>4. v \in AdminRequest /\ v.pc = "loaded" /\ v.pin = r.pin /\ v.seen = code[r.pin]
  BY <1>2, <1>3 DEF AdminRequest
<1>5. req' = [req EXCEPT ![a] = v] /\ UNCHANGED <<code, events, clock>>
  BY DEF AdminLoad
<1> HIDE DEF v
<1>6. a \in Handlers /\ a \notin Sessions
  BY PayoutsAssumption DEF Handlers
<1>7. req'[a] = v
  BY <1>5, <1>6 DEF IInv, ReqInv
<1>8. AdminInv(a)'
  BY <1>1, <1>3, <1>4, <1>5, <1>7 DEF AdminInv
<1> QED BY <1>4, <1>5, <1>6, <1>8, RequestKeeps

\* An admin's write: the row it writes is unlocked, and keeps its money.
LEMMA AdminWriteInv ==
  ASSUME IInv, NEW a \in Admins, req[a].pc = "loaded", NEW new \in Row, NEW e \in Event,
         AdminWrite(a, new, e),
         new.amount = code[req[a].pin].amount, new.balance = code[req[a].pin].balance,
         e.event \notin MoneyEvents, e.event # "blocked",
         \/ new.status = "active" /\ new.point = NoPoint
         \/ /\ new.status = code[req[a].pin].status /\ new.point = code[req[a].pin].point
            /\ e.event \notin HoldEvents
  PROVE  IInv'
<1> DEFINE p == req[a].pin
<1>1. p \in Pins /\ code[p].status # "absent" /\ RowInv(code[p], events[p])
  BY DEF IInv, ReqInv, AdminInv, AdminRequest
<1>2. RowInv(new, Append(events[p], e))
  BY <1>1, RowAdmin
<1>3. /\ code' = [code EXCEPT ![p] = new] /\ events' = [events EXCEPT ![p] = Append(@, e)]
      /\ req' = [req EXCEPT ![a] = Idle] /\ UNCHANGED clock
      /\ \A t \in Sessions : ~(Holds(t) /\ req[t].pin = p)
  BY DEF AdminWrite, Locked, Holds
<1>4. new.status # "absent" /\ a \in Handlers
  BY <1>1 DEF Handlers
<1> HIDE DEF p
<1> QED BY <1>1, <1>2, <1>3, <1>4, WriteKeeps

LEMMA AdminUnblockInv == ASSUME IInv, NEW a \in Admins, AdminUnblock(a)  PROVE IInv'
<1> DEFINE r == req[a]
           new == [code[r.pin] EXCEPT !.status = "active", !.point = NoPoint]
           e == PayoutEvent("admin_unblock", r.seen.point, 0, r.seen.balance)
<1>1. r.pc = "loaded" /\ r.seen.status = "blocked" /\ AdminWrite(a, new, e)
  BY DEF AdminUnblock
<1>2. /\ r.pin \in Pins /\ r.seen \in Row /\ code[r.pin] \in Row
      /\ r.seen.point \in Points /\ r.seen.balance \in Nat
  BY <1>1 DEF IInv, ReqInv, AdminInv, AdminRequest, Row
<1>3. /\ new \in Row /\ new.amount = code[r.pin].amount /\ new.balance = code[r.pin].balance
      /\ new.status = "active" /\ new.point = NoPoint
  BY <1>2 DEF Row, Statuses
<1>4. e \in Event /\ e.event = "admin_unblock"
  BY <1>2 DEF Event, EventNames, PayoutEvent
<1> HIDE DEF new, e
<1> QED BY <1>1, <1>3, <1>4, AdminWriteInv DEF MoneyEvents, PayEvents

LEMMA AdminExpireInv == ASSUME IInv, NEW a \in Admins, AdminExpire(a)  PROVE IInv'
<1> DEFINE r == req[a]
           e == PayoutEvent("admin_expire", NoPoint, 0, r.seen.balance)
<1>0. PICK now \in r.at .. clock : AdminWrite(a, [code[r.pin] EXCEPT !.expiresAt = now], e)
  BY DEF AdminExpire
<1> DEFINE new == [code[r.pin] EXCEPT !.expiresAt = now]
<1>1. r.pc = "loaded" /\ AdminWrite(a, new, e)
  BY <1>0 DEF AdminExpire
<1>2. /\ r.pin \in Pins /\ r.seen \in Row /\ code[r.pin] \in Row
      /\ r.seen.balance \in Nat /\ r.at \in Nat /\ clock \in Nat /\ now \in Nat
  BY <1>1 DEF IInv, ReqInv, AdminInv, AdminRequest, Row
<1>3. /\ new \in Row /\ new.amount = code[r.pin].amount /\ new.balance = code[r.pin].balance
      /\ new.status = code[r.pin].status /\ new.point = code[r.pin].point
  BY <1>2 DEF Row
<1>4. e \in Event /\ e.event = "admin_expire"
  BY <1>2 DEF Event, EventNames, PayoutEvent
<1> HIDE DEF new, e
<1> QED BY <1>1, <1>3, <1>4, AdminWriteInv DEF MoneyEvents, PayEvents, HoldEvents

LEMMA AdminUpdateInv ==
  ASSUME IInv, NEW a \in Admins, NEW sc \in Scenarios, NEW o \in BOOLEAN, AdminUpdate(a, sc, o)
  PROVE  IInv'
<1> DEFINE r == req[a]
           new == [code[r.pin] EXCEPT
                     !.scenario  = IF sc # r.seen.scenario THEN sc ELSE @,
                     !.otpNeeded = IF o # r.seen.otpNeeded THEN o ELSE @]
           e == PayoutEvent("admin_update", NoPoint, 0, r.seen.balance)
<1>1. r.pc = "loaded" /\ AdminWrite(a, new, e)
  BY DEF AdminUpdate
<1>2. /\ r.pin \in Pins /\ r.seen \in Row /\ code[r.pin] \in Row
      /\ r.seen.balance \in Nat /\ sc \in ScenarioKeys
  BY <1>1, PayoutsAssumption DEF IInv, ReqInv, AdminInv, AdminRequest, Row
<1>3. /\ new \in Row /\ new.amount = code[r.pin].amount /\ new.balance = code[r.pin].balance
      /\ new.status = code[r.pin].status /\ new.point = code[r.pin].point
  BY <1>2 DEF Row
<1>4. e \in Event /\ e.event = "admin_update"
  BY <1>2 DEF Event, EventNames, PayoutEvent
<1> HIDE DEF new, e
<1> QED BY <1>1, <1>3, <1>4, AdminWriteInv DEF MoneyEvents, PayEvents, HoldEvents

-----------------------------------------------------------------------------
\* IInv is inductive.
LEMMA NextInv == IInv /\ [Next]_vars => IInv'
<1> SUFFICES ASSUME IInv, [Next]_vars  PROVE IInv'
  OBVIOUS
<1>1. CASE Tick
  <2>1. clock' \in Nat /\ UNCHANGED <<code, events, req>>
    BY <1>1 DEF Tick, IInv
  <2> QED BY <2>1 DEF IInv, ReqInv, HoldInv, Holds, AdminInv
<1>2. CASE Create
  BY <1>2, CreateInv DEF Create
<1>3. ASSUME NEW s \in Sessions, ApiStep(s)  PROVE IInv'
  <2>1. CASE BlockRequest(s)
    <3>1. PICK p \in Pins, pt \in Points, o \in OtpInputs :
            Lock(s, "block", p, pt, o, code[p].currency, 0)
      BY <2>1 DEF BlockRequest
    <3>2. o \in Otps /\ code[p].currency \in Currencies
      BY PayoutsAssumption DEF IInv, Row
    <3> QED BY <3>1, <3>2, LockInv
  <2>2. CASE PayRequest(s)
    <3>1. PICK p \in Pins, pt \in Points, c \in Currencies, n \in PayAmounts :
            Lock(s, "pay", p, pt, "", c, n)
      BY <2>2 DEF PayRequest
    <3>2. n \in Nat /\ "" \in Otps
      BY PayoutsAssumption DEF Otps
    <3> QED BY <3>1, <3>2, LockInv
  <2>3. CASE Refuse(s) \/ Fail(s)
    BY <2>3, ReleaseInv DEF Refuse, Fail, Handlers
  <2> QED BY <1>3, <2>1, <2>2, <2>3, StageInv, CommitInv DEF ApiStep
<1>4. ASSUME NEW a \in Admins, AdminStep(a)  PROVE IInv'
  <2>1. CASE AdminSkip(a)
    BY <2>1, ReleaseInv DEF AdminSkip, Handlers
  <2> QED BY <1>4, <2>1, AdminOpenInv, AdminLoadInv, AdminUnblockInv, AdminExpireInv, AdminUpdateInv
          DEF AdminStep
<1>5. CASE UNCHANGED vars
  BY <1>5 DEF vars, IInv, ReqInv, HoldInv, Holds, AdminInv
<1> QED BY <1>1, <1>2, <1>3, <1>4, <1>5 DEF Next

THEOREM Inductive == Spec => []IInv
  BY InitInv, NextInv, PTL DEF Spec

\* Type correctness, for every set of PINs, points, sessions and admins.
THEOREM TypeCorrect == Spec => []TypeOK
<1>1. IInv => TypeOK
  BY DEF IInv, ReqInv, TypeOK
<1> QED BY <1>1, Inductive, PTL

\* No interleaving of requests and admin actions debits a code twice or loses a
\* unit of its money.
THEOREM MoneyAccounted == Spec => []LedgerChain
<1>1. IInv => LedgerChain
  BY DEF IInv, RowInv, LedgerChain
<1> QED BY <1>1, Inductive, PTL

\* Every debit rests on a reservation of the same point, spent by nothing else.
THEOREM DebitsAreReserved == Spec => []DebitSpendsItsBlock
<1>1. IInv => DebitSpendsItsBlock
  BY DEF IInv, RowInv, DebitSpendsItsBlock
<1> QED BY <1>1, Inductive, PTL

-----------------------------------------------------------------------------
(* What a commit finds in the row, and the steps that touch no row. *)

LEMMA CommitFinds ==
  ASSUME IInv, NEW s \in Sessions, Commit(s)
  PROVE  LET r == req[s] IN
         /\ r \in ApiRequest /\ r.seen = code[r.pin] /\ r.pc = "staged"
         /\ r.op = "block" => /\ code[r.pin].status = "active"
                              /\ code' = [code EXCEPT ![r.pin] = Blocked(@, r)]
         /\ r.op = "pay" => /\ code[r.pin].status = "blocked"
                            /\ code[r.pin].point = r.point
                            /\ r.amount <= code[r.pin].balance
                            /\ code' = [code EXCEPT ![r.pin] = Debited(@, r)]
<1>1. /\ req[s] \in ApiRequest /\ req[s].seen = code[req[s].pin] /\ req[s].pc = "staged"
  BY DEF IInv, ReqInv, HoldInv, Holds, Commit
<1> QED BY <1>1 DEF Commit, IInv, ReqInv, HoldInv, Holds

LEMMA OnlyRowWrites ==
  ASSUME IInv, [Next]_vars
  PROVE  \/ code' = code
         \/ \E batch \in SUBSET Pins, n \in Amounts, c \in Currencies, t \in Ttls,
              sc \in Scenarios, o \in BOOLEAN : CreateCodes(batch, n, c, t, sc, o)
         \/ \E s \in Sessions : Commit(s)
         \/ \E a \in Admins :
              \/ AdminUnblock(a)
              \/ AdminExpire(a)
              \/ \E sc \in Scenarios, o \in BOOLEAN : AdminUpdate(a, sc, o)
<1>1. \A s \in Sessions : ApiStep(s) => code' = code \/ Commit(s)
  BY DEF ApiStep, BlockRequest, PayRequest, Lock, Refuse, Stage, Fail
<1>2. \A a \in Admins : AdminStep(a) =>
        \/ code' = code
        \/ AdminUnblock(a)
        \/ AdminExpire(a)
        \/ \E sc \in Scenarios, o \in BOOLEAN : AdminUpdate(a, sc, o)
  BY DEF AdminStep, AdminOpen, AdminLoad, AdminSkip
<1> QED BY <1>1, <1>2 DEF Next, Create, Tick, vars

\* What an admin's write leaves of the row, by action.
LEMMA AdminWrites ==
  ASSUME IInv, NEW a \in Admins, NEW p \in Pins
  PROVE  /\ AdminUnblock(a) =>
              /\ code'[p].balance = code[p].balance
              /\ code'[p].expiresAt = code[p].expiresAt
              /\ code'[p].status # code[p].status =>
                   p = req[a].pin /\ req[a].pc = "loaded" /\ req[a].seen.status = "blocked"
              /\ code[p].status = "active" => code'[p].status = "active"
         /\ AdminExpire(a) =>
              /\ code'[p].status = code[p].status
              /\ code'[p].balance = code[p].balance
              /\ code'[p].expiresAt = code[p].expiresAt \/ code'[p].expiresAt \in 0 .. clock
         /\ \A sc \in Scenarios, o \in BOOLEAN : AdminUpdate(a, sc, o) =>
              /\ code'[p].status = code[p].status
              /\ code'[p].balance = code[p].balance
              /\ code'[p].expiresAt = code[p].expiresAt
<1>1. code \in [Pins -> Row] /\ code[p] \in Row
  BY DEF IInv
<1>2. (req[a].pc = "loaded" => req[a].pin \in Pins /\ code[req[a].pin] \in Row)
  BY DEF IInv, ReqInv, AdminInv, AdminRequest
<1>3. AdminUnblock(a) =>
        /\ code'[p].balance = code[p].balance
        /\ code'[p].expiresAt = code[p].expiresAt
        /\ code'[p].status # code[p].status =>
             p = req[a].pin /\ req[a].pc = "loaded" /\ req[a].seen.status = "blocked"
        /\ code[p].status = "active" => code'[p].status = "active"
  BY <1>1, <1>2 DEF AdminUnblock, AdminWrite, Row
<1>4. AdminExpire(a) =>
        /\ code'[p].status = code[p].status
        /\ code'[p].balance = code[p].balance
        /\ code'[p].expiresAt = code[p].expiresAt \/ code'[p].expiresAt \in 0 .. clock
  <2> SUFFICES ASSUME AdminExpire(a)
               PROVE  /\ code'[p].status = code[p].status
                      /\ code'[p].balance = code[p].balance
                      /\ \/ code'[p].expiresAt = code[p].expiresAt
                         \/ code'[p].expiresAt \in 0 .. clock
    OBVIOUS
  <2>1. req[a].pc = "loaded" /\ req[a].at \in Nat /\ clock \in Nat
    BY DEF AdminExpire, IInv, ReqInv, AdminInv, AdminRequest
  <2>2. PICK now \in req[a].at .. clock :
          code' = [code EXCEPT ![req[a].pin] = [code[req[a].pin] EXCEPT !.expiresAt = now]]
    BY DEF AdminExpire, AdminWrite
  <2>3. CASE p = req[a].pin
    BY <1>1, <2>1, <2>2, <2>3 DEF Row
  <2>4. CASE p # req[a].pin
    BY <1>1, <2>2, <2>4
  <2> QED BY <2>3, <2>4
<1>5. ASSUME NEW sc \in Scenarios, NEW o \in BOOLEAN, AdminUpdate(a, sc, o)
      PROVE  /\ code'[p].status = code[p].status
             /\ code'[p].balance = code[p].balance
             /\ code'[p].expiresAt = code[p].expiresAt
  BY <1>1, <1>2, <1>5 DEF AdminUpdate, AdminWrite, Row
<1> QED BY <1>3, <1>4, <1>5

\* A code paid in full ends being paid only by an unblock decided on a stale copy.
THEOREM PaidFinalButForStaleUnblock == Spec => PaidEndsOnlyByStaleUnblock
<1> DEFINE Kept(p) ==
      code[p].status = "paid" /\ code'[p].status # "paid" =>
        \E a \in Admins : /\ req[a].pc = "loaded"
                          /\ req[a].pin = p
                          /\ req[a].seen.status = "blocked"
<1>1. ASSUME IInv, [Next]_vars, NEW p \in Pins  PROVE Kept(p)
  <2>1. CASE \E batch \in SUBSET Pins, n \in Amounts, c \in Currencies, t \in Ttls,
                sc \in Scenarios, o \in BOOLEAN : CreateCodes(batch, n, c, t, sc, o)
    BY <2>1 DEF CreateCodes
  <2>2. ASSUME NEW s \in Sessions, Commit(s)  PROVE Kept(p)
    <3>1. p # req[s].pin => code'[p] = code[p]
      BY <1>1, <2>2, CommitFinds DEF ApiRequest, IInv
    <3>2. code[req[s].pin].status # "paid"
      BY <1>1, <2>2, CommitFinds DEF ApiRequest
    <3> QED BY <3>1, <3>2
  <2>3. ASSUME NEW a \in Admins,
               \/ AdminUnblock(a)
               \/ AdminExpire(a)
               \/ \E sc \in Scenarios, o \in BOOLEAN : AdminUpdate(a, sc, o)
        PROVE  Kept(p)
    BY <1>1, <2>3, AdminWrites
  <2> QED BY <1>1, <2>1, <2>2, <2>3, OnlyRowWrites
<1>2. IInv /\ [Next]_vars => [\A p \in Pins : Kept(p)]_vars
  BY <1>1
<1> QED BY <1>2, Inductive, PTL DEF Spec, PaidEndsOnlyByStaleUnblock

\* With no admin request in flight, paid is final: the lifecycle of the docstring.
THEOREM PaidFinalWithoutAdmins == ASSUME Admins = {}  PROVE Spec => PaidIsFinal
<1>1. [\A p \in Pins :
          code[p].status = "paid" /\ code'[p].status # "paid" =>
            \E a \in Admins : /\ req[a].pc = "loaded"
                              /\ req[a].pin = p
                              /\ req[a].seen.status = "blocked"]_vars
      => [\A p \in Pins : code[p].status = "paid" => code'[p].status = "paid"]_vars
  OBVIOUS
<1> QED BY <1>1, PaidFinalButForStaleUnblock, PTL
        DEF PaidEndsOnlyByStaleUnblock, PaidIsFinal

\* No pay commits while an unblock that saw its code blocked is under way.
PaysApart ==
  \A a \in Admins, s \in Sessions :
    req[a].pc = "loaded" /\ req[a].seen.status = "blocked" =>
      ~(req[s].pc = "staged" /\ req[s].op = "pay" /\ req[s].pin = req[a].pin)

\* A code that an admin saw blocked has not been paid in full since.
CopiesCurrent ==
  \A a \in Admins :
    req[a].pc = "loaded" /\ req[a].seen.status = "blocked" => code[req[a].pin].status # "paid"

\* Only a pay closes a code.
LEMMA PayCloses ==
  ASSUME IInv, [Next]_vars, NEW p \in Pins, code[p].status # "paid", code'[p].status = "paid"
  PROVE  \E s \in Sessions : req[s].pc = "staged" /\ req[s].op = "pay" /\ req[s].pin = p
<1>1. CASE \E batch \in SUBSET Pins, n \in Amounts, c \in Currencies, t \in Ttls,
              sc \in Scenarios, o \in BOOLEAN : CreateCodes(batch, n, c, t, sc, o)
  BY <1>1 DEF CreateCodes
<1>2. ASSUME NEW s \in Sessions, Commit(s)
      PROVE  req[s].pc = "staged" /\ req[s].op = "pay" /\ req[s].pin = p
  <2>1. req[s] \in ApiRequest /\ req[s].pc = "staged" /\ code \in [Pins -> Row]
    BY <1>2, CommitFinds DEF IInv
  <2>2. req[s].pin = p
    BY <1>2, <2>1, CommitFinds DEF ApiRequest
  <2>3. req[s].op = "pay"
    <3>1. ASSUME req[s].op = "block"  PROVE FALSE
      <4>1. code' = [code EXCEPT ![p] = Blocked(code[p], req[s])]
        BY <1>2, <2>2, <3>1, CommitFinds
      <4>2. code[p] \in Row /\ code'[p] = Blocked(code[p], req[s])
        BY <2>1, <4>1
      <4>3. code'[p].status = "blocked"
        BY <4>2 DEF Blocked, Row
      <4> QED BY <4>3
    <3> QED BY <2>1, <3>1 DEF ApiRequest
  <2> QED BY <2>1, <2>2, <2>3
<1>3. ASSUME NEW a \in Admins, AdminUnblock(a)  PROVE FALSE
  <2>1. code[req[a].pin] \in Row /\ req[a].pin \in Pins
    BY <1>3 DEF AdminUnblock, IInv, ReqInv, AdminInv, AdminRequest
  <2>2. code' = [code EXCEPT ![req[a].pin] =
                   [code[req[a].pin] EXCEPT !.status = "active", !.point = NoPoint]]
    BY <1>3 DEF AdminUnblock, AdminWrite
  <2>3. code'[p].status = code[p].status \/ code'[p].status = "active"
    BY <2>1, <2>2 DEF IInv, Row
  <2> QED BY <2>3
<1>4. ASSUME NEW a \in Admins,
             AdminExpire(a) \/ \E sc \in Scenarios, o \in BOOLEAN : AdminUpdate(a, sc, o)
      PROVE  FALSE
  BY <1>4, AdminWrites
<1> QED BY <1>1, <1>2, <1>3, <1>4, OnlyRowWrites

\* An admin's copy is the one it had, or the row as it is.
LEMMA CopyTaken ==
  ASSUME IInv, [Next]_vars, NEW a \in Admins, req'[a].pc = "loaded"
  PROVE  \/ req'[a] = req[a]
         \/ req'[a].seen = code[req'[a].pin] /\ code' = code
<1>1. req \in [Handlers -> {Idle} \cup ApiRequest \cup AdminRequest] /\ a \in Handlers
  BY DEF IInv, ReqInv, Handlers
<1>2. ASSUME NEW s \in Sessions, ApiStep(s)  PROVE req'[a] = req[a]
  BY <1>1, <1>2, PayoutsAssumption
     DEF ApiStep, BlockRequest, PayRequest, Lock, Refuse, Stage, Commit, Fail, Handlers
<1>3. ASSUME NEW b \in Admins, AdminStep(b)
      PROVE  req'[a] = req[a] \/ (req'[a].seen = code[req'[a].pin] /\ code' = code)
  <2>1. b \in Handlers
    BY DEF Handlers
  <2>2. CASE AdminLoad(b)
    BY <1>1, <2>1, <2>2 DEF AdminLoad
  <2>4. ASSUME NEW p \in Pins, AdminOpen(b, p)  PROVE req'[a] = req[a]
    BY <1>1, <2>1, <2>4 DEF AdminOpen
  <2>3. CASE \/ AdminSkip(b) \/ AdminUnblock(b) \/ AdminExpire(b)
             \/ \E sc \in Scenarios, o \in BOOLEAN : AdminUpdate(b, sc, o)
    <3>1. req' = [req EXCEPT ![b] = Idle]
      BY <2>3 DEF AdminSkip, AdminUnblock, AdminExpire, AdminUpdate, AdminWrite
    <3> QED BY <1>1, <2>1, <3>1 DEF Idle
  <2> QED BY <1>3, <2>2, <2>3, <2>4 DEF AdminStep
<1>4. Tick \/ Create \/ UNCHANGED vars => req' = req
  BY DEF Tick, Create, CreateCodes, vars
<1> QED BY <1>2, <1>3, <1>4 DEF Next

\* With admins, too, paid is final unless a pay commits under an unblock: the race
\* is the only way out of the lifecycle of the docstring.
THEOREM PaidFinalWhenApart == Spec /\ []PaysApart => PaidIsFinal
<1>1. Init => CopiesCurrent
  BY DEF Init, CopiesCurrent, Handlers, Idle
<1>2. ASSUME IInv, CopiesCurrent, PaysApart, [Next]_vars  PROVE CopiesCurrent'
  <2> SUFFICES ASSUME NEW a \in Admins, req'[a].pc = "loaded", req'[a].seen.status = "blocked"
               PROVE  code'[req'[a].pin].status # "paid"
    BY DEF CopiesCurrent
  <2>1. CASE req'[a] = req[a]
    <3>1. req[a].pin \in Pins
      BY <1>2, <2>1 DEF IInv, ReqInv, AdminInv, AdminRequest
    <3>2. PICK p \in Pins : p = req[a].pin
      BY <3>1
    <3>3. code[p].status # "paid"
      BY <1>2, <2>1, <3>2 DEF CopiesCurrent
    <3>4. code'[p].status # "paid"
      BY <1>2, <2>1, <3>2, <3>3, PayCloses DEF PaysApart
    <3> QED BY <2>1, <3>2, <3>4
  <2>2. CASE req'[a].seen = code[req'[a].pin] /\ code' = code
    BY <2>2
  <2> QED BY <1>2, <2>1, <2>2, CopyTaken
<1>3. CopiesCurrent /\
      [\A p \in Pins :
          code[p].status = "paid" /\ code'[p].status # "paid" =>
            \E a \in Admins : /\ req[a].pc = "loaded"
                              /\ req[a].pin = p
                              /\ req[a].seen.status = "blocked"]_vars
      => [\A p \in Pins : code[p].status = "paid" => code'[p].status = "paid"]_vars
  BY DEF CopiesCurrent
<1> QED BY <1>1, <1>2, <1>3, Inductive, PaidFinalButForStaleUnblock, PTL
        DEF Spec, PaidEndsOnlyByStaleUnblock, PaidIsFinal

\* A code that ran out while it was free stays out: no request debits or blocks it
\* and no admin action gives it more time.
THEOREM ExpiredCodesStayDead == Spec => ExpiredStaysDead
<1> DEFINE Stays(p) == Dead(p) => Dead(p)' /\ code'[p].balance = code[p].balance
<1>1. ASSUME IInv, [Next]_vars, NEW p \in Pins, Dead(p)
      PROVE  Dead(p)' /\ code'[p].balance = code[p].balance
  <2>1. code[p] \in Row /\ code[p].expiresAt \in Nat /\ clock \in Nat /\ code[p].status = "active"
        /\ clock >= code[p].expiresAt
    BY <1>1 DEF IInv, Row, Dead
  <2>2. clock' >= clock /\ clock' \in Nat
    <3>1. \A s \in Sessions : ApiStep(s) => clock' = clock
      BY DEF ApiStep, BlockRequest, PayRequest, Lock, Refuse, Stage, Commit, Fail
    <3>2. \A a \in Admins : AdminStep(a) => clock' = clock
      BY DEF AdminStep, AdminOpen, AdminLoad, AdminSkip, AdminUnblock, AdminExpire, AdminUpdate,
             AdminWrite
    <3>3. Create => clock' = clock
      BY DEF Create, CreateCodes
    <3> QED BY <1>1, <2>1, <3>1, <3>2, <3>3 DEF Next, Tick, vars
  <2>3. /\ code'[p].status = "active" /\ code'[p].balance = code[p].balance
        /\ code'[p].expiresAt = code[p].expiresAt \/ code'[p].expiresAt \in 0 .. clock
    <3>1. CASE \E batch \in SUBSET Pins, n \in Amounts, c \in Currencies, t \in Ttls,
                  sc \in Scenarios, o \in BOOLEAN : CreateCodes(batch, n, c, t, sc, o)
      BY <2>1, <3>1 DEF CreateCodes
    <3>2. ASSUME NEW s \in Sessions, Commit(s)  PROVE code'[p] = code[p]
      BY <1>1, <3>2, CommitFinds DEF ApiRequest, IInv, Dead
    <3>3. ASSUME NEW a \in Admins,
                 \/ AdminUnblock(a)
                 \/ AdminExpire(a)
                 \/ \E sc \in Scenarios, o \in BOOLEAN : AdminUpdate(a, sc, o)
          PROVE  /\ code'[p].status = "active" /\ code'[p].balance = code[p].balance
                 /\ code'[p].expiresAt = code[p].expiresAt \/ code'[p].expiresAt \in 0 .. clock
      BY <1>1, <2>1, <3>3, AdminWrites
    <3> QED BY <1>1, <2>1, <3>1, <3>2, <3>3, OnlyRowWrites
  <2>4. \A s \in Sessions : req'[s].pc = "staged" => req'[s].pin # p
    <3>1. req \in [Handlers -> {Idle} \cup ApiRequest \cup AdminRequest]
      BY <1>1 DEF IInv, ReqInv
    <3>2. ASSUME NEW s \in Sessions, Stage(s)  PROVE req[s].pin # p
      <4>1. /\ req[s] \in ApiRequest /\ req[s].seen = code[req[s].pin]
            /\ req[s].seen \in Row /\ req[s].amount \in Nat
        BY <1>1, <3>2 DEF IInv, ReqInv, HoldInv, Holds, Stage, ApiRequest
      <4>2. Answer(req[s]) = Success
        BY <3>2 DEF Stage
      <4>3. req[s].op = "block" => clock < req[s].seen.expiresAt
        BY <2>1, <4>1, <4>2, BlockSuccess DEF Answer
      <4>4. req[s].op # "block" => req[s].seen.status = "blocked"
        BY <4>1, <4>2, PaySuccess DEF Answer
      <4> QED BY <2>1, <4>1, <4>3, <4>4
    <3>3. ASSUME NEW s \in Sessions, ApiStep(s), NEW t \in Sessions, req'[t].pc = "staged"
          PROVE  req'[t].pin # p
      <4>1. \/ req'[t] = req[t]
            \/ t = s /\ req'[t].pc # "staged"
            \/ t = s /\ Stage(s) /\ req'[t].pin = req[s].pin
        <5>1. s \in Handlers /\ t \in Handlers
          BY DEF Handlers
        <5>2. CASE BlockRequest(s) \/ PayRequest(s)
          <6>1. ASSUME NEW op, NEW q, NEW pt, NEW o, NEW c, NEW n, Lock(s, op, q, pt, o, c, n)
                PROVE  req'[t] = req[t] \/ (t = s /\ req'[t].pc # "staged")
            BY <3>1, <5>1, <6>1 DEF Lock
          <6> QED BY <5>2, <6>1 DEF BlockRequest, PayRequest
        <5>3. CASE Refuse(s) \/ Commit(s) \/ Fail(s)
          BY <3>1, <5>1, <5>3 DEF Refuse, Commit, Fail, Idle
        <5>4. CASE Stage(s)
          <6>1. req[s] \in ApiRequest
            BY <1>1, <5>4 DEF IInv, ReqInv, HoldInv, Holds, Stage
          <6> QED BY <3>1, <5>1, <5>4, <6>1 DEF Stage, ApiRequest
        <5> QED BY <3>3, <5>2, <5>3, <5>4 DEF ApiStep
      <4> QED BY <1>1, <3>2, <3>3, <4>1 DEF Dead
    <3>4. ASSUME NEW a \in Admins, AdminStep(a), NEW t \in Sessions  PROVE req'[t] = req[t]
      BY <3>1, <3>4, PayoutsAssumption
         DEF AdminStep, AdminOpen, AdminLoad, AdminSkip, AdminUnblock, AdminExpire,
             AdminUpdate, AdminWrite, Handlers
    <3> QED BY <1>1, <3>3, <3>4 DEF Next, Tick, Create, CreateCodes, vars, Dead
  <2> QED BY <2>1, <2>2, <2>3, <2>4 DEF Dead
<1>2. IInv /\ [Next]_vars => [\A p \in Pins : Stays(p)]_vars
  BY <1>1
<1> QED BY <1>2, Inductive, PTL DEF Spec, ExpiredStaysDead

\* A save of the card changes a field only to what its admin set it to, unless the card
\* was out of date when its form arrived: requests that overlap never put a field back.
THEOREM SavesKeepUntouchedFields == Spec => UntouchedFieldsStay
<1> DEFINE Stays(p) ==
      code[p].status # "absent" =>
        /\ code'[p].scenario # code[p].scenario =>
             \E a \in Admins : /\ Saves(a, p)
                               /\ Meant(req[a].shown.scenario, req[a].seen.scenario,
                                        code'[p].scenario)
        /\ code'[p].otpNeeded # code[p].otpNeeded =>
             \E a \in Admins : /\ Saves(a, p)
                               /\ Meant(req[a].shown.otpNeeded, req[a].seen.otpNeeded,
                                        code'[p].otpNeeded)
<1>1. ASSUME IInv, [Next]_vars, NEW p \in Pins  PROVE Stays(p)
  <2>0. /\ code \in [Pins -> Row] /\ code[p] \in Row
        /\ req \in [Handlers -> {Idle} \cup ApiRequest \cup AdminRequest]
    BY <1>1 DEF IInv, ReqInv
  <2>1. CASE \E batch \in SUBSET Pins, n \in Amounts, c \in Currencies, t \in Ttls,
                sc \in Scenarios, o \in BOOLEAN : CreateCodes(batch, n, c, t, sc, o)
    BY <2>1 DEF CreateCodes
  <2>2. ASSUME NEW s \in Sessions, Commit(s)
        PROVE  code'[p].scenario = code[p].scenario /\ code'[p].otpNeeded = code[p].otpNeeded
    <3>1. CASE p # req[s].pin
      BY <2>0, <2>2, <3>1 DEF Commit
    <3>2. CASE p = req[s].pin
      <4>1. code'[p] = Blocked(code[p], req[s]) \/ code'[p] = Debited(code[p], req[s])
        BY <2>0, <2>2, <3>2 DEF Commit
      <4> QED BY <2>0, <4>1 DEF Blocked, Debited, Row
    <3> QED BY <3>1, <3>2
  <2>3. ASSUME NEW a \in Admins, AdminUnblock(a) \/ AdminExpire(a)
        PROVE  code'[p].scenario = code[p].scenario /\ code'[p].otpNeeded = code[p].otpNeeded
    <3>1. PICK now \in Nat \cup (req[a].at .. clock) :
            code' = [code EXCEPT ![req[a].pin] = [code[req[a].pin] EXCEPT !.status = "active",
                                                                         !.point = NoPoint]]
            \/ code' = [code EXCEPT ![req[a].pin] = [code[req[a].pin] EXCEPT !.expiresAt = now]]
      BY <2>3 DEF AdminUnblock, AdminExpire, AdminWrite
    <3>2. \/ code'[p] = code[p]
          \/ code'[p] = [code[p] EXCEPT !.status = "active", !.point = NoPoint]
          \/ code'[p] = [code[p] EXCEPT !.expiresAt = now]
      BY <2>0, <3>1
    <3> QED BY <2>0, <3>2 DEF Row
  <2>4. ASSUME NEW a \in Admins, NEW sc \in Scenarios, NEW o \in BOOLEAN, AdminUpdate(a, sc, o)
        PROVE  Stays(p)
    <3>1. req[a].pc = "loaded" /\ req'[a] = Idle
      BY <2>0, <2>4 DEF AdminUpdate, AdminWrite, Handlers
    <3>2. CASE p # req[a].pin
      BY <2>0, <2>4, <3>2 DEF AdminUpdate, AdminWrite
    <3>3. CASE p = req[a].pin
      <4>1. code'[p] = [code[p] EXCEPT
              !.scenario  = IF sc # req[a].seen.scenario THEN sc ELSE @,
              !.otpNeeded = IF o # req[a].seen.otpNeeded THEN o ELSE @]
        BY <2>0, <2>4, <3>3 DEF AdminUpdate, AdminWrite
      <4>2. /\ code'[p].scenario = IF sc # req[a].seen.scenario THEN sc ELSE code[p].scenario
            /\ code'[p].otpNeeded = IF o # req[a].seen.otpNeeded THEN o ELSE code[p].otpNeeded
        BY <2>0, <4>1 DEF Row
      <4> QED BY <3>1, <3>3, <4>2 DEF Saves, Meant
    <3> QED BY <3>2, <3>3
  <2> QED BY <1>1, <2>1, <2>2, <2>3, <2>4, OnlyRowWrites
<1>2. IInv /\ [Next]_vars => [\A p \in Pins : Stays(p)]_vars
  BY <1>1
<1> QED BY <1>2, Inductive, PTL DEF Spec, UntouchedFieldsStay

-----------------------------------------------------------------------------
(* Refinement of the abstract ledger. *)

LEMMA LedgerInit == Init => Ledger!Init
<1> SUFFICES ASSUME Init  PROVE Ledger!Init
  OBVIOUS
<1> QED BY DEF Init, AbsentRow, Ledger!Init

LEMMA LedgerIssue ==
  ASSUME IInv, NEW batch \in SUBSET Pins, NEW n \in Amounts, NEW c \in Currencies,
         NEW t \in Ttls, NEW sc \in Scenarios, NEW o \in BOOLEAN,
         CreateCodes(batch, n, c, t, sc, o)
  PROVE  Ledger!Issue(batch, n)
<1>1. \A p \in Pins : /\ code'[p].status = IF p \in batch THEN "active" ELSE code[p].status
                      /\ code'[p].balance = IF p \in batch THEN n ELSE code[p].balance
  BY DEF CreateCodes
<1>2. \A p \in Pins : code'[p].point = code[p].point
  BY DEF CreateCodes, IInv, RowInv
<1> QED BY <1>1, <1>2 DEF Ledger!Issue, CreateCodes

LEMMA LedgerSteps ==
  ASSUME NEW p \in Pins, NEW pt \in Points, NEW n \in 0 .. code[p].balance,
         Ledger!Reserve(p, pt) \/ Ledger!Settle(p, pt, n)
  PROVE  Ledger!Next
<1>1. code[p].balance = [q \in Pins |-> code[q].balance][p]
  OBVIOUS
<1> QED BY <1>1 DEF Ledger!Next

LEMMA LedgerRelease == ASSUME NEW p \in Pins, Ledger!Release(p)  PROVE Ledger!Next
<1> QED BY Zenon DEF Ledger!Next

LEMMA LedgerCommit ==
  ASSUME IInv, NEW s \in Sessions, Commit(s)
  PROVE  Ledger!Next
<1> PICK r \in ApiRequest : r = req[s]
  BY CommitFinds
<1> DEFINE pin == r.pin
<1>1. /\ r.seen = code[pin] /\ pin \in Pins /\ r.point \in Points
      /\ r.amount \in Nat /\ code \in [Pins -> Row] /\ code[pin] \in Row
      /\ code[pin].balance \in Nat
  BY CommitFinds DEF ApiRequest, IInv, Row
<1>2. CASE r.op = "block"
  <2>1. code[pin].status = "active" /\ code' = [code EXCEPT ![pin] = Blocked(@, r)]
    BY <1>2, CommitFinds
  <2>2. /\ code'[pin].status = "blocked" /\ code'[pin].point = r.point
        /\ code'[pin].balance = code[pin].balance
        /\ \A q \in Pins : q # pin => code'[q] = code[q]
    BY <1>1, <2>1 DEF Blocked, Row
  <2>3. Ledger!Reserve(pin, r.point)
    BY <1>1, <2>1, <2>2 DEF Ledger!Reserve
  <2>4. 0 \in 0 .. code[pin].balance
    BY <1>1
  <2> QED BY <1>1, <2>3, <2>4, LedgerSteps
<1>3. CASE r.op = "pay"
  <2>1. /\ code[pin].status = "blocked" /\ code[pin].point = r.point
        /\ r.amount <= code[pin].balance /\ code' = [code EXCEPT ![pin] = Debited(@, r)]
    BY <1>3, CommitFinds
  <2>2. /\ code'[pin].balance = code[pin].balance - r.amount
        /\ code'[pin].status = IF r.amount = code[pin].balance THEN "paid" ELSE "active"
        /\ code'[pin].point = NoPoint
        /\ \A q \in Pins : q # pin => code'[q] = code[q]
    BY <1>1, <2>1 DEF Debited, Row
  <2>3. Ledger!Settle(pin, r.point, r.amount)
    BY <1>1, <2>1, <2>2 DEF Ledger!Settle
  <2>4. r.amount \in 0 .. code[pin].balance
    BY <1>1, <2>1
  <2> QED BY <1>1, <2>3, <2>4, LedgerSteps
<1> QED BY <1>1, <1>2, <1>3 DEF ApiRequest

\* An admin's write frees the code it is about, or changes nothing a ledger shows.
LEMMA LedgerAdmin ==
  ASSUME IInv, NEW a \in Admins,
         \/ AdminUnblock(a)
         \/ AdminExpire(a)
         \/ \E sc \in Scenarios, o \in BOOLEAN : AdminUpdate(a, sc, o)
  PROVE  [Ledger!Next]_(Ledger!ledgerVars)
<1>0. req[a].pc = "loaded"
  BY DEF AdminUnblock, AdminExpire, AdminUpdate
<1> PICK pin \in Pins : pin = req[a].pin
  BY <1>0 DEF IInv, ReqInv, AdminInv, AdminRequest
<1>1. code[pin].status # "absent" /\ code \in [Pins -> Row]
  BY <1>0 DEF IInv, ReqInv, AdminInv
<1>2. ASSUME AdminUnblock(a)  PROVE Ledger!Next
  <2>1. /\ code[pin].status # "absent" /\ code[pin] \in Row
        /\ code' = [code EXCEPT ![pin] = [code[pin] EXCEPT !.status = "active",
                                                         !.point = NoPoint]]
    BY <1>1, <1>2 DEF AdminUnblock, AdminWrite
  <2>2. /\ code'[pin].status = "active" /\ code'[pin].point = NoPoint
        /\ code'[pin].balance = code[pin].balance
        /\ \A q \in Pins : q # pin => code'[q] = code[q]
    BY <1>1, <2>1 DEF Row
  <2>3. \A q \in Pins : /\ code'[q].status = IF q = pin THEN "active" ELSE code[q].status
                        /\ code'[q].point = IF q = pin THEN NoPoint ELSE code[q].point
                        /\ code'[q].balance = code[q].balance
    BY <2>2
  <2>4. /\ [q \in Pins |-> code'[q].status]
             = [[q \in Pins |-> code[q].status] EXCEPT ![pin] = "active"]
        /\ [q \in Pins |-> code'[q].point]
             = [[q \in Pins |-> code[q].point] EXCEPT ![pin] = NoPoint]
        /\ [q \in Pins |-> code'[q].balance] = [q \in Pins |-> code[q].balance]
    BY <2>3
  <2>5. [q \in Pins |-> code[q].status][pin] # "absent"
    BY <2>1
  <2>6. Ledger!Release(pin)
    BY <2>4, <2>5 DEF Ledger!Release
  <2> QED BY <2>6, LedgerRelease
<1>3. ASSUME AdminExpire(a) \/ \E sc \in Scenarios, o \in BOOLEAN : AdminUpdate(a, sc, o)
      PROVE  UNCHANGED Ledger!ledgerVars
  <2>1. PICK x, sc, o :
          \/ code' = [code EXCEPT ![pin] = [code[pin] EXCEPT !.expiresAt = x]]
          \/ code' = [code EXCEPT ![pin] = [code[pin] EXCEPT !.scenario = sc, !.otpNeeded = o]]
    <3>1. CASE AdminExpire(a)
      BY <3>1 DEF AdminExpire, AdminWrite
    <3>2. CASE \E sc \in Scenarios, o \in BOOLEAN : AdminUpdate(a, sc, o)
      <4>1. PICK sc \in Scenarios, o \in BOOLEAN : AdminUpdate(a, sc, o)
        BY <3>2
      <4> DEFINE v == IF sc # req[a].seen.scenario THEN sc ELSE code[pin].scenario
                 w == IF o # req[a].seen.otpNeeded THEN o ELSE code[pin].otpNeeded
      <4>2. code' = [code EXCEPT ![pin] = [code[pin] EXCEPT !.scenario = v, !.otpNeeded = w]]
        BY <4>1 DEF AdminUpdate, AdminWrite
      <4> QED BY <4>2
    <3> QED BY <1>3, <3>1, <3>2
  <2>2. ASSUME NEW q \in Pins
        PROVE  /\ code'[q].status = code[q].status /\ code'[q].point = code[q].point
               /\ code'[q].balance = code[q].balance
    <3>1. CASE q = pin
      <4>1. \/ code'[q] = [code[q] EXCEPT !.expiresAt = x]
            \/ code'[q] = [code[q] EXCEPT !.scenario = sc, !.otpNeeded = o]
        BY <1>1, <2>1, <3>1
      <4> QED BY <1>1, <4>1 DEF Row
    <3>2. CASE q # pin
      BY <1>1, <2>1, <3>2
    <3> QED BY <3>1, <3>2
  <2> QED BY <2>2 DEF Ledger!ledgerVars
<1>4. UNCHANGED Ledger!ledgerVars => [Ledger!Next]_(Ledger!ledgerVars)
  OBVIOUS
<1> QED BY <1>2, <1>3, <1>4

\* The locked two-phase handlers implement the ledger: one holder at a time, each
\* reservation settled at most once and never for more than is left, nothing after
\* the last unit.  Whatever the admins do with their old copies, it is a release of
\* the code or nothing the ledger shows; without admins there are no releases.
THEOREM HandlersImplementLedger == Spec => ImplementsLedger
<1>1. IInv /\ [Next]_vars => [Ledger!Next]_(Ledger!ledgerVars)
  <2> SUFFICES ASSUME IInv, [Next]_vars  PROVE [Ledger!Next]_(Ledger!ledgerVars)
    OBVIOUS
  <2>1. CASE code' = code
    BY <2>1 DEF Ledger!ledgerVars
  <2>2. CASE \E batch \in SUBSET Pins, n \in Amounts, c \in Currencies, t \in Ttls,
                sc \in Scenarios, o \in BOOLEAN : CreateCodes(batch, n, c, t, sc, o)
    BY <2>2, LedgerIssue DEF Ledger!Next
  <2>3. CASE \E s \in Sessions : Commit(s)
    BY <2>3, LedgerCommit
  <2> QED BY <2>1, <2>2, <2>3, LedgerAdmin, OnlyRowWrites
<1> QED BY <1>1, LedgerInit, Inductive, PTL DEF Spec, ImplementsLedger, Ledger!Spec

==============================================================================
