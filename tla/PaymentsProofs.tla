---------------------------- MODULE PaymentsProofs ----------------------------
(***************************************************************************)
(* Proofs about Payments for every set of requests, keys, workers and      *)
(* delays.  PayInv strengthens the checked invariants by what each request *)
(* and each pass holds: a row a worker has updated is still pending and is *)
(* its own until the commit, and it was due at a time that has passed.     *)
(***************************************************************************)
EXTENDS Payments, TLAPS

Timings == [pc : {"timing"}, delays : [Configurable -> Nat]]
HistoryRow == [status : {"accepted", "pending"} \cup FinalStatuses, at : Nat, delay : Nat]
Passes == [pc : {"pass"}, delays : [Configurable -> Nat], now : Nat, todo : SUBSET Attempts]
Updates == [pc : {"updated"}, delays : [Configurable -> Nat], now : Nat,
            todo : SUBSET Attempts, row : Attempts, at : Nat]

UniqueKeys ==
  \A a, b \in Attempts : Exists(a) /\ Exists(b) /\ payment[a].key = payment[b].key => a = b

RepliesStored ==
  \A a \in Attempts : attempt[a].pc = "replied" =>
    Exists(attempt[a].id) /\ payment[attempt[a].id].key = attempt[a].key

\* A request that has not committed yet has no row.
InsertsOnce == \A a \in Attempts : attempt[a].pc \in {"new", "inserting", "flushed"} => ~Exists(a)

\* A payment that is, or is still taken for, pending waits for its outcome.
Waits(a) == Exists(a) /\ payment[a].suffix \in Configurable

TodoWaits ==
  /\ \A a \in Attempts : payment[a].status = "pending" => Waits(a)
  /\ \A w \in Workers : Pass(w) => \A a \in worker[w].todo : Waits(a)

UpdatesHeld ==
  /\ \A w \in Workers : worker[w].pc \notin {"sleeping", "stopped", "timing"} => worker[w].now <= clock
  /\ \A w \in Workers : worker[w].pc = "updated" =>
       /\ payment[worker[w].row].status = "pending" /\ Due(worker[w].row, worker[w])
       /\ worker[w].at >= worker[w].now
  /\ \A v, w \in Workers :
       worker[v].pc = "updated" /\ worker[w].pc = "updated" /\ worker[v].row = worker[w].row => v = w

PayInv ==
  /\ TypeOK
  /\ UniqueKeys
  /\ RepliesStored
  /\ InsertsOnce
  /\ TodoWaits
  /\ UpdatesHeld
  /\ OneTransition
  /\ NeverEarly

-----------------------------------------------------------------------------
\* What the table of scenarios says.
LEMMA Table ==
  /\ \A x \in AllSuffixes : SCENARIOS[x].initial \in {"pending"} \cup FinalStatuses
  /\ Configurable \subseteq AllSuffixes
  /\ \A x \in Configurable : SCENARIOS[x].final \in FinalStatuses
  /\ \A x \in AllSuffixes : x \in Configurable <=> SCENARIOS[x].initial = "pending"
<1>1. AllSuffixes = {"0001", "0002", "0003", "0004", "0005", "9999"}
  BY DEF AllSuffixes, SCENARIOS
<1>2. /\ SCENARIOS["0001"] = Scenario("success", "none", 0)
      /\ SCENARIOS["0002"] = Scenario("failed",  "none", 0)
      /\ SCENARIOS["0003"] = Scenario("pending", "success", 10)
      /\ SCENARIOS["0004"] = Scenario("pending", "failed", 10)
      /\ SCENARIOS["0005"] = Scenario("pending", "unknown", 15)
      /\ SCENARIOS["9999"] = Scenario("success", "none", 0)
  BY DEF SCENARIOS
<1>3. \A x \in AllSuffixes : SCENARIOS[x].initial \in {"pending"} \cup FinalStatuses
  BY <1>1, <1>2 DEF Scenario, FinalStatuses
<1>4. \A x \in AllSuffixes : SCENARIOS[x].initial = "pending" => SCENARIOS[x].final \in FinalStatuses
  BY <1>1, <1>2 DEF Scenario, FinalStatuses
<1> QED BY <1>3, <1>4 DEF Configurable

\* What a pass holds.
LEMMA PassHolds ==
  ASSUME PayInv, NEW w \in Workers
  PROVE  /\ worker[w].pc = "reading" => worker[w].delays \in [Configurable -> Nat] /\ worker[w].now \in Nat
         /\ worker[w].pc = "pass" => worker[w] \in Passes
         /\ worker[w].pc = "updated" => worker[w] \in Updates
         /\ worker[w].pc = "timing" => worker[w].delays \in [Configurable -> Nat]
         /\ worker[w].pc \notin {"sleeping", "stopped", "timing"} =>
              worker[w].now <= clock /\ worker[w].now \in Nat
         /\ Pass(w) => worker[w].todo \subseteq Attempts
         /\ worker[w].pc = "updated" => worker[w].row \in Attempts /\ Exists(worker[w].row)
         /\ clock \in Nat /\ delays \in [Configurable -> Nat] /\ edits \in Nat /\ failures \in Nat
         /\ stopping \subseteq Workers
  BY DEF PayInv, TypeOK, UpdatesHeld, Passes, Updates, Sleeping, Pass, Exists, Stopped

\* What a request holds.
LEMMA AttemptHolds ==
  ASSUME PayInv, NEW a \in Attempts
  PROVE  /\ attempt[a].pc = "replied" => attempt[a].id \in Attempts /\ attempt[a].key \in Keys
         /\ attempt[a].pc = "inserting" => attempt[a].key \in Keys /\ attempt[a].suffix \in Suffixes
         /\ attempt[a].pc = "flushed" =>
              /\ attempt[a].key \in Keys /\ attempt[a].suffix \in Suffixes /\ attempt[a].at \in Nat
              /\ attempt[a] = Flushed(attempt[a].key, attempt[a].suffix, attempt[a].at)
<1>1. attempt[a] \in {New, Lost} \cup [pc : {"inserting"}, key : Keys, suffix : Suffixes]
                     \cup [pc : {"flushed"}, key : Keys, suffix : Suffixes, at : Nat]
                     \cup [pc : {"replied"}, key : Keys, id : Attempts]
  BY DEF PayInv, TypeOK
<1>2. New.pc = "new" /\ Lost.pc = "lost"
  BY DEF New, Lost
<1> QED BY <1>1, <1>2 DEF Flushed

LEMMA PayInit == Init => PayInv
  BY PaymentsAssumption
     DEF Init, PayInv, TypeOK, UniqueKeys, RepliesStored, InsertsOnce, TodoWaits, UpdatesHeld, OneTransition,
         NeverEarly, Exists, NoPayment, New, Sleeping, Pass, Waits

\* Steps of one request that store nothing.
LEMMA AttemptOnly ==
  ASSUME PayInv, NEW a \in Attempts, NEW v \in {Lost}
           \cup [pc : {"inserting"}, key : Keys, suffix : Suffixes]
           \cup [pc : {"flushed"}, key : Keys, suffix : Suffixes, at : Nat]
           \cup [pc : {"replied"}, key : Keys, id : Attempts],
         v.pc \in {"inserting", "flushed"} => attempt[a].pc \in {"new", "inserting"},
         v.pc = "replied" => Exists(v.id) /\ payment[v.id].key = v.key,
         attempt' = [attempt EXCEPT ![a] = v],
         UNCHANGED <<payment, history, delays, worker, stopping, clock, edits, failures>>
  PROVE  PayInv'
<1>1. TypeOK'
  BY DEF PayInv, TypeOK
<1>2. RepliesStored'
  BY DEF PayInv, TypeOK, RepliesStored, Exists, Lost
<1>3. InsertsOnce'
  BY DEF PayInv, TypeOK, InsertsOnce, Exists, Lost
<1>4. UniqueKeys' /\ TodoWaits' /\ UpdatesHeld' /\ OneTransition' /\ NeverEarly'
  BY DEF PayInv, UniqueKeys, TodoWaits, UpdatesHeld, OneTransition, NeverEarly, Exists, Waits,
         Pass, Due
<1> QED BY <1>1, <1>2, <1>3, <1>4 DEF PayInv

\* Steps of one worker that store nothing.
LEMMA WorkerOnly ==
  ASSUME PayInv, NEW w \in Workers, NEW v \in {Sleeping, Stopped} \cup Timings
           \cup [pc : {"reading"}, delays : [Configurable -> Nat], now : Nat] \cup Passes \cup Updates,
         v.pc \notin {"sleeping", "stopped", "timing"} => v.now <= clock,
         v.pc \in {"pass", "updated"} => \A a \in v.todo : Waits(a),
         v.pc = "updated" => /\ payment[v.row].status = "pending" /\ Due(v.row, v)
                             /\ ~RowLocked(v.row) /\ v.at >= v.now,
         worker' = [worker EXCEPT ![w] = v],
         UNCHANGED <<payment, history, delays, attempt, clock>>,
         stopping' \subseteq Workers, edits' \in Nat, failures' \in Nat
  PROVE  PayInv'
<1>1. worker' \in [Workers -> {Sleeping, Stopped} \cup Timings
           \cup [pc : {"reading"}, delays : [Configurable -> Nat], now : Nat] \cup Passes \cup Updates]
  BY DEF PayInv, TypeOK, Passes, Updates, Timings
<1>2. TypeOK'
  BY <1>1 DEF PayInv, TypeOK, Passes, Updates, Timings
<1>3. worker'[w] = v /\ \A u \in Workers : u # w => worker'[u] = worker[u]
  BY DEF PayInv, TypeOK
<1>4. TodoWaits'
  BY <1>3 DEF PayInv, TodoWaits, Exists, Waits, Pass
<1>5. UpdatesHeld'
  BY <1>3 DEF PayInv, UpdatesHeld, Due, RowLocked
<1>6. UniqueKeys' /\ RepliesStored' /\ InsertsOnce' /\ OneTransition' /\ NeverEarly'
  BY DEF PayInv, UniqueKeys, RepliesStored, InsertsOnce, OneTransition, NeverEarly, Exists
<1> QED BY <1>2, <1>4, <1>5, <1>6 DEF PayInv

LEMMA ByKey ==
  ASSUME NEW k, KeyTaken(k)
  PROVE  PaymentOf(k) \in Attempts /\ Exists(PaymentOf(k)) /\ payment[PaymentOf(k)].key = k
  BY DEF KeyTaken, PaymentOf

LEMMA LookupInv ==
  ASSUME PayInv, NEW a \in Attempts, NEW k \in Keys, NEW x \in Suffixes, Lookup(a, k, x)
  PROVE  PayInv'
<1>1. CASE KeyTaken(k)
  BY <1>1, ByKey, AttemptOnly DEF Lookup, Replied
<1>2. CASE ~KeyTaken(k)
  BY <1>2, AttemptOnly DEF Lookup, Inserting
<1> QED BY <1>1, <1>2

LEMMA FlushInv ==
  ASSUME PayInv, NEW a \in Attempts, Flush(a)
  PROVE  PayInv'
<1> DEFINE v == Flushed(attempt[a].key, attempt[a].suffix, clock)
<1>1. attempt[a].pc = "inserting" /\ clock \in Nat
  BY DEF Flush, PayInv, TypeOK
<1>2. v \in [pc : {"flushed"}, key : Keys, suffix : Suffixes, at : Nat] /\ v.pc = "flushed"
  BY <1>1, AttemptHolds DEF Flushed
<1>3. /\ attempt' = [attempt EXCEPT ![a] = v]
      /\ UNCHANGED <<payment, history, delays, worker, stopping, clock, edits, failures>>
  BY DEF Flush
<1> HIDE DEF v
<1> QED BY <1>1, <1>2, <1>3, AttemptOnly

LEMMA InsertConflictInv ==
  ASSUME PayInv, NEW a \in Attempts, InsertConflict(a)
  PROVE  PayInv'
<1>1. attempt[a].pc = "flushed" /\ attempt[a].key \in Keys
  BY AttemptHolds DEF InsertConflict
<1> QED BY <1>1, ByKey, AttemptOnly DEF InsertConflict, Replied

LEMMA InsertInv ==
  ASSUME PayInv, NEW a \in Attempts, Insert(a)
  PROVE  PayInv'
<1> PICK k \in Keys, x \in Suffixes, at \in Nat : attempt[a] = Flushed(k, x, at)
  BY AttemptHolds DEF Insert
<1>0. attempt[a].key = k /\ attempt[a].suffix = x /\ attempt[a].at = at /\ attempt[a].pc = "flushed"
  BY DEF Flushed
<1> DEFINE sc == SCENARIOS[x]
           row == [status |-> sc.initial, key |-> k, suffix |-> x,
                   createdAt |-> at, storedAt |-> clock]
           h == <<Step("accepted", at, 0), Step(sc.initial, at, 0)>>
<1>1. /\ payment' = [payment EXCEPT ![a] = row] /\ history' = [history EXCEPT ![a] = h]
      /\ ~KeyTaken(k) /\ UNCHANGED <<delays, worker, stopping, clock, edits, failures>>
      /\ \E v \in {Replied(k, a), Lost} : attempt' = [attempt EXCEPT ![a] = v]
  BY <1>0 DEF Insert
<1>2. x \in AllSuffixes /\ clock \in Nat /\ sc.initial \in {"pending"} \cup FinalStatuses
  BY PaymentsAssumption, Table DEF PayInv, TypeOK
<1>3. row \in Row /\ row.status # "none"
  BY <1>2 DEF Row, FinalStatuses
<1>4. h \in Seq(HistoryRow) /\ Len(h) = 2 /\ h[1].status = "accepted" /\ h[2].status = sc.initial
  BY <1>2 DEF HistoryRow, Step
<1>5. payment'[a] = row /\ \A b \in Attempts : b # a => payment'[b] = payment[b]
  BY <1>1 DEF PayInv, TypeOK
<1>6. history'[a] = h /\ \A b \in Attempts : b # a => history'[b] = history[b]
  BY <1>1 DEF PayInv, TypeOK
<1>7. PICK v \in {Replied(k, a), Lost} : attempt' = [attempt EXCEPT ![a] = v]
  BY <1>1
<1>8. attempt'[a] = v /\ \A b \in Attempts : b # a => attempt'[b] = attempt[b]
  BY <1>7 DEF PayInv, TypeOK
<1>9. ~Exists(a) /\ Exists(a)' /\ \A b \in Attempts : b # a => (Exists(b)' <=> Exists(b))
  BY <1>0, <1>3, <1>5 DEF PayInv, InsertsOnce, Exists
<1> HIDE DEF row, h, sc
<1>10. TypeOK'
  <2>1. payment' \in [Attempts -> {NoPayment} \cup Row]
    BY <1>1, <1>3 DEF PayInv, TypeOK
  <2>2. history' \in [Attempts -> Seq(HistoryRow)]
    BY <1>1, <1>4 DEF PayInv, TypeOK, HistoryRow
  <2>3. attempt' \in [Attempts -> {New, Lost}
                        \cup [pc : {"inserting"}, key : Keys, suffix : Suffixes]
                        \cup [pc : {"flushed"}, key : Keys, suffix : Suffixes, at : Nat]
                        \cup [pc : {"replied"}, key : Keys, id : Attempts]]
    BY <1>7 DEF PayInv, TypeOK, Replied
  <2> QED BY <1>1, <2>1, <2>2, <2>3 DEF PayInv, TypeOK, HistoryRow
<1>11. UniqueKeys'
  BY <1>1, <1>5, <1>9 DEF PayInv, UniqueKeys, KeyTaken, row
<1>12. RepliesStored'
  BY <1>5, <1>8, <1>9, AttemptHolds DEF PayInv, RepliesStored, Replied, Lost, row
<1>13. InsertsOnce'
  BY <1>8, <1>9 DEF PayInv, InsertsOnce, Replied, Lost
<1>14. TodoWaits'
  <2>1. payment'[a].status = "pending" => Waits(a)'
    BY <1>2, <1>5, <1>9, Table DEF Waits, row, sc
  <2>2. \A b \in Attempts : Waits(b) => Waits(b)'
    BY <1>5, <1>9 DEF Waits
  <2> QED BY <1>1, <1>5, <2>1, <2>2, PassHolds DEF PayInv, TodoWaits, Pass
<1>15. UpdatesHeld'
  <2>1. \A w \in Workers : worker[w].pc = "updated" => worker[w].row \in Attempts /\ worker[w].row # a
    BY <1>9, PassHolds
  <2> QED BY <1>1, <1>5, <2>1 DEF PayInv, UpdatesHeld, Due
<1>16. OneTransition'
  <2>1. HistoryOf(row) = <<"accepted", sc.initial>>
    BY <1>2, Table DEF HistoryOf, row, sc
  <2>2. row.status = sc.initial
    BY DEF row
  <2>3. /\ Len(h) = Len(HistoryOf(row))
        /\ \A i \in 1 .. Len(h) : h[i].status = HistoryOf(row)[i]
        /\ h[Len(h)].status = row.status
    BY <1>4, <2>1, <2>2
  <2> QED BY <1>5, <1>6, <1>9, <2>3 DEF PayInv, OneTransition
<1>17. NeverEarly'
  BY <1>4, <1>5, <1>6, <1>9 DEF PayInv, NeverEarly
<1> QED BY <1>10, <1>11, <1>12, <1>13, <1>14, <1>15, <1>16, <1>17 DEF PayInv

LEMMA TickInv == ASSUME PayInv, Tick  PROVE PayInv'
<1>1. clock' \in Nat /\ clock \in Nat /\ clock' >= clock
  BY DEF Tick, PayInv, TypeOK
<1>2. UpdatesHeld'
  <2> QED BY <1>1, PassHolds DEF Tick, PayInv, UpdatesHeld, Due
<1>3. TypeOK'
  BY <1>1 DEF Tick, PayInv, TypeOK
<1>4. UniqueKeys' /\ RepliesStored' /\ InsertsOnce' /\ TodoWaits'
  BY DEF Tick, PayInv, UniqueKeys, RepliesStored, InsertsOnce, TodoWaits, Exists, Waits, Pass
<1>5. OneTransition' /\ NeverEarly'
  BY DEF Tick, PayInv, OneTransition, NeverEarly, Exists
<1> QED BY <1>2, <1>3, <1>4, <1>5 DEF PayInv

LEMMA SettingsInv ==
  ASSUME PayInv, NEW fields \in SUBSET (Configurable \cap Suffixes),
         NEW form \in [fields -> Delays], SaveSettings(form)
  PROVE  PayInv'
<1>0. \A x \in Configurable : x \in fields => form[x] \in Nat
  BY PaymentsAssumption
<1>1. delays' \in [Configurable -> Nat] /\ edits' \in Nat
  <2>1. delays' = [x \in Configurable |-> IF x \in fields THEN form[x] ELSE delays[x]]
    BY DEF SaveSettings
  <2> QED BY <1>0, <2>1 DEF SaveSettings, PayInv, TypeOK
<1>2. TypeOK'
  BY <1>1 DEF SaveSettings, PayInv, TypeOK
<1>3. UniqueKeys' /\ RepliesStored' /\ InsertsOnce' /\ TodoWaits' /\ UpdatesHeld'
  BY DEF SaveSettings, PayInv, UniqueKeys, RepliesStored, InsertsOnce, TodoWaits, UpdatesHeld,
         Exists, Waits, Pass, Due
<1>4. OneTransition' /\ NeverEarly'
  BY DEF SaveSettings, PayInv, OneTransition, NeverEarly, Exists
<1> QED BY <1>2, <1>3, <1>4 DEF PayInv

LEMMA WorkerReads ==
  ASSUME PayInv, NEW w \in Workers,
         \/ ReadDelays(w) \/ TakeTime(w) \/ ReadPending(w) \/ EndPass(w)
         \/ LoopEnds(w) \/ PassFails(w) \/ Crash(w) \/ StartLoop(w)
  PROVE  PayInv'
<1>1. CASE ReadDelays(w)
  <2> DEFINE v == [pc |-> "timing", delays |-> delays]
  <2>1. v \in Timings /\ v.pc = "timing"
    BY PassHolds DEF Timings
  <2>2. worker' = [worker EXCEPT ![w] = v] /\ UNCHANGED <<payment, history, delays, attempt, clock>>
        /\ stopping' \subseteq Workers /\ edits' \in Nat /\ failures' \in Nat
    BY <1>1, PassHolds DEF ReadDelays
  <2> HIDE DEF v
  <2> QED BY <2>1, <2>2, WorkerOnly
<1>4. CASE TakeTime(w)
  <2> DEFINE v == [pc |-> "reading", delays |-> worker[w].delays, now |-> clock]
  <2>1. /\ v \in [pc : {"reading"}, delays : [Configurable -> Nat], now : Nat]
        /\ v.pc = "reading" /\ v.now <= clock
    BY <1>4, PassHolds DEF TakeTime
  <2>2. worker' = [worker EXCEPT ![w] = v] /\ UNCHANGED <<payment, history, delays, attempt, clock>>
        /\ stopping' \subseteq Workers /\ edits' \in Nat /\ failures' \in Nat
    BY <1>4, PassHolds DEF TakeTime
  <2> HIDE DEF v
  <2> QED BY <2>1, <2>2, WorkerOnly
<1>2. CASE ReadPending(w)
  <2> DEFINE todo == {a \in Attempts : payment[a].status = "pending"}
             v == [pc |-> "pass", delays |-> worker[w].delays, now |-> worker[w].now, todo |-> todo]
  <2>1. v \in Passes /\ v.pc = "pass" /\ v.todo = todo /\ v.now = worker[w].now
    BY <1>2, PassHolds DEF ReadPending, Passes
  <2>2. \A a \in todo : Waits(a)
    BY DEF PayInv, TodoWaits
  <2>3. worker' = [worker EXCEPT ![w] = v] /\ UNCHANGED <<payment, history, delays, attempt, clock>>
        /\ stopping' \subseteq Workers /\ edits' \in Nat /\ failures' \in Nat /\ v.now <= clock
    BY <1>2, <2>1, PassHolds DEF ReadPending
  <2> HIDE DEF v, todo
  <2> QED BY <2>1, <2>2, <2>3, WorkerOnly
<1>3. CASE EndPass(w) \/ PassFails(w) \/ LoopEnds(w) \/ Crash(w) \/ StartLoop(w)
  <2>1. PICK v \in {Sleeping, Stopped} :
        /\ worker' = [worker EXCEPT ![w] = v] /\ UNCHANGED <<payment, history, delays, attempt, clock>>
        /\ stopping' \subseteq Workers /\ edits' \in Nat /\ failures' \in Nat
    BY <1>3, PassHolds DEF EndPass, PassFails, LoopEnds, Crash, StartLoop
  <2>2. v.pc \in {"sleeping", "stopped"}
    BY DEF Sleeping, Stopped
  <2> QED BY <2>1, <2>2, WorkerOnly
<1> QED BY <1>1, <1>2, <1>3, <1>4

LEMMA ShutdownInv == ASSUME PayInv, NEW w \in Workers, Shutdown(w)  PROVE PayInv'
<1>1. TypeOK'
  <2>1. /\ stopping' \subseteq Workers /\ failures' \in Nat
        /\ UNCHANGED <<payment, history, delays, attempt, worker, clock, edits>>
    BY DEF Shutdown, PayInv, TypeOK
  <2>2. TypeOK
    BY DEF PayInv
  <2> QED BY <2>1, <2>2 DEF TypeOK
<1>2. UniqueKeys' /\ RepliesStored' /\ InsertsOnce' /\ TodoWaits' /\ UpdatesHeld'
  BY DEF Shutdown, PayInv, UniqueKeys, RepliesStored, InsertsOnce, TodoWaits, UpdatesHeld,
         Exists, Waits, Pass, Due
<1>3. OneTransition' /\ NeverEarly'
  BY DEF Shutdown, PayInv, OneTransition, NeverEarly, Exists
<1> QED BY <1>1, <1>2, <1>3 DEF PayInv

LEMMA WorkerDecides ==
  ASSUME PayInv, NEW w \in Workers, NEW a \in Attempts,
         NotDue(w, a) \/ Update(w, a) \/ UpdateMisses(w, a)
  PROVE  PayInv'
<1> DEFINE r == worker[w]
<1>1. /\ r \in Passes /\ r.pc = "pass" /\ a \in r.todo /\ r.now <= clock
      /\ UNCHANGED <<payment, history, delays, attempt, clock>>
      /\ stopping' \subseteq Workers /\ edits' \in Nat /\ failures' \in Nat
  BY PassHolds DEF NotDue, Update, UpdateMisses
<1>2. \A b \in r.todo : Waits(b)
  BY <1>1 DEF PayInv, TodoWaits, Pass
<1>3. CASE NotDue(w, a) \/ UpdateMisses(w, a)
  <2> DEFINE v == [r EXCEPT !.todo = @ \ {a}]
  <2>1. v \in Passes /\ v.pc = "pass" /\ v.now <= clock /\ \A b \in v.todo : Waits(b)
    BY <1>1, <1>2 DEF Passes
  <2>2. worker' = [worker EXCEPT ![w] = v]
    BY <1>3 DEF NotDue, UpdateMisses
  <2> HIDE DEF v
  <2> QED BY <1>1, <2>1, <2>2, WorkerOnly
<1>4. CASE Update(w, a)
  <2> DEFINE v == [pc |-> "updated", delays |-> r.delays, now |-> r.now,
                   todo |-> r.todo \ {a}, row |-> a, at |-> clock]
  <2>1. /\ v \in Updates /\ v.pc = "updated" /\ v.now <= clock /\ v.row = a
        /\ v.at >= v.now /\ \A b \in v.todo : Waits(b)
    BY <1>1, <1>2, PassHolds DEF Passes, Updates
  <2>2. worker' = [worker EXCEPT ![w] = v]
    BY <1>4 DEF Update
  <2>3. payment[a].status = "pending" /\ Due(a, v) /\ ~RowLocked(a)
    BY <1>4 DEF Update, StillPending, Due
  <2> HIDE DEF v
  <2> QED BY <1>1, <2>1, <2>2, <2>3, WorkerOnly
<1> QED BY <1>3, <1>4

LEMMA CommitTransitionInv ==
  ASSUME PayInv, NEW w \in Workers, CommitTransition(w)
  PROVE  PayInv'
<1> PICK r \in Updates : r = worker[w]
  BY PassHolds DEF CommitTransition
<1> DEFINE a == r.row
           x == payment[a].suffix
           final == SCENARIOS[x].final
           e == Step(final, r.at, r.delays[x])
           v == [pc |-> "pass", delays |-> r.delays, now |-> r.now, todo |-> r.todo]
<1>1. /\ r.pc = "updated" /\ a \in Attempts /\ r.now <= clock /\ r.now \in Nat /\ r.at \in Nat
      /\ r.delays \in [Configurable -> Nat] /\ r.todo \subseteq Attempts
  BY PassHolds DEF CommitTransition, Updates
<1>2. /\ payment' = [payment EXCEPT ![a].status = final]
      /\ history' = [history EXCEPT ![a] = Append(@, e)]
      /\ worker' = [worker EXCEPT ![w] = v]
      /\ UNCHANGED <<delays, attempt, stopping, clock, edits, failures>>
  BY DEF CommitTransition
<1>3. /\ payment[a].status = "pending" /\ r.now >= payment[a].createdAt + r.delays[x]
      /\ r.at >= r.now
      /\ \A u \in Workers : worker[u].pc = "updated" /\ worker[u].row = a => u = w
  BY <1>1 DEF PayInv, UpdatesHeld, Due
<1>4. /\ payment[a] \in Row /\ payment[a].createdAt \in Nat /\ x \in Configurable
      /\ final \in FinalStatuses /\ r.delays[x] \in Nat /\ clock \in Nat /\ x \in Suffixes
  <2>1. payment[a] \in Row
    BY <1>1, <1>3 DEF PayInv, TypeOK, NoPayment
  <2>2. x \in Configurable
    BY <1>1, <1>3 DEF PayInv, TodoWaits, Waits
  <2> QED BY <1>1, <2>1, <2>2, Table, PassHolds DEF Row
<1>5. e \in HistoryRow /\ e.status = final /\ e.at >= payment[a].createdAt + e.delay
  BY <1>1, <1>3, <1>4 DEF Step, HistoryRow
<1>6. v \in Passes /\ v.pc = "pass" /\ v.now <= clock /\ v.todo = r.todo
  BY <1>1 DEF Passes
<1>7. /\ payment'[a] \in Row /\ payment'[a].status = final /\ payment'[a].key = payment[a].key
      /\ payment'[a].suffix = x /\ payment'[a].createdAt = payment[a].createdAt
      /\ \A b \in Attempts : b # a => payment'[b] = payment[b]
  BY <1>1, <1>2, <1>4 DEF PayInv, TypeOK, Row
<1>8. /\ history'[a] = Append(history[a], e) /\ history[a] \in Seq(HistoryRow)
      /\ \A b \in Attempts : b # a => history'[b] = history[b]
  BY <1>1, <1>2 DEF PayInv, TypeOK, HistoryRow
<1>9. worker'[w] = v /\ \A u \in Workers : u # w => worker'[u] = worker[u]
  BY <1>2 DEF PayInv, TypeOK
<1>10. Exists(a) /\ Exists(a)' /\ \A b \in Attempts : b # a => (Exists(b)' <=> Exists(b))
  BY <1>3, <1>4, <1>7 DEF Exists, FinalStatuses
<1> HIDE DEF a, x, final, e, v
<1>11. TypeOK'
  <2>1. payment' \in [Attempts -> {NoPayment} \cup Row]
    BY <1>1, <1>2, <1>7 DEF PayInv, TypeOK
  <2>2. history' \in [Attempts -> Seq(HistoryRow)]
    <3>1. Append(history[a], e) \in Seq(HistoryRow)
      BY <1>5, <1>8
    <3>2. history \in [Attempts -> Seq(HistoryRow)]
      BY DEF PayInv, TypeOK, HistoryRow
    <3> QED BY <1>1, <1>2, <3>1, <3>2
  <2>3. worker' \in [Workers -> {Sleeping, Stopped} \cup Timings
                  \cup [pc : {"reading"}, delays : [Configurable -> Nat], now : Nat]
                  \cup Passes \cup Updates]
    BY <1>2, <1>6 DEF PayInv, TypeOK, Passes, Updates, Timings
  <2> QED BY <1>2, <2>1, <2>2, <2>3 DEF PayInv, TypeOK, HistoryRow, Passes, Updates, Timings
<1>12. UniqueKeys'
  BY <1>1, <1>7, <1>10 DEF PayInv, UniqueKeys
<1>13. RepliesStored' /\ InsertsOnce'
  BY <1>1, <1>2, <1>7, <1>10, AttemptHolds DEF PayInv, RepliesStored, InsertsOnce
<1>14. TodoWaits'
  <2>1. \A b \in Attempts : Waits(b) => Waits(b)'
    BY <1>7, <1>10 DEF Waits, x
  <2>2. \A b \in r.todo : Waits(b)
    BY <1>1 DEF PayInv, TodoWaits, Pass
  <2>3. \A b \in Attempts : payment'[b].status = "pending" => Waits(b)'
    BY <1>4, <1>7, <2>1 DEF PayInv, TodoWaits, FinalStatuses
  <2> QED BY <1>1, <1>6, <1>9, <2>1, <2>2, <2>3, PassHolds DEF PayInv, TodoWaits, Pass
<1>15. UpdatesHeld'
  <2>1. \A u \in Workers : u # w /\ worker[u].pc = "updated" => worker[u].row # a
    BY <1>3
  <2> QED BY <1>2, <1>6, <1>7, <1>9, <2>1, PassHolds DEF PayInv, UpdatesHeld, Due
<1>16. OneTransition'
  <2>1. SCENARIOS[x].initial = "pending" /\ SCENARIOS[x].final = final
    BY <1>4, Table DEF final
  <2>2. HistoryOf(payment[a]) = <<"accepted", "pending">>
    BY <1>3, <2>1 DEF HistoryOf, x
  <2>3. HistoryOf(payment'[a]) = <<"accepted", "pending", final>>
    BY <1>4, <1>7, <2>1 DEF HistoryOf, FinalStatuses
  <2>4. /\ Len(history[a]) = 2 /\ history[a][1].status = "accepted"
        /\ history[a][2].status = "pending"
    BY <1>1, <1>10, <2>2 DEF PayInv, OneTransition
  <2>5. /\ Len(history'[a]) = 3 /\ history'[a][1] = history[a][1]
        /\ history'[a][2] = history[a][2] /\ history'[a][3] = e
    BY <1>5, <1>8, <2>4
  <2>6. /\ Len(history'[a]) = Len(HistoryOf(payment'[a]))
        /\ \A i \in 1 .. Len(history'[a]) : history'[a][i].status = HistoryOf(payment'[a])[i]
        /\ history'[a][Len(history'[a])].status = payment'[a].status
    BY <1>5, <1>7, <2>3, <2>4, <2>5
  <2>7. \A b \in Attempts : b # a =>
          /\ Exists(b)' <=> Exists(b)
          /\ payment'[b] = payment[b] /\ history'[b] = history[b]
    BY <1>7, <1>8, <1>10
  <2>8. ASSUME NEW b \in Attempts
        PROVE  IF Exists(b)'
               THEN /\ Len(history'[b]) = Len(HistoryOf(payment'[b]))
                    /\ \A i \in 1 .. Len(history'[b]) :
                         history'[b][i].status = HistoryOf(payment'[b])[i]
                    /\ history'[b][Len(history'[b])].status = payment'[b].status
               ELSE history'[b] = <<>>
    <3>1. CASE b = a
      BY <1>10, <2>6, <3>1
    <3>2. CASE b # a
      <4>1. IF Exists(b)
            THEN /\ Len(history[b]) = Len(HistoryOf(payment[b]))
                 /\ \A i \in 1 .. Len(history[b]) :
                      history[b][i].status = HistoryOf(payment[b])[i]
                 /\ history[b][Len(history[b])].status = payment[b].status
            ELSE history[b] = <<>>
        BY DEF PayInv, OneTransition
      <4> QED BY <2>7, <3>2, <4>1
    <3> QED BY <3>1, <3>2
  <2> QED BY <2>8 DEF OneTransition
<1>17. NeverEarly'
  <2>1. ASSUME NEW i \in 3 .. Len(history'[a])
        PROVE  history'[a][i].at >= payment'[a].createdAt + history'[a][i].delay
    <3>1. Len(history[a]) \in Nat /\ Len(history'[a]) = Len(history[a]) + 1
      BY <1>5, <1>8
    <3>2. CASE i = Len(history[a]) + 1
      BY <1>5, <1>7, <1>8, <3>2
    <3>3. CASE i # Len(history[a]) + 1
      <4>1. i \in 3 .. Len(history[a]) /\ history'[a][i] = history[a][i]
        BY <1>5, <1>8, <2>1, <3>1, <3>3
      <4> QED BY <1>1, <1>7, <1>10, <4>1 DEF PayInv, NeverEarly
    <3> QED BY <3>2, <3>3
  <2> QED BY <1>7, <1>8, <1>10, <2>1 DEF PayInv, NeverEarly
<1> QED BY <1>11, <1>12, <1>13, <1>14, <1>15, <1>16, <1>17 DEF PayInv

-----------------------------------------------------------------------------
LEMMA PayNext == PayInv /\ [Next]_vars => PayInv'
<1> SUFFICES ASSUME PayInv, [Next]_vars  PROVE PayInv'
  OBVIOUS
<1>1. CASE Tick
  BY <1>1, TickInv
<1>2. ASSUME NEW fields \in SUBSET (Configurable \cap Suffixes),
             NEW form \in [fields -> Delays], SaveSettings(form)
      PROVE  PayInv'
  BY <1>2, SettingsInv
<1>3. ASSUME NEW a \in Attempts, AttemptStep(a)  PROVE PayInv'
  <2>1. CASE LoseAttempt(a)
    <3>1. Lost.pc = "lost"
      BY DEF Lost
    <3> QED BY <2>1, <3>1, AttemptOnly DEF LoseAttempt
  <2> QED BY <1>3, <2>1, LookupInv, FlushInv, InsertInv, InsertConflictInv DEF AttemptStep
<1>4. ASSUME NEW w \in Workers, WorkerStep(w) \/ ProcessStep(w)  PROVE PayInv'
  BY <1>4, WorkerReads, WorkerDecides, CommitTransitionInv, ShutdownInv
     DEF WorkerStep, ProcessStep
<1>5. CASE UNCHANGED vars
  <2>1. TypeOK'
    BY <1>5 DEF vars, PayInv, TypeOK
  <2>2. UniqueKeys' /\ RepliesStored' /\ InsertsOnce' /\ TodoWaits' /\ UpdatesHeld'
    BY <1>5 DEF vars, PayInv, UniqueKeys, RepliesStored, InsertsOnce, TodoWaits, UpdatesHeld,
                Exists, Waits, Pass, Due
  <2>3. OneTransition' /\ NeverEarly'
    BY <1>5 DEF vars, PayInv, OneTransition, NeverEarly, Exists
  <2> QED BY <2>1, <2>2, <2>3 DEF PayInv
<1> QED BY <1>1, <1>2, <1>3, <1>4, <1>5 DEF Next

THEOREM PaymentsInductive == Spec => []PayInv
  BY PayInit, PayNext, PTL DEF Spec

\* Type correctness, for every set of requests, keys and workers.
THEOREM PaymentsTypeCorrect == Spec => []TypeOK
<1>1. PayInv => TypeOK
  BY DEF PayInv
<1> QED BY <1>1, PaymentsInductive, PTL

\* All answers to one idempotency key name one stored payment.
THEOREM IdempotentReplies == Spec => []SameKeySamePayment
<1>1. PayInv => SameKeySamePayment
  BY AttemptHolds DEF PayInv, UniqueKeys, RepliesStored, SameKeySamePayment
<1> QED BY <1>1, PaymentsInductive, PTL

\* Any number of loops moves a payment exactly once, and writes its history once.
THEOREM ExactlyOneTransition == Spec => []OneTransition
<1>1. PayInv => OneTransition
  BY DEF PayInv
<1> QED BY <1>1, PaymentsInductive, PTL

\* No payment settles before the delay quoted in its history has passed.
THEOREM SettlesInTime == Spec => []NeverEarly
<1>1. PayInv => NeverEarly
  BY DEF PayInv
<1> QED BY <1>1, PaymentsInductive, PTL

-----------------------------------------------------------------------------
(* The refinement: what a client sees behind a key. *)

\* Under the unique index the row behind a key is the only candidate.
LEMMA OnlyRow ==
  ASSUME NEW pay, NEW k, NEW b \in Attempts, pay[b].status # "none", pay[b].key = k,
         \A c, d \in Attempts : /\ pay[c].status # "none"
                                /\ pay[d].status # "none"
                                /\ pay[c].key = pay[d].key
                                => c = d
  PROVE  (CHOOSE c \in Attempts : pay[c].status # "none" /\ pay[c].key = k) = b
  OBVIOUS

LEMMA ViewOf ==
  ASSUME UniqueKeys, NEW b \in Attempts, NEW k \in Keys, Exists(b), payment[b].key = k
  PROVE  KeyStatus[k] = payment[b].status /\ KeySuffix[k] = payment[b].suffix
<1>1. KeyTaken(k)
  BY DEF KeyTaken
<1>2. PaymentOf(k) = b
  BY OnlyRow DEF PaymentOf, Exists, UniqueKeys
<1> QED BY <1>1, <1>2 DEF KeyStatus, KeySuffix

LEMMA ViewOfNext ==
  ASSUME UniqueKeys', NEW b \in Attempts, NEW k \in Keys, Exists(b)', payment'[b].key = k
  PROVE  KeyStatus'[k] = payment'[b].status /\ KeySuffix'[k] = payment'[b].suffix
<1>1. KeyTaken(k)'
  BY DEF KeyTaken
<1>2. PaymentOf(k)' = b
  BY OnlyRow DEF PaymentOf, Exists, UniqueKeys
<1> QED BY <1>1, <1>2 DEF KeyStatus, KeySuffix

\* A key whose rows a step leaves alone looks the same after it.
LEMMA SameView ==
  ASSUME UniqueKeys, UniqueKeys', NEW k \in Keys,
         \A b \in Attempts : \/ payment'[b] = payment[b]
                             \/ /\ Exists(b) => payment[b].key # k
                                /\ Exists(b)' => payment'[b].key # k
  PROVE  KeyStatus'[k] = KeyStatus[k] /\ KeySuffix'[k] = KeySuffix[k]
<1>1. CASE KeyTaken(k)
  <2>1. PICK b \in Attempts : Exists(b) /\ payment[b].key = k
    BY <1>1 DEF KeyTaken
  <2>2. payment'[b] = payment[b]
    BY <2>1
  <2>3. Exists(b)' /\ payment'[b].key = k
    BY <2>1, <2>2 DEF Exists
  <2> QED BY <2>1, <2>2, <2>3, ViewOf, ViewOfNext
<1>2. CASE ~KeyTaken(k)
  <2>1. ~KeyTaken(k)'
    BY <1>2 DEF KeyTaken, Exists
  <2> QED BY <1>2, <2>1 DEF KeyStatus, KeySuffix
<1> QED BY <1>1, <1>2

\* Both modules read one table.
LEMMA SameTable == Lifecycle!SCENARIOS = SCENARIOS
  BY DEF Lifecycle!SCENARIOS, SCENARIOS, Lifecycle!Scenario, Scenario

LEMMA InsertAccepts ==
  ASSUME PayInv, PayInv', NEW a \in Attempts, Insert(a)
  PROVE  \E k \in Keys, x \in Suffixes : Lifecycle!Accept(k, x)
<1> PICK k \in Keys, x \in Suffixes, at \in Nat : attempt[a] = Flushed(k, x, at)
  BY AttemptHolds DEF Insert
<1> DEFINE row == [status |-> SCENARIOS[x].initial, key |-> k, suffix |-> x,
                   createdAt |-> at, storedAt |-> clock]
<1>1. attempt[a].key = k /\ attempt[a].suffix = x /\ attempt[a].at = at
  BY DEF Flushed
<1>2. ~KeyTaken(k) /\ payment'[a] = row /\ \A b \in Attempts : b # a => payment'[b] = payment[b]
  BY <1>1 DEF Insert, PayInv, TypeOK
<1>3. ~Exists(a) /\ SCENARIOS[x].initial # "none"
  BY PaymentsAssumption, Table DEF Insert, PayInv, InsertsOnce, FinalStatuses
<1>4. KeyStatus[k] = "none"
  BY <1>2 DEF KeyStatus
<1>5. KeyStatus'[k] = SCENARIOS[x].initial /\ KeySuffix'[k] = x
  BY <1>2, <1>3, ViewOfNext DEF PayInv, Exists
<1>6. \A j \in Keys : j # k => KeyStatus'[j] = KeyStatus[j] /\ KeySuffix'[j] = KeySuffix[j]
  BY <1>2, <1>3, SameView DEF PayInv
<1>7. KeyStatus' = [KeyStatus EXCEPT ![k] = SCENARIOS[x].initial]
  BY <1>5, <1>6 DEF KeyStatus
<1>8. KeySuffix' = [KeySuffix EXCEPT ![k] = x]
  BY <1>5, <1>6 DEF KeySuffix
<1> QED BY <1>4, <1>7, <1>8, SameTable DEF Lifecycle!Accept

LEMMA CommitSettles ==
  ASSUME PayInv, PayInv', NEW w \in Workers, CommitTransition(w)
  PROVE  \E k \in Keys : Lifecycle!Settle(k)
<1> PICK r \in Updates : r = worker[w]
  BY PassHolds DEF CommitTransition
<1> DEFINE a == r.row
           final == SCENARIOS[payment[a].suffix].final
<1>1. a \in Attempts /\ payment[a].status = "pending" /\ payment[a] \in Row
  <2>1. a \in Attempts /\ payment[a].status = "pending"
    BY DEF CommitTransition, Updates, PayInv, UpdatesHeld
  <2> QED BY <2>1 DEF PayInv, TypeOK, NoPayment
<1>2. /\ payment'[a] = [payment[a] EXCEPT !.status = final]
      /\ \A b \in Attempts : b # a => payment'[b] = payment[b]
  BY <1>1 DEF CommitTransition, PayInv, TypeOK
<1>3. PICK k \in Keys : k = payment[a].key
  BY <1>1 DEF Row
<1>4. Exists(a) /\ payment'[a].key = k /\ payment'[a].suffix = payment[a].suffix
      /\ payment'[a].status = final
  BY <1>1, <1>2, <1>3 DEF Exists, Row
<1>5. Exists(a)'
  <2>1. payment[a].suffix \in Configurable
    BY <1>1 DEF PayInv, TodoWaits, Waits
  <2> QED BY <1>4, <2>1, Table DEF Exists, FinalStatuses
<1>6. KeyStatus[k] = "pending" /\ KeySuffix[k] = payment[a].suffix
  BY <1>1, <1>3, <1>4, ViewOf DEF PayInv
<1>7. KeyStatus'[k] = final /\ KeySuffix'[k] = KeySuffix[k]
  BY <1>1, <1>4, <1>5, <1>6, ViewOfNext DEF PayInv
<1> HIDE DEF a
<1>8. \A j \in Keys : j # k => KeyStatus'[j] = KeyStatus[j] /\ KeySuffix'[j] = KeySuffix[j]
  BY <1>2, <1>3, <1>4, SameView DEF PayInv
<1>9. KeyStatus' = [KeyStatus EXCEPT ![k] = SCENARIOS[KeySuffix[k]].final]
  BY <1>6, <1>7, <1>8 DEF KeyStatus
<1>10. KeySuffix' = KeySuffix
  BY <1>7, <1>8 DEF KeySuffix
<1> QED BY <1>6, <1>9, <1>10, SameTable DEF Lifecycle!Settle

LEMMA OtherStepsStoreNothing ==
  ASSUME [Next]_vars
  PROVE  \/ payment' = payment
         \/ \E a \in Attempts : Insert(a)
         \/ \E w \in Workers : CommitTransition(w)
<1>1. CASE Tick \/ UNCHANGED vars
  BY <1>1 DEF Tick, vars
<1>2. ASSUME NEW form, SaveSettings(form)
      PROVE  payment' = payment
  BY <1>2 DEF SaveSettings
<1>3. ASSUME NEW a \in Attempts, AttemptStep(a)
      PROVE  payment' = payment \/ Insert(a)
  BY <1>3 DEF AttemptStep, Lookup, Flush, InsertConflict, LoseAttempt
<1>4. ASSUME NEW w \in Workers, WorkerStep(w) \/ ProcessStep(w)
      PROVE  payment' = payment \/ CommitTransition(w)
  BY <1>4 DEF WorkerStep, ProcessStep, PassFails, Shutdown, LoopEnds, Crash, StartLoop,
              ReadDelays, TakeTime, ReadPending, NotDue, Update, UpdateMisses, EndPass
<1> QED BY <1>1, <1>2, <1>3, <1>4 DEF Next

\* create_payment and any number of loops implement the lifecycle of a key: one
\* payment accepted, settled once to the outcome of its scenario, final after that.
THEOREM HandlersImplementLifecycle == Spec => ImplementsLifecycle
<1>1. Init => Lifecycle!Init
  <2> SUFFICES ASSUME Init PROVE Lifecycle!Init
    OBVIOUS
  <2>1. \A k : ~KeyTaken(k)
    BY DEF Init, KeyTaken, Exists, NoPayment
  <2>2. KeyStatus = [k \in Keys |-> "none"]
    BY <2>1 DEF KeyStatus
  <2>3. KeySuffix = [k \in Keys |-> "none"]
    BY <2>1 DEF KeySuffix
  <2> QED BY <2>2, <2>3 DEF Lifecycle!Init
<1>2. PayInv /\ [Next]_vars => [Lifecycle!Next]_<<KeyStatus, KeySuffix>>
  <2> SUFFICES ASSUME PayInv, [Next]_vars
               PROVE  [Lifecycle!Next]_<<KeyStatus, KeySuffix>>
    OBVIOUS
  <2>1. PayInv'
    BY PayNext
  <2>2. CASE payment' = payment
    <3>1. UNCHANGED <<KeyStatus, KeySuffix>>
      BY <2>2 DEF KeyStatus, KeySuffix, KeyTaken, PaymentOf, Exists
    <3> QED BY <3>1
  <2>3. CASE \E a \in Attempts : Insert(a)
    BY <2>1, <2>3, InsertAccepts DEF Lifecycle!Next
  <2>4. CASE \E w \in Workers : CommitTransition(w)
    BY <2>1, <2>4, CommitSettles DEF Lifecycle!Next
  <2> QED BY <2>2, <2>3, <2>4, OtherStepsStoreNothing
<1> QED BY <1>1, <1>2, PaymentsInductive, PTL DEF Spec, ImplementsLifecycle, Lifecycle!Spec

-----------------------------------------------------------------------------
(* What a pass has still to look at. *)

\* A payment that is due for the pass, and was committed before it took its time, is on its
\* list, or is the one it is settling.
Covers(w) ==
  Pass(w) => \A a \in Attempts :
    /\ payment[a].status = "pending"
    /\ payment[a].storedAt < worker[w].now
    /\ Due(a, worker[w])
    => a \in worker[w].todo \/ (worker[w].pc = "updated" /\ worker[w].row = a)

\* A payment that is pending after a step was so before it, or is new.
LEMMA PendingBefore ==
  ASSUME PayInv, [Next]_vars, NEW a \in Attempts, payment'[a].status = "pending"
  PROVE  payment'[a] = payment[a] \/ payment'[a].storedAt = clock
<1>1. ASSUME NEW b \in Attempts, Insert(b)
      PROVE  payment'[a] = payment[a] \/ payment'[a].storedAt = clock
  BY <1>1 DEF Insert, PayInv, TypeOK
<1>2. ASSUME NEW w \in Workers, CommitTransition(w)  PROVE payment'[a] = payment[a]
  <2>1. PICK r \in Updates : r = worker[w]
    BY <1>2, PassHolds DEF CommitTransition
  <2> DEFINE b == r.row
             final == SCENARIOS[payment[b].suffix].final
  <2>2. payment' = [payment EXCEPT ![b].status = final] /\ b \in Attempts
        /\ payment[b].status = "pending"
    BY <1>2, <2>1 DEF CommitTransition, Updates, PayInv, UpdatesHeld
  <2>3. payment[b] \in Row /\ final \in FinalStatuses
    <3>1. payment[b] \in Row
      BY <2>2 DEF PayInv, TypeOK, NoPayment
    <3>2. payment[b].suffix \in Configurable
      BY <2>2 DEF PayInv, TodoWaits, Waits
    <3> QED BY <3>1, <3>2, Table
  <2> HIDE DEF b, final
  <2>4. a # b
    <3>1. a = b => payment'[a].status = final
      BY <2>2, <2>3 DEF PayInv, TypeOK, Row
    <3> QED BY <2>3, <3>1 DEF FinalStatuses
  <2> QED BY <2>2, <2>4 DEF PayInv, TypeOK
<1> QED BY <1>1, <1>2, OtherStepsStoreNothing

\* The steps of a pass: nothing due leaves the list without being settled.
LEMMA CoversOwn ==
  ASSUME PayInv, NEW w \in Workers, Covers(w), WorkerStep(w) \/ ProcessStep(w)
  PROVE  Covers(w)'
<1> DEFINE r == worker[w]
<1>0. worker \in [Workers -> {Sleeping, Stopped} \cup Timings
           \cup [pc : {"reading"}, delays : [Configurable -> Nat], now : Nat] \cup Passes \cup Updates]
  BY DEF PayInv, TypeOK, Passes, Updates, Timings
<1>1. CASE ReadPending(w)
  <2>1. worker'[w].pc = "pass" /\ payment' = payment
        /\ worker'[w].todo = {a \in Attempts : payment[a].status = "pending"}
    BY <1>0, <1>1 DEF ReadPending
  <2> QED BY <2>1 DEF Covers
<1>2. ASSUME NEW a \in Attempts, NotDue(w, a) \/ UpdateMisses(w, a)
      PROVE  Covers(w)'
  <2>1. r \in Passes /\ r.pc = "pass" /\ payment' = payment
        /\ worker'[w] = [r EXCEPT !.todo = @ \ {a}]
    BY <1>0, <1>2, PassHolds DEF NotDue, UpdateMisses
  <2>2. /\ worker'[w].pc = "pass" /\ worker'[w].todo = r.todo \ {a}
        /\ worker'[w].now = r.now /\ worker'[w].delays = r.delays
    BY <2>1 DEF Passes
  <2>3. ~(payment[a].status = "pending" /\ Due(a, r))
    BY <1>2 DEF NotDue, UpdateMisses, StillPending
  <2> QED BY <2>1, <2>2, <2>3 DEF Covers, Pass, Due
<1>3. ASSUME NEW a \in Attempts, Update(w, a)
      PROVE  Covers(w)'
  <2>1. /\ r.pc = "pass" /\ payment' = payment /\ worker'[w].pc = "updated"
        /\ worker'[w].todo = r.todo \ {a} /\ worker'[w].row = a
        /\ worker'[w].now = r.now /\ worker'[w].delays = r.delays
    BY <1>0, <1>3 DEF Update
  <2> QED BY <2>1 DEF Covers, Pass, Due
<1>4. CASE CommitTransition(w)
  <2>1. /\ r.pc = "updated" /\ worker'[w].pc = "pass" /\ worker'[w].todo = r.todo
        /\ worker'[w].now = r.now /\ worker'[w].delays = r.delays
    BY <1>0, <1>4 DEF CommitTransition
  <2>2. \A a \in Attempts : payment'[a].status = "pending" =>
          payment'[a] = payment[a] /\ a # r.row
    <3>1. r.row \in Attempts /\ payment[r.row].status = "pending"
      BY <2>1, PassHolds DEF PayInv, UpdatesHeld
    <3> DEFINE final == SCENARIOS[payment[r.row].suffix].final
    <3>2. payment[r.row] \in Row /\ final # "pending"
      <4>1. payment[r.row] \in Row
        BY <3>1 DEF PayInv, TypeOK, NoPayment
      <4>2. payment[r.row].suffix \in Configurable
        BY <3>1 DEF PayInv, TodoWaits, Waits
      <4> QED BY <4>1, <4>2, Table DEF FinalStatuses
    <3>3. payment' = [payment EXCEPT ![r.row].status = final]
      BY <1>4 DEF CommitTransition
    <3> HIDE DEF final, r
    <3>4. payment'[r.row].status = final
      BY <3>1, <3>2, <3>3 DEF PayInv, TypeOK, Row
    <3> QED BY <3>1, <3>2, <3>3, <3>4 DEF PayInv, TypeOK
  <2> QED BY <2>1, <2>2 DEF Covers, Pass, Due
<1>5. CASE Shutdown(w)
  BY <1>5 DEF Shutdown, Covers, Pass, Due
<1>6. CASE \/ ReadDelays(w) \/ TakeTime(w) \/ EndPass(w) \/ LoopEnds(w)
           \/ PassFails(w) \/ Crash(w) \/ StartLoop(w)
  <2>1. worker'[w].pc \in {"timing", "reading", "sleeping", "stopped"}
    BY <1>0, <1>6 DEF ReadDelays, TakeTime, EndPass, LoopEnds, PassFails, Crash, StartLoop,
                      Sleeping, Stopped
  <2> QED BY <2>1 DEF Covers, Pass
<1> QED BY <1>1, <1>2, <1>3, <1>4, <1>5, <1>6 DEF WorkerStep, ProcessStep

LEMMA CoversOther ==
  ASSUME PayInv, [Next]_vars, NEW w \in Workers, Covers(w), worker'[w] = worker[w]
  PROVE  Covers(w)'
<1> SUFFICES ASSUME Pass(w)', NEW a \in Attempts, payment'[a].status = "pending",
                    payment'[a].storedAt < worker'[w].now, Due(a, worker[w])'
             PROVE  \/ a \in worker'[w].todo
                    \/ worker'[w].pc = "updated" /\ worker'[w].row = a
  BY DEF Covers
<1>1. Pass(w) /\ worker[w].now \in Nat /\ worker[w].now <= clock /\ clock \in Nat
  BY PassHolds DEF Pass
<1>2. payment'[a] = payment[a]
  <2>1. payment'[a].storedAt # clock
    BY <1>1
  <2> QED BY <2>1, PendingBefore
<1> QED BY <1>1, <1>2 DEF Covers, Due

\* Every pass that comes to its end has settled, or seen settled, all that was due and had
\* been committed before the pass took its time.
THEOREM PassesOverlookNothing == Spec => []PassLeavesNoneDue
<1> DEFINE Covered == \A w \in Workers : Covers(w)
<1>1. Init => Covered
  BY DEF Init, Covers, Pass, Sleeping
<1>2. PayInv /\ Covered /\ [Next]_vars => Covered'
  <2> SUFFICES ASSUME PayInv, Covered, [Next]_vars, NEW w \in Workers  PROVE Covers(w)'
    OBVIOUS
  <2>1. CASE WorkerStep(w) \/ ProcessStep(w)
    BY <2>1, CoversOwn
  <2>2. ASSUME NEW u \in Workers, u # w, WorkerStep(u) \/ ProcessStep(u)
        PROVE  worker'[w] = worker[w]
    BY <2>2 DEF WorkerStep, ProcessStep, PassFails, Shutdown, LoopEnds, Crash, StartLoop,
                ReadDelays, TakeTime, ReadPending, NotDue, Update, UpdateMisses, EndPass,
                CommitTransition, PayInv, TypeOK
  <2>3. ASSUME NEW a \in Attempts, AttemptStep(a)  PROVE worker'[w] = worker[w]
    BY <2>3 DEF AttemptStep, Lookup, Flush, Insert, InsertConflict, LoseAttempt
  <2>4. ASSUME NEW form, SaveSettings(form)  PROVE worker'[w] = worker[w]
    BY <2>4 DEF SaveSettings
  <2>5. CASE Tick \/ UNCHANGED vars
    BY <2>5, CoversOther DEF Tick, vars
  <2> QED BY <2>1, <2>2, <2>3, <2>4, <2>5, CoversOther DEF Next
<1>3. PayInv /\ Covered => PassLeavesNoneDue
  BY DEF Covers, Pass, PassLeavesNoneDue
<1> QED BY <1>1, <1>2, <1>3, PaymentsInductive, PTL DEF Spec

==============================================================================
