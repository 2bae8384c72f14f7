------------------------------- MODULE Payments -------------------------------
(***************************************************************************)
(* Payments (app/payments.py) and the background task that settles them    *)
(* (app/background.py), over the tables payments, payment_status_history   *)
(* and scenario_settings.                                                  *)
(*                                                                         *)
(* An attempt is one POST /pay; a client that got no answer sends another  *)
(* with the same idempotency key.  An attempt looks the key up, and if it  *)
(* finds none stamps its row with the time, and inserts in a later step,   *)
(* where the unique index decides.  Each attempt draws its own uuid, so    *)
(* the attempt names the payment it inserts.                               *)
(*                                                                         *)
(* A worker is one instance of the loop (one per process).  A pass reads   *)
(* the delays, then takes the time, then reads the pending payments, then  *)
(* settles them one by one with an UPDATE ... WHERE status = 'pending' and *)
(* a commit each.  Between any two of these steps everything else may move.*)
(* The process of a worker is shut down (app/main.py, lifespan), which sets*)
(* its stop_event and waits for the loop, or dies; both may be started     *)
(* again.                                                                  *)
(***************************************************************************)
EXTENDS Scenarios, Sequences

CONSTANTS
  Attempts,    \* POST /pay requests
  Keys,        \* idempotency keys
  Suffixes,    \* requisite suffixes clients use
  Workers,     \* instances of the background loop
  InitDelays,  \* delay_seconds at the start, by suffix
  Delays,      \* delays an admin may set
  MaxTime,     \* bound: the clock stops here
  MaxEdits,    \* bound on saves of the settings form
  MaxFailures  \* bound on failed passes, shutdowns and deaths of a process

ASSUME PaymentsAssumption ==
  /\ Suffixes \subseteq AllSuffixes
  /\ Delays \subseteq Nat                 \* settings_save clamps to 0 .. 3600
  /\ InitDelays \in [Configurable -> Nat]
  /\ MaxTime \in Nat /\ MaxEdits \in Nat /\ MaxFailures \in Nat

VARIABLES
  payment,   \* payment[a]: the row that attempt a inserted, or NoPayment
  history,   \* history[a]: its rows in payment_status_history, oldest first
  delays,    \* scenario_settings.delay_seconds
  attempt,   \* attempt[a]: where the request is
  worker,    \* worker[w]: where the loop is in its pass
  stopping,  \* the workers whose stop_event is set
  clock,     \* utcnow(), in whole units
  edits, failures

vars == <<payment, history, delays, attempt, worker, stopping, clock, edits, failures>>

-----------------------------------------------------------------------------
NoPayment == [status |-> "none"]

\* storedAt is no column: a history of when the row was committed.
Row == [status : {"pending"} \cup FinalStatuses, key : Keys, suffix : Suffixes,
        createdAt : Nat, storedAt : Nat]

Exists(a) == payment[a].status # "none"

\* A history row; delay is the one its note quotes, 0 for the first two rows.
Step(status, at, delay) == [status |-> status, at |-> at, delay |-> delay]

New == [pc |-> "new"]
Inserting(k, x) == [pc |-> "inserting", key |-> k, suffix |-> x]
Flushed(k, x, at) == [pc |-> "flushed", key |-> k, suffix |-> x, at |-> at]
Replied(k, id) == [pc |-> "replied", key |-> k, id |-> id]
Lost == [pc |-> "lost"]     \* the client got no payment id

Sleeping == [pc |-> "sleeping"]
Stopped == [pc |-> "stopped"]    \* the process is down
Pass(w) == worker[w].pc \in {"pass", "updated"}

Init ==
  /\ payment = [a \in Attempts |-> NoPayment]
  /\ history = [a \in Attempts |-> <<>>]
  /\ delays = InitDelays
  /\ attempt = [a \in Attempts |-> New]
  /\ worker = [w \in Workers |-> Sleeping]
  /\ stopping = {}
  /\ clock = 0
  /\ edits = 0
  /\ failures = 0

Tick ==
  /\ clock < MaxTime
  /\ clock' = clock + 1
  /\ UNCHANGED <<payment, history, delays, attempt, worker, stopping, edits, failures>>

\* settings_save: the fields of the form that carry a number, in one commit.
SaveSettings(form) ==
  /\ edits < MaxEdits
  /\ delays' = [x \in Configurable |-> IF x \in DOMAIN form THEN form[x] ELSE delays[x]]
  /\ edits' = edits + 1
  /\ UNCHANGED <<payment, history, attempt, worker, stopping, clock, failures>>

-----------------------------------------------------------------------------
(* create_payment. *)

\* What the unique index of payments.idempotency_key rejects.  Slip: no index.
NoUniqueIndex(k) == FALSE
KeyTaken(k) == \E b \in Attempts : Exists(b) /\ payment[b].key = k
PaymentOf(k) == CHOOSE b \in Attempts : Exists(b) /\ payment[b].key = k

\* The key is known: the stored payment is the answer, whatever else was sent.
Lookup(a, k, x) ==
  /\ attempt[a].pc = "new"
  /\ attempt' = [attempt EXCEPT ![a] =
                   IF KeyTaken(k) THEN Replied(k, PaymentOf(k)) ELSE Inserting(k, x)]
  /\ UNCHANGED <<payment, history, delays, worker, stopping, clock, edits, failures>>

\* commit() flushes first: the default of created_at is the time at which the INSERT is
\* sent, and nobody sees the row yet.
Flush(a) ==
  LET r == attempt[a]
  IN  /\ r.pc = "inserting"
      /\ attempt' = [attempt EXCEPT ![a] = Flushed(r.key, r.suffix, clock)]
      /\ UNCHANGED <<payment, history, delays, worker, stopping, clock, edits, failures>>

\* The COMMIT: payment and both history rows become visible, with the times of the flush.
\* The refresh after it may fail, or the answer be lost.
Insert(a) ==
  LET r == attempt[a]
      initial == SCENARIOS[r.suffix].initial
  IN  /\ r.pc = "flushed"
      /\ ~KeyTaken(r.key)
      /\ payment' = [payment EXCEPT ![a] = [status |-> initial, key |-> r.key, suffix |-> r.suffix,
                                            createdAt |-> r.at, storedAt |-> clock]]
      /\ history' = [history EXCEPT ![a] = <<Step("accepted", r.at, 0), Step(initial, r.at, 0)>>]
      /\ \E answer \in {Replied(r.key, a), Lost} : attempt' = [attempt EXCEPT ![a] = answer]
      /\ UNCHANGED <<delays, worker, stopping, clock, edits, failures>>

\* Slip: the conflicting insert overwrites the stored payment (an upsert).
InsertConflictUpserts(a) ==
  LET r == attempt[a]
  IN  /\ r.pc = "flushed"
      /\ KeyTaken(r.key)
      /\ payment' = [payment EXCEPT ![PaymentOf(r.key)].suffix = r.suffix,
                                    ![PaymentOf(r.key)].status = SCENARIOS[r.suffix].initial]
      /\ attempt' = [attempt EXCEPT ![a] = Replied(r.key, PaymentOf(r.key))]
      /\ UNCHANGED <<history, delays, worker, stopping, clock, edits, failures>>

\* IntegrityError: somebody inserted the key since the lookup; roll back, read
\* the key again and answer with that payment.
InsertConflict(a) ==
  LET r == attempt[a]
  IN  /\ r.pc = "flushed"
      /\ KeyTaken(r.key)
      /\ attempt' = [attempt EXCEPT ![a] = Replied(r.key, PaymentOf(r.key))]
      /\ UNCHANGED <<payment, history, delays, worker, stopping, clock, edits, failures>>

\* The request dies before its commit.
LoseAttempt(a) ==
  /\ attempt[a].pc \in {"inserting", "flushed"}
  /\ attempt' = [attempt EXCEPT ![a] = Lost]
  /\ UNCHANGED <<payment, history, delays, worker, stopping, clock, edits, failures>>

-----------------------------------------------------------------------------
(* process_pending_once. *)

\* Slip: stop_event ends the wait and not the loop.
ReadDelaysAlways(w) ==
  /\ worker[w].pc = "sleeping"
  /\ worker' = [worker EXCEPT ![w] = [pc |-> "timing", delays |-> delays]]
  /\ UNCHANGED <<payment, history, delays, attempt, stopping, clock, edits, failures>>

ReadDelays(w) ==
  /\ worker[w].pc = "sleeping"
  /\ w \notin stopping
  /\ worker' = [worker EXCEPT ![w] = [pc |-> "timing", delays |-> delays]]
  /\ UNCHANGED <<payment, history, delays, attempt, stopping, clock, edits, failures>>

TakeTime(w) ==
  /\ worker[w].pc = "timing"
  /\ worker' = [worker EXCEPT ![w] = [pc |-> "reading", delays |-> worker[w].delays, now |-> clock]]
  /\ UNCHANGED <<payment, history, delays, attempt, stopping, clock, edits, failures>>

ReadPending(w) ==
  LET r == worker[w]
  IN  /\ r.pc = "reading"
      /\ worker' = [worker EXCEPT ![w] =
                      [pc |-> "pass", delays |-> r.delays, now |-> r.now,
                       todo |-> {a \in Attempts : payment[a].status = "pending"}]]
      /\ UNCHANGED <<payment, history, delays, attempt, stopping, clock, edits, failures>>

\* Slip: the deadline is rounded down.
DueRounded(a, r) == r.now + 1 >= payment[a].createdAt + r.delays[payment[a].suffix]
Due(a, r) == r.now >= payment[a].createdAt + r.delays[payment[a].suffix]

NotDue(w, a) ==
  LET r == worker[w]
  IN  /\ r.pc = "pass"
      /\ a \in r.todo
      /\ ~Due(a, r)
      /\ worker' = [worker EXCEPT ![w].todo = @ \ {a}]
      /\ UNCHANGED <<payment, history, delays, attempt, stopping, clock, edits, failures>>

\* Another worker's UPDATE of the row is flushed and not committed: wait.
RowLocked(a) == \E v \in Workers : worker[v].pc = "updated" /\ worker[v].row = a

\* The WHERE clause of the UPDATE.  Slip: WHERE id = :id alone.
AnyStatus(a) == TRUE
StillPending(a) == payment[a].status = "pending"

\* rowcount = 1: the row is ours until the commit, and the history row is stamped.
Update(w, a) ==
  LET r == worker[w]
  IN  /\ r.pc = "pass"
      /\ a \in r.todo
      /\ Due(a, r)
      /\ ~RowLocked(a)
      /\ StillPending(a)
      /\ worker' = [worker EXCEPT ![w] = [pc |-> "updated", delays |-> r.delays, now |-> r.now,
                                          todo |-> r.todo \ {a}, row |-> a, at |-> clock]]
      /\ UNCHANGED <<payment, history, delays, attempt, stopping, clock, edits, failures>>

\* Slip: a row another instance has locked is skipped.
UpdateMissesLocked(w, a) ==
  LET r == worker[w]
  IN  /\ r.pc = "pass"
      /\ a \in r.todo
      /\ Due(a, r)
      /\ RowLocked(a) \/ ~StillPending(a)
      /\ worker' = [worker EXCEPT ![w].todo = @ \ {a}]
      /\ UNCHANGED <<payment, history, delays, attempt, stopping, clock, edits, failures>>

\* rowcount = 0: another instance settled it, nothing is written.
UpdateMisses(w, a) ==
  LET r == worker[w]
  IN  /\ r.pc = "pass"
      /\ a \in r.todo
      /\ Due(a, r)
      /\ ~RowLocked(a)
      /\ ~StillPending(a)
      /\ worker' = [worker EXCEPT ![w].todo = @ \ {a}]
      /\ UNCHANGED <<payment, history, delays, attempt, stopping, clock, edits, failures>>

CommitTransition(w) ==
  LET r == worker[w]
      x == payment[r.row].suffix
  IN  /\ r.pc = "updated"
      /\ payment' = [payment EXCEPT ![r.row].status = SCENARIOS[x].final]
      /\ history' = [history EXCEPT ![r.row] =
                       Append(@, Step(SCENARIOS[x].final, r.at, r.delays[x]))]
      /\ worker' = [worker EXCEPT ![w] = [pc |-> "pass", delays |-> r.delays, now |-> r.now,
                                          todo |-> r.todo]]
      /\ UNCHANGED <<delays, attempt, stopping, clock, edits, failures>>

EndPass(w) ==
  /\ worker[w].pc = "pass"
  /\ worker[w].todo = {}
  /\ worker' = [worker EXCEPT ![w] = Sleeping]
  /\ UNCHANGED <<payment, history, delays, attempt, stopping, clock, edits, failures>>

-----------------------------------------------------------------------------
(* The process of a worker. *)

\* Slip: an exception leaves the while loop.
LoopDies(w) ==
  /\ worker[w].pc \notin {"sleeping", "stopped"}
  /\ failures < MaxFailures
  /\ worker' = [worker EXCEPT ![w] = [pc |-> "dead"]]
  /\ failures' = failures + 1
  /\ UNCHANGED <<payment, history, delays, attempt, stopping, clock, edits>>

\* An exception anywhere in a pass: the open transaction is rolled back, the rest
\* of the pass is dropped, and the loop goes on.
PassFails(w) ==
  /\ worker[w].pc \notin {"sleeping", "stopped"}
  /\ failures < MaxFailures
  /\ worker' = [worker EXCEPT ![w] = Sleeping]
  /\ failures' = failures + 1
  /\ UNCHANGED <<payment, history, delays, attempt, stopping, clock, edits>>

\* The end of lifespan: the event is set and the loop awaited.
Shutdown(w) ==
  /\ worker[w].pc # "stopped"
  /\ w \notin stopping
  /\ failures < MaxFailures
  /\ stopping' = stopping \cup {w}
  /\ failures' = failures + 1
  /\ UNCHANGED <<payment, history, delays, attempt, worker, clock, edits>>

\* The event ends the wait between two passes and then the loop.
LoopEnds(w) ==
  /\ worker[w].pc = "sleeping"
  /\ w \in stopping
  /\ worker' = [worker EXCEPT ![w] = Stopped]
  /\ stopping' = stopping \ {w}
  /\ UNCHANGED <<payment, history, delays, attempt, clock, edits, failures>>

\* The process dies: the open transaction is rolled back.
Crash(w) ==
  /\ worker[w].pc # "stopped"
  /\ failures < MaxFailures
  /\ worker' = [worker EXCEPT ![w] = Stopped]
  /\ stopping' = stopping \ {w}
  /\ failures' = failures + 1
  /\ UNCHANGED <<payment, history, delays, attempt, clock, edits>>

\* The start of lifespan: a new process with a new loop.
StartLoop(w) ==
  /\ worker[w].pc = "stopped"
  /\ worker' = [worker EXCEPT ![w] = Sleeping]
  /\ UNCHANGED <<payment, history, delays, attempt, stopping, clock, edits, failures>>

-----------------------------------------------------------------------------
WorkerStep(w) ==
  \/ ReadDelays(w)
  \/ TakeTime(w)
  \/ ReadPending(w)
  \/ \E a \in Attempts : NotDue(w, a) \/ Update(w, a) \/ UpdateMisses(w, a)
  \/ CommitTransition(w)
  \/ EndPass(w)
  \/ LoopEnds(w)

ProcessStep(w) == PassFails(w) \/ Shutdown(w) \/ Crash(w) \/ StartLoop(w)

AttemptStep(a) ==
  \/ \E k \in Keys, x \in Suffixes : Lookup(a, k, x)
  \/ Flush(a)
  \/ Insert(a)
  \/ InsertConflict(a)
  \/ LoseAttempt(a)

Next ==
  \/ Tick
  \/ \E fields \in SUBSET (Configurable \cap Suffixes) :
       \E form \in [fields -> Delays] : SaveSettings(form)
  \/ \E a \in Attempts : AttemptStep(a)
  \/ \E w \in Workers : WorkerStep(w) \/ ProcessStep(w)

Spec == Init /\ [][Next]_vars

\* Time passes and every loop keeps polling: it wakes each second, and a pass is
\* a finite run of statements the database answers.  Nothing is assumed of the
\* clients, of the admin or of failures, which are only bounded in number, and nobody
\* need start a process again.
FairSpec == Spec /\ WF_vars(Tick) /\ \A w \in Workers : WF_vars(WorkerStep(w))

-----------------------------------------------------------------------------
(* Properties. *)

\* Every variable has its type.
TypeOK ==
  /\ payment \in [Attempts -> {NoPayment} \cup Row]
  /\ history \in [Attempts -> Seq([status : {"accepted", "pending"} \cup FinalStatuses,
                                   at : Nat, delay : Nat])]
  /\ delays \in [Configurable -> Nat]
  /\ attempt \in [Attempts -> {New, Lost}
                    \cup [pc : {"inserting"}, key : Keys, suffix : Suffixes]
                    \cup [pc : {"flushed"}, key : Keys, suffix : Suffixes, at : Nat]
                    \cup [pc : {"replied"}, key : Keys, id : Attempts]]
  /\ worker \in [Workers -> {Sleeping, Stopped}
                   \cup [pc : {"timing"}, delays : [Configurable -> Nat]]
                   \cup [pc : {"reading"}, delays : [Configurable -> Nat], now : Nat]
                   \cup [pc : {"pass"}, delays : [Configurable -> Nat], now : Nat,
                         todo : SUBSET Attempts]
                   \cup [pc : {"updated"}, delays : [Configurable -> Nat], now : Nat,
                         todo : SUBSET Attempts, row : Attempts, at : Nat]]
  /\ stopping \subseteq Workers
  /\ clock \in Nat /\ edits \in Nat /\ failures \in Nat

\* "Повторный вызов с тем же ключом возвращает тот же платёж": however requests
\* with one key overlap, whichever lose their answer, all that are answered name
\* one stored payment, and it carries that key.
SameKeySamePayment ==
  \A a, b \in Attempts :
    /\ attempt[a].pc = "replied" =>
         Exists(attempt[a].id) /\ payment[attempt[a].id].key = attempt[a].key
    /\ attempt[a].pc = "replied" /\ attempt[b].pc = "replied" /\ attempt[a].key = attempt[b].key =>
         attempt[a].id = attempt[b].id

\* The history a payment must have, given its row.
HistoryOf(row) ==
  LET sc == SCENARIOS[row.suffix]
  IN  IF sc.initial # "pending" THEN <<"accepted", sc.initial>>
      ELSE IF row.status = "pending" THEN <<"accepted", "pending">>
      ELSE <<"accepted", "pending", sc.final>>

\* "Гарантирует ровно один переход, даже если случайно запущены два экземпляра":
\* the history of a payment is exactly accepted, initial, and its scenario's
\* outcome once, and it agrees with the status of the row.
OneTransition ==
  \A a \in Attempts :
    IF Exists(a)
    THEN /\ Len(history[a]) = Len(HistoryOf(payment[a]))
         /\ \A i \in 1 .. Len(history[a]) : history[a][i].status = HistoryOf(payment[a])[i]
         /\ history[a][Len(history[a])].status = payment[a].status
    ELSE history[a] = <<>>

\* No payment settles before the delay its history quotes has passed since it was
\* accepted, though the pass decided on a clock and delays read earlier.
NeverEarly ==
  \A a \in Attempts : Exists(a) =>
    \A i \in 3 .. Len(history[a]) :
       history[a][i].at >= payment[a].createdAt + history[a][i].delay

\* A pass that comes to its end has overlooked nothing it could see: no payment that was
\* committed before the pass took its time, and was due by then, is still pending.  It waits
\* for a row another instance is about to settle, and settles it when that one fails.  (A
\* payment with an older created_at may be committed after the list was read, and is left
\* to the next pass: EveryPendingSettles.)
PassLeavesNoneDue ==
  \A w \in Workers : worker[w].pc = "pass" /\ worker[w].todo = {} =>
    \A a \in Attempts :
      payment[a].status = "pending" /\ payment[a].storedAt < worker[w].now =>
        ~Due(a, worker[w])

\* A client's view: at most one payment behind a key.
KeyStatus == [k \in Keys |-> IF KeyTaken(k) THEN payment[PaymentOf(k)].status ELSE "none"]
KeySuffix == [k \in Keys |-> IF KeyTaken(k) THEN payment[PaymentOf(k)].suffix ELSE "none"]

\* A pending payment whose delay can run out within the modelled time settles,
\* whatever passes fail and however the delays are edited meanwhile: a loop started
\* after a shutdown or a death finds it again.  It waits only while every process is
\* down.
LongestDelay == CHOOSE d \in Delays \cup {InitDelays[x] : x \in Configurable \cap Suffixes} :
                  \A e \in Delays \cup {InitDelays[x] : x \in Configurable \cap Suffixes} : e <= d

AllDown == \A w \in Workers : worker[w].pc = "stopped"

EveryPendingSettles ==
  \A k \in Keys :
    KeyStatus[k] = "pending" /\ payment[PaymentOf(k)].createdAt + LongestDelay <= MaxTime
      ~> KeyStatus[k] \in FinalStatuses \/ AllDown

\* A shutdown ends: the loop it waits for leaves its pass, though the pass may fail on
\* the way, or wait for a row of another worker, which may be in its own shutdown, and
\* takes no new one.
ShutdownEnds == \A w \in Workers : w \in stopping ~> worker[w].pc = "stopped"

Lifecycle == INSTANCE PaymentLifecycle WITH status <- KeyStatus, suffix <- KeySuffix

\* The handlers and any number of loops implement the lifecycle of the README.
ImplementsLifecycle == Lifecycle!Spec
==============================================================================
