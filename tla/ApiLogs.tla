------------------------------- MODULE ApiLogs -------------------------------
(***************************************************************************)
(* The log of API calls (app/api_logs.py, table api_request_log), together *)
(* with the handlers that write it: /check, /pay and /status of            *)
(* routes_api.py, the three payout calls behind _handle of                 *)
(* routes_payout.py, and the handler of validation errors of main.py.      *)
(*                                                                         *)
(* A handler does its own work first, in the database session in which it  *)
(* then logs; what that work is other modules say, here it is a            *)
(* transaction that changes something or nothing.  Logging is an INSERT,   *)
(* which draws an id from a sequence, and a COMMIT; every PRUNE_EVERY ids  *)
(* it goes on with a DELETE of the oldest rows and another COMMIT.  Any    *)
(* statement may raise, and a connection may break during a COMMIT that    *)
(* the database carries out all the same.  A process may die anywhere.     *)
(***************************************************************************)
EXTENDS Naturals, FiniteSets

CONSTANTS
  Calls,       \* API calls in flight, one per database session
  Retention,   \* RETENTION
  PruneEvery,  \* PRUNE_EVERY
  MaxIds       \* bound: no INSERT once this many ids are drawn

ASSUME ApiLogsAssumption ==
  /\ Retention \in Nat \ {0}
  /\ PruneEvery \in Nat \ {0}
  /\ MaxIds \in Nat

VARIABLES
  rows,    \* ids of the rows stored in api_request_log
  lastId,  \* the sequence of its ids: ids drawn are never given back
  call,    \* call[c]: what the handler c holds in memory
  swept,   \* history: the rounds of pruning whose DELETE was committed
  missed   \* history: the rounds that will not prune any more

vars == <<rows, lastId, call, swept, missed>>

-----------------------------------------------------------------------------
Plain == {"check", "pay", "status"}     \* routes_api.py
Kinds == Plain \cup {"payout", "invalid"}

\* A call works (/pay up to "refreshing"), logs ("logging" up to "inserted"), prunes
\* ("pruning", "deleting") and is done.
\* answer: what it has ready for the client, a result or -100 ("error"); failed: the
\* client gets HTTP 500 instead.
\* dirty: the session holds changes it has not committed; stored: changes of the
\* call were committed; broken: a COMMIT raised after the database carried it out.
Call == [pc : {"working", "refreshing", "logging", "inserted", "pruning", "deleting", "done"},
         kind : Kinds, dirty : BOOLEAN, stored : BOOLEAN, broken : BOOLEAN,
         answer : {"none", "result", "error"}, failed : BOOLEAN, id : Nat, victims : SUBSET Nat]

Idle == [pc |-> "idle"]

\* The rounds of pruning belong to these ids.
Round(id) == id % PruneEvery = 0

Init ==
  /\ rows = {}
  /\ lastId = 0
  /\ call = [c \in Calls |-> Idle]
  /\ swept = {}
  /\ missed = {}

\* The handler goes on as r.
Becomes(c, r) == call' = [call EXCEPT ![c] = r]
LogUnchanged == UNCHANGED <<rows, lastId, swept, missed>>

\* The round of the call, if it has one, is over without its DELETE.
MissRound(c) == missed' = missed \cup {i \in {call[c].id} : i > 0 /\ Round(i)}

-----------------------------------------------------------------------------
(* The work of the handlers. *)

\* A call that passed authentication, or a payout call whose body is not valid.
Begin(c, kind) ==
  /\ call[c].pc = "idle"
  /\ Becomes(c, [pc |-> IF kind = "invalid" THEN "logging" ELSE "working", kind |-> kind,
                 dirty |-> FALSE, stored |-> FALSE, broken |-> FALSE,
                 answer |-> IF kind = "invalid" THEN "error" ELSE "none",
                 failed |-> FALSE, id |-> 0, victims |-> {}])
  /\ LogUnchanged

\* create_payment, block or pay assigns columns and adds rows.
Change(c) ==
  /\ call[c].pc = "working"
  /\ call[c].kind \in {"pay", "payout"}
  /\ ~call[c].dirty
  /\ Becomes(c, [call[c] EXCEPT !.dirty = TRUE])
  /\ LogUnchanged

\* create_payment has another statement to go, block and pay have not.
CommitWork(c) ==
  LET r == call[c]
      isPay == r.kind = "pay"
  IN  /\ r.pc = "working"
      /\ r.dirty
      /\ Becomes(c, [r EXCEPT !.pc = IF isPay THEN "refreshing" ELSE "logging",
                              !.answer = IF isPay THEN "none" ELSE "result",
                              !.dirty = FALSE, !.stored = TRUE])
      /\ LogUnchanged

\* session.refresh(payment).
Refresh(c) ==
  /\ call[c].pc = "refreshing"
  /\ Becomes(c, [call[c] EXCEPT !.pc = "logging", !.answer = "result"])
  /\ LogUnchanged

\* The refresh is in no try: the payment is stored, and the call fails unlogged.
RefreshRaises(c) ==
  /\ call[c].pc = "refreshing"
  /\ Becomes(c, [call[c] EXCEPT !.pc = "done", !.failed = TRUE])
  /\ LogUnchanged

\* A read, an idempotency key that is known (by the lookup, or because the unique index
\* undid the INSERT), or an early return of block or pay.
NothingToDo(c) ==
  /\ call[c].pc = "working"
  /\ ~call[c].dirty
  /\ Becomes(c, [call[c] EXCEPT !.pc = "logging", !.answer = "result"])
  /\ LogUnchanged

\* /status of an unknown payment: 404, and nothing is logged.
UnknownPayment(c) ==
  /\ call[c].pc = "working"
  /\ call[c].kind = "status"
  /\ Becomes(c, [call[c] EXCEPT !.pc = "done", !.answer = "result"])
  /\ LogUnchanged

\* Slip: neither block or pay nor _handle rolls back.
WorkRaisesKeepsSession(c) ==
  /\ call[c].pc = "working"
  /\ \E broken \in {FALSE, call[c].dirty} :
       Becomes(c, IF call[c].kind = "payout"
                  THEN [call[c] EXCEPT !.pc = "logging", !.answer = "error",
                                       !.dirty = @ /\ ~broken,
                                       !.stored = broken, !.broken = broken]
                  ELSE [call[c] EXCEPT !.pc = "done", !.failed = TRUE, !.dirty = FALSE,
                                       !.stored = broken, !.broken = broken])
  /\ LogUnchanged

\* An exception in the work: _handle rolls back and answers -100, which it logs; the
\* other handlers fail unlogged, and their session is closed.
WorkRaises(c) ==
  LET r == call[c]
      handled == r.kind = "payout"
  IN  /\ r.pc = "working"
      /\ \E broken \in {FALSE, r.dirty} :
           Becomes(c, [r EXCEPT !.pc = IF handled THEN "logging" ELSE "done",
                                !.answer = IF handled THEN "error" ELSE "none",
                                !.failed = ~handled,
                                !.dirty = FALSE, !.stored = broken, !.broken = broken])
      /\ LogUnchanged

-----------------------------------------------------------------------------
(* log_api_call. *)

\* Slip: the id is one more than the largest stored, as if there were no sequence.
InsertByLargest(c) ==
  /\ call[c].pc = "logging"
  /\ lastId < MaxIds
  /\ \E id \in 1 .. MaxIds : /\ \A i \in rows : i < id
                             /\ id = 1 \/ id - 1 \in rows
                             /\ Becomes(c, [call[c] EXCEPT !.pc = "inserted", !.id = id])
  /\ LogUnchanged

Insert(c) ==
  /\ call[c].pc = "logging"
  /\ lastId < MaxIds
  /\ lastId' = lastId + 1
  /\ Becomes(c, [call[c] EXCEPT !.pc = "inserted", !.id = lastId + 1])
  /\ UNCHANGED <<rows, swept, missed>>

\* Slip: the error is passed on.
InsertRaisesFails(c) ==
  /\ call[c].pc \in {"logging", "inserted"}
  /\ Becomes(c, [call[c] EXCEPT !.pc = "done", !.failed = TRUE])
  /\ MissRound(c)
  /\ UNCHANGED <<rows, lastId, swept>>

\* The INSERT or its COMMIT raises: rollback, a warning, and the call is answered.
\* The row may be stored all the same, when it is the connection that broke.
InsertRaises(c) ==
  /\ call[c].pc \in {"logging", "inserted"}
  /\ Becomes(c, [call[c] EXCEPT !.pc = "done"])
  /\ rows' \in {rows, rows \cup ({call[c].id} \ {0})}
  /\ MissRound(c)
  /\ UNCHANGED <<lastId, swept>>

\* Slips: the first round is left out; a cutoff one too high.
PrunesLate(id) == Round(id) /\ id > Retention + PruneEvery
Prunes(id) == Round(id) /\ id > Retention

CutoffTooHigh(id) == id + 1 - Retention
Cutoff(id) == id - Retention

\* The COMMIT of the row takes along whatever else the session holds.
CommitRow(c) ==
  LET r == call[c]
  IN  /\ r.pc = "inserted"
      /\ rows' = rows \cup {r.id}
      /\ Becomes(c, [r EXCEPT !.pc = IF Prunes(r.id) THEN "pruning" ELSE "done",
                              !.stored = r.stored \/ r.dirty, !.dirty = FALSE])
      /\ UNCHANGED <<lastId, swept, missed>>

\* The DELETE finds the rows committed by now.
Delete(c) ==
  LET r == call[c]
  IN  /\ r.pc = "pruning"
      /\ Becomes(c, [r EXCEPT !.pc = "deleting",
                              !.victims = {i \in rows : i <= Cutoff(r.id)}])
      /\ LogUnchanged

CommitDelete(c) ==
  /\ call[c].pc = "deleting"
  /\ rows' = rows \ call[c].victims
  /\ swept' = swept \cup {call[c].id}
  /\ Becomes(c, [call[c] EXCEPT !.pc = "done", !.victims = {}])
  /\ UNCHANGED <<lastId, missed>>

\* _maybe_prune is called outside the try: the call fails.  A broken connection may
\* leave the rows deleted.
PruneRaises(c) ==
  /\ call[c].pc \in {"pruning", "deleting"}
  /\ rows' \in {rows, rows \ call[c].victims}
  /\ Becomes(c, [call[c] EXCEPT !.pc = "done", !.failed = TRUE, !.victims = {}])
  /\ MissRound(c)
  /\ UNCHANGED <<lastId, swept>>

-----------------------------------------------------------------------------
\* The answer is sent.
Return(c) ==
  /\ call[c].pc = "done"
  /\ Becomes(c, Idle)
  /\ LogUnchanged

\* The process dies: no answer, and nothing uncommitted is stored.
Die(c) ==
  /\ call[c].pc \notin {"idle", "done"}
  /\ Becomes(c, Idle)
  /\ MissRound(c)
  /\ UNCHANGED <<rows, lastId, swept>>

Work(c) ==
  \/ Change(c) \/ CommitWork(c) \/ Refresh(c) \/ RefreshRaises(c)
  \/ NothingToDo(c) \/ UnknownPayment(c) \/ WorkRaises(c)

LogApiCall(c) ==
  \/ Insert(c) \/ InsertRaises(c) \/ CommitRow(c)
  \/ Delete(c) \/ CommitDelete(c) \/ PruneRaises(c)

Next ==
  \E c \in Calls :
     (\E k \in Kinds : Begin(c, k)) \/ Work(c) \/ LogApiCall(c) \/ Return(c) \/ Die(c)

Spec == Init /\ [][Next]_vars

-----------------------------------------------------------------------------
(* Properties. *)

\* Every variable has its type.
TypeOK ==
  /\ rows \subseteq 1 .. lastId
  /\ lastId \in Nat
  /\ call \in [Calls -> {Idle} \cup Call]
  /\ swept \subseteq 1 .. lastId
  /\ missed \subseteq 1 .. lastId

\* "Держим только последние RETENTION записей": pruning, however late it runs and
\* however many rounds overlap, never takes one of the newest RETENTION ids.
NewestKept ==
  [][\A i \in rows : i + Retention > lastId => i \in rows']_vars

\* Rounds of the calls on their way.
InProgress == {call[c].id : c \in {d \in Calls : call[d].pc \in {"inserted", "pruning", "deleting"}}}

\* Since the last round that pruned: the rounds that were missed or are on their way.
LastSwept == IF swept = {} THEN 0 ELSE CHOOSE i \in swept : \A j \in swept : j <= i
Outstanding == {i \in missed \cup InProgress : Round(i) /\ i > Retention /\ i > LastSwept}

\* "Таблица подрезается до последних ~5000 записей", and what the ~ means: beyond
\* RETENTION there are the rows since the last round, PRUNE_EVERY more for each round
\* that an error, a crash or a lost id let go by, and the rows of calls that were on
\* their way, with a lower id, when the last DELETE ran.
TableBounded ==
  Cardinality(rows) <=
    Retention + PruneEvery * (Cardinality(Outstanding) + 1) + Cardinality(Calls) - 2

\* A state -100 (a validation error, or an exception under _handle) means that the
\* call changed nothing, although the COMMIT of the log is made in the same session
\* afterwards; only a connection that broke during the call's own COMMIT leaves this
\* open.
ErrorChangesNothing ==
  \A c \in Calls :
    call[c].pc = "done" /\ call[c].answer = "error" /\ ~call[c].broken => ~call[c].stored

\* "Сбой записи лога не роняет сам запрос", as far as it is true: a call that has its answer
\* is answered, whatever its log does, unless it fails in a round of pruning.  One that
\* fails without an answer is no payout call: those answer every exception of their work
\* with -100, while /check, /pay and /status pass it on, and /pay even that of the refresh
\* that follows its COMMIT.
FailsOnlyByPruning ==
  \A c \in Calls :
    call[c].pc = "done" /\ call[c].failed =>
      \/ call[c].kind \in Plain /\ call[c].answer = "none"
      \/ call[c].id \in missed /\ call[c].id > Retention
==============================================================================
