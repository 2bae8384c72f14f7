----------------------------- MODULE ApiLogsProofs -----------------------------
(***************************************************************************)
(* Proofs about ApiLogs, for any number of calls in flight and any         *)
(* Retention and PruneEvery.                                               *)
(*                                                                         *)
(* The properties speak of calls that are done and of the rows a step      *)
(* takes away.  LogInv says the same of every call on its way: which ids   *)
(* its DELETE may hold, and what its session and its answer may be.        *)
(***************************************************************************)
EXTENDS ApiLogs, FiniteSetTheorems, TLAPS

\* What a call holds agrees with how far it is, when the last id drawn is last and
\* the rounds gone are missed.
CallInv(r, last, gone) ==
  r.pc # "idle" =>
    /\ r.id <= last
    /\ r.pc \in {"working", "refreshing", "logging"} => r.id = 0
    /\ r.pc \in {"inserted", "pruning", "deleting"} => r.id > 0
    /\ \A i \in r.victims : i + Retention <= r.id
    /\ r.pc \in {"pruning", "deleting"} => Prunes(r.id)
    /\ r.pc # "working" => ~r.dirty
    /\ r.dirty => r.kind \in {"pay", "payout"}
    /\ r.pc = "working" => r.kind # "invalid" /\ r.answer = "none" /\ ~r.stored /\ ~r.broken
    /\ r.answer = "error" /\ ~r.broken => ~r.stored
    /\ r.pc = "refreshing" => r.kind = "pay" /\ r.answer = "none"
    /\ r.failed =>
         /\ r.pc = "done"
         /\ \/ r.kind \in Plain /\ r.answer = "none"
            \/ r.id \in gone /\ r.id > Retention

LogInv == TypeOK /\ \A c \in Calls : CallInv(call[c], lastId, missed)

LEMMA InitInv == Init => LogInv
BY ApiLogsAssumption DEF Init, LogInv, TypeOK, CallInv, Idle

\* What the pc of a call says of its other fields.
LEMMA PcHolds ==
  ASSUME LogInv, NEW c \in Calls, call[c].pc # "idle"
  PROVE  call[c] \in Call /\ CallInv(call[c], lastId, missed)
BY DEF LogInv, TypeOK, Idle

\* A step of one call keeps the others right.
LEMMA OneCall ==
  ASSUME LogInv, NEW c \in Calls, NEW r \in {Idle} \cup Call, Becomes(c, r),
         rows' \subseteq 1 .. lastId', swept' \subseteq 1 .. lastId', missed' \subseteq 1 .. lastId',
         lastId' \in Nat, lastId <= lastId', missed \subseteq missed',
         CallInv(r, lastId', missed')
  PROVE  LogInv'
<1>1. TypeOK'
  BY DEF LogInv, TypeOK, Becomes
<1>2. ASSUME NEW d \in Calls PROVE CallInv(call'[d], lastId', missed')
  <2>1. CASE d = c
    BY <2>1 DEF LogInv, TypeOK, Becomes
  <2>2. CASE d # c
    <3>1. call'[d] = call[d] /\ CallInv(call[d], lastId, missed) /\ call[d] \in {Idle} \cup Call
      BY <2>2 DEF LogInv, TypeOK, Becomes
    <3>2. call[d].pc # "idle" => call[d].id \in Nat
      BY <3>1 DEF Idle, Call
    <3>3. lastId \in Nat
      BY DEF LogInv, TypeOK
    <3> QED
      BY <3>1, <3>2, <3>3 DEF CallInv
  <2> QED
    BY <2>1, <2>2
<1> QED
  BY <1>1, <1>2 DEF LogInv

\* The work of a call, its answer and its death.
LEMMA WorkInv ==
  ASSUME LogInv, NEW c \in Calls,
         (\E k \in Kinds : Begin(c, k)) \/ Work(c) \/ Return(c)
  PROVE  LogInv'
<1>0. rows' \subseteq 1 .. lastId' /\ swept' \subseteq 1 .. lastId' /\ missed' \subseteq 1 .. lastId'
      /\ lastId' = lastId /\ lastId \in Nat /\ missed' = missed
  BY DEF LogInv, TypeOK, LogUnchanged, Begin, Work, Return, Change, CommitWork, Refresh,
         RefreshRaises, NothingToDo, UnknownPayment, WorkRaises
<1>1. ASSUME NEW k \in Kinds, Begin(c, k) PROVE LogInv'
  <2> DEFINE r == [pc |-> IF k = "invalid" THEN "logging" ELSE "working", kind |-> k,
                   dirty |-> FALSE, stored |-> FALSE, broken |-> FALSE,
                   answer |-> IF k = "invalid" THEN "error" ELSE "none",
                   failed |-> FALSE, id |-> 0, victims |-> {}]
  <2>1. Becomes(c, r)
    BY <1>1 DEF Begin
  <2>2. r \in Call /\ CallInv(r, lastId', missed')
    BY <1>0 DEF Call, CallInv
  <2> HIDE DEF r
  <2> QED
    BY <1>0, <2>1, <2>2, OneCall
<1>2. ASSUME Work(c) PROVE LogInv'
  <2> DEFINE w == call[c]
  <2>1. w \in Call /\ w.pc \in {"working", "refreshing"} /\ CallInv(w, lastId, missed)
    BY <1>2, PcHolds DEF Work, Change, CommitWork, Refresh, RefreshRaises, NothingToDo,
       UnknownPayment, WorkRaises
  <2>2. CASE Change(c)
    <3> DEFINE r == [w EXCEPT !.dirty = TRUE]
    <3>1. Becomes(c, r) /\ r \in Call /\ CallInv(r, lastId, missed)
      BY <2>1, <2>2 DEF Change, Call, CallInv
    <3> HIDE DEF r
    <3> QED
      BY <1>0, <3>1, OneCall
  <2>3. CASE CommitWork(c)
    <3> DEFINE r == [w EXCEPT !.pc = IF w.kind = "pay" THEN "refreshing" ELSE "logging",
                              !.answer = IF w.kind = "pay" THEN "none" ELSE "result",
                              !.dirty = FALSE, !.stored = TRUE]
    <3>1. Becomes(c, r) /\ r \in Call /\ CallInv(r, lastId, missed)
      BY <2>1, <2>3 DEF CommitWork, Call, CallInv
    <3> HIDE DEF r
    <3> QED
      BY <1>0, <3>1, OneCall
  <2>4. CASE NothingToDo(c)
    <3> DEFINE r == [w EXCEPT !.pc = "logging", !.answer = "result"]
    <3>1. Becomes(c, r) /\ r \in Call /\ CallInv(r, lastId, missed)
      BY <2>1, <2>4 DEF NothingToDo, Call, CallInv
    <3> HIDE DEF r
    <3> QED
      BY <1>0, <3>1, OneCall
  <2>5. CASE UnknownPayment(c)
    <3> DEFINE r == [w EXCEPT !.pc = "done", !.answer = "result"]
    <3>1. Becomes(c, r) /\ r \in Call /\ CallInv(r, lastId, missed)
      BY <2>1, <2>5 DEF UnknownPayment, Call, CallInv
    <3> HIDE DEF r
    <3> QED
      BY <1>0, <3>1, OneCall
  <2>6. CASE WorkRaises(c)
    <3>1. PICK broken \in {FALSE, w.dirty} :
            Becomes(c, [w EXCEPT
                     !.pc = IF w.kind = "payout" THEN "logging" ELSE "done",
                     !.answer = IF w.kind = "payout" THEN "error" ELSE "none",
                     !.failed = w.kind # "payout",
                     !.dirty = FALSE, !.stored = broken, !.broken = broken])
      BY <2>6 DEF WorkRaises
    <3>2. broken \in BOOLEAN
      BY <2>1, <3>1 DEF Call
    <3> DEFINE r == [w EXCEPT
                     !.pc = IF w.kind = "payout" THEN "logging" ELSE "done",
                     !.answer = IF w.kind = "payout" THEN "error" ELSE "none",
                     !.failed = w.kind # "payout",
                     !.dirty = FALSE, !.stored = broken, !.broken = broken]
    <3>3. Becomes(c, r) /\ r \in Call
      BY <2>1, <3>1, <3>2 DEF Call
    <3>4. CallInv(r, lastId, missed)
      BY <2>1, <3>2 DEF Call, CallInv, Kinds, Plain
    <3> HIDE DEF r
    <3> QED
      BY <1>0, <3>3, <3>4, OneCall
  <2>7. CASE Refresh(c)
    <3> DEFINE r == [w EXCEPT !.pc = "logging", !.answer = "result"]
    <3>1. Becomes(c, r) /\ r \in Call /\ CallInv(r, lastId, missed)
      BY <2>1, <2>7 DEF Refresh, Call, CallInv
    <3> HIDE DEF r
    <3> QED
      BY <1>0, <3>1, OneCall
  <2>8. CASE RefreshRaises(c)
    <3> DEFINE r == [w EXCEPT !.pc = "done", !.failed = TRUE]
    <3>1. Becomes(c, r) /\ r \in Call /\ CallInv(r, lastId, missed)
      BY <2>1, <2>8 DEF RefreshRaises, Call, CallInv, Plain
    <3> HIDE DEF r
    <3> QED
      BY <1>0, <3>1, OneCall
  <2> QED
    BY <1>2, <2>2, <2>3, <2>4, <2>5, <2>6, <2>7, <2>8 DEF Work
<1>3. ASSUME Return(c) PROVE LogInv'
  <2>1. Idle \in {Idle} \cup Call /\ CallInv(Idle, lastId, missed)
    BY DEF Idle, CallInv
  <2> QED
    BY <1>0, <1>3, <2>1, OneCall DEF Return
<1> QED
  BY <1>1, <1>2, <1>3

\* A round is missed by a call with a drawn id.
LEMMA MissedIds ==
  ASSUME LogInv, NEW c \in Calls, call[c].pc # "idle", MissRound(c)
  PROVE  missed \subseteq missed' /\ missed' \subseteq 1 .. lastId
<1>1. call[c].id \in Nat /\ call[c].id <= lastId /\ lastId \in Nat
  BY PcHolds DEF LogInv, TypeOK, CallInv, Call
<1>2. \A i \in {call[c].id} : i > 0 /\ Round(i) => i \in 1 .. lastId
  BY <1>1
<1>3. missed \subseteq 1 .. lastId
  BY DEF LogInv, TypeOK
<1> QED
  BY <1>2, <1>3 DEF MissRound

LEMMA InsertInv ==
  ASSUME LogInv, NEW c \in Calls, Insert(c)
  PROVE  LogInv'
<1> DEFINE r == [call[c] EXCEPT !.pc = "inserted", !.id = lastId + 1]
<1>1. call[c] \in Call /\ CallInv(call[c], lastId, missed) /\ call[c].pc = "logging"
      /\ lastId \in Nat
  BY PcHolds DEF Insert, LogInv, TypeOK
<1>2. Becomes(c, r)
  BY DEF Insert
<1>5. r \in Call
  <2>1. lastId + 1 \in Nat
    BY <1>1
  <2> QED
    BY <1>1, <2>1 DEF Call
<1>3. CallInv(r, lastId', missed')
  BY <1>1, ApiLogsAssumption DEF Insert, Call, CallInv
<1>4. rows' \subseteq 1 .. lastId' /\ swept' \subseteq 1 .. lastId' /\ missed' \subseteq 1 .. lastId'
      /\ lastId' = lastId + 1 /\ missed' = missed
  BY <1>1 DEF LogInv, TypeOK, Insert
<1> HIDE DEF r
<1> QED
  BY <1>1, <1>2, <1>3, <1>4, <1>5, OneCall

LEMMA InsertRaisesInv ==
  ASSUME LogInv, NEW c \in Calls, InsertRaises(c)
  PROVE  LogInv'
<1> DEFINE r == [call[c] EXCEPT !.pc = "done"]
<1>1. call[c] \in Call /\ CallInv(call[c], lastId, missed) /\ call[c].pc \in {"logging", "inserted"}
      /\ lastId \in Nat /\ lastId' = lastId
  BY PcHolds DEF InsertRaises, LogInv, TypeOK
<1>2. missed \subseteq missed' /\ missed' \subseteq 1 .. lastId
  BY <1>1, MissedIds DEF InsertRaises
<1>3. Becomes(c, r)
  BY DEF InsertRaises
<1>4. r \in Call
  BY <1>1 DEF Call
<1>5. CallInv(r, lastId', missed')
  BY <1>1, <1>2 DEF Call, CallInv
<1>6. call[c].id \in Nat /\ call[c].id <= lastId
  BY <1>1 DEF Call, CallInv
<1>7. rows' \subseteq 1 .. lastId'
  <2>1. rows \subseteq 1 .. lastId /\ ({call[c].id} \ {0}) \subseteq 1 .. lastId
    BY <1>1, <1>6 DEF LogInv, TypeOK
  <2> QED
    BY <1>1, <2>1 DEF InsertRaises
<1>8. swept' \subseteq 1 .. lastId'
  BY <1>1 DEF LogInv, TypeOK, InsertRaises
<1> HIDE DEF r
<1> QED
  BY <1>1, <1>2, <1>3, <1>4, <1>5, <1>7, <1>8, OneCall

LEMMA CommitRowInv ==
  ASSUME LogInv, NEW c \in Calls, CommitRow(c)
  PROVE  LogInv'
<1> DEFINE w == call[c]
           r == [w EXCEPT !.pc = IF Prunes(w.id) THEN "pruning" ELSE "done",
                          !.stored = w.stored \/ w.dirty, !.dirty = FALSE]
<1>1. w \in Call /\ CallInv(w, lastId, missed) /\ w.pc = "inserted"
      /\ lastId \in Nat /\ lastId' = lastId /\ missed' = missed /\ swept' = swept
  BY PcHolds DEF CommitRow, LogInv, TypeOK
<1>2. Becomes(c, r)
  BY DEF CommitRow
<1>3. r \in Call
  BY <1>1 DEF Call
<1>4. CallInv(r, lastId', missed')
  BY <1>1 DEF Call, CallInv
<1>5. rows' \subseteq 1 .. lastId' /\ swept' \subseteq 1 .. lastId' /\ missed' \subseteq 1 .. lastId'
  BY <1>1 DEF LogInv, TypeOK, CommitRow, CallInv, Call
<1> HIDE DEF r
<1> QED
  BY <1>1, <1>2, <1>3, <1>4, <1>5, OneCall

LEMMA DeleteInv ==
  ASSUME LogInv, NEW c \in Calls, Delete(c)
  PROVE  LogInv'
<1> DEFINE w == call[c]
           found == {i \in rows : i <= Cutoff(w.id)}
           r == [w EXCEPT !.pc = "deleting", !.victims = found]
<1>1. w \in Call /\ CallInv(w, lastId, missed) /\ w.pc = "pruning"
      /\ lastId \in Nat /\ UNCHANGED <<rows, lastId, swept, missed>> /\ rows \subseteq Nat
  BY PcHolds DEF Delete, LogInv, TypeOK, LogUnchanged
<1>2. Becomes(c, r)
  BY DEF Delete
<1>3. r \in Call
  <2>1. found \in SUBSET Nat
    BY <1>1
  <2> QED
    BY <1>1, <2>1 DEF Call
<1>4. \A i \in found : i + Retention <= w.id
  <2>1. w.id \in Nat /\ Retention \in Nat /\ \A i \in found : i \in Nat /\ i <= w.id - Retention
    BY <1>1, ApiLogsAssumption DEF Cutoff, Call
  <2> HIDE DEF w, found
  <2> QED
    BY <2>1
<1>5. CallInv(r, lastId', missed')
  BY <1>1, <1>4 DEF Call, CallInv
<1>6. rows' \subseteq 1 .. lastId' /\ swept' \subseteq 1 .. lastId' /\ missed' \subseteq 1 .. lastId'
  BY <1>1 DEF LogInv, TypeOK
<1> HIDE DEF r
<1> QED
  BY <1>1, <1>2, <1>3, <1>5, <1>6, OneCall

LEMMA CommitDeleteInv ==
  ASSUME LogInv, NEW c \in Calls, CommitDelete(c)
  PROVE  LogInv'
<1> DEFINE w == call[c]
           r == [w EXCEPT !.pc = "done", !.victims = {}]
<1>1. w \in Call /\ CallInv(w, lastId, missed) /\ w.pc = "deleting"
      /\ lastId \in Nat /\ lastId' = lastId /\ missed' = missed
  BY PcHolds DEF CommitDelete, LogInv, TypeOK
<1>2. Becomes(c, r)
  BY DEF CommitDelete
<1>3. r \in Call
  BY <1>1 DEF Call
<1>4. CallInv(r, lastId', missed')
  BY <1>1 DEF Call, CallInv
<1>5. w.id \in 1 .. lastId
  BY <1>1 DEF CallInv, Call
<1>6. rows' \subseteq 1 .. lastId' /\ swept' \subseteq 1 .. lastId' /\ missed' \subseteq 1 .. lastId'
  BY <1>1, <1>5 DEF LogInv, TypeOK, CommitDelete
<1> HIDE DEF r
<1> QED
  BY <1>1, <1>2, <1>3, <1>4, <1>6, OneCall

LEMMA PruneRaisesInv ==
  ASSUME LogInv, NEW c \in Calls, PruneRaises(c)
  PROVE  LogInv'
<1> DEFINE w == call[c]
           r == [w EXCEPT !.pc = "done", !.failed = TRUE, !.victims = {}]
<1>1. w \in Call /\ CallInv(w, lastId, missed) /\ w.pc \in {"pruning", "deleting"}
      /\ lastId \in Nat /\ lastId' = lastId /\ swept' = swept
  BY PcHolds DEF PruneRaises, LogInv, TypeOK
<1>2. missed \subseteq missed' /\ missed' \subseteq 1 .. lastId
  BY <1>1, MissedIds DEF PruneRaises
<1>3. Becomes(c, r)
  BY DEF PruneRaises
<1>4. r \in Call
  BY <1>1 DEF Call
<1>5. w.id \in missed' /\ w.id > Retention
  BY <1>1, ApiLogsAssumption DEF CallInv, Prunes, PruneRaises, MissRound, Call
<1>6. CallInv(r, lastId', missed')
  BY <1>1, <1>5 DEF Call, CallInv
<1>7. rows' \subseteq 1 .. lastId' /\ swept' \subseteq 1 .. lastId'
  BY <1>1 DEF LogInv, TypeOK, PruneRaises
<1> HIDE DEF r
<1> QED
  BY <1>1, <1>2, <1>3, <1>4, <1>6, <1>7, OneCall

LEMMA DieInv ==
  ASSUME LogInv, NEW c \in Calls, Die(c)
  PROVE  LogInv'
<1>1. missed \subseteq missed' /\ missed' \subseteq 1 .. lastId
  BY MissedIds DEF Die
<1>2. CallInv(Idle, lastId', missed')
  BY DEF Idle, CallInv
<1>3. rows' \subseteq 1 .. lastId' /\ swept' \subseteq 1 .. lastId' /\ lastId' = lastId /\ lastId \in Nat
  BY DEF LogInv, TypeOK, Die
<1> QED
  BY <1>1, <1>2, <1>3, OneCall DEF Die

LEMMA StepInv == LogInv /\ [Next]_vars => LogInv'
<1> SUFFICES ASSUME LogInv, [Next]_vars PROVE LogInv'
  OBVIOUS
<1>1. CASE UNCHANGED vars
  BY <1>1 DEF vars, LogInv, TypeOK, CallInv
<1>2. ASSUME NEW c \in Calls,
             (\E k \in Kinds : Begin(c, k)) \/ Work(c) \/ LogApiCall(c) \/ Return(c) \/ Die(c)
      PROVE  LogInv'
  BY <1>2, WorkInv, InsertInv, InsertRaisesInv, CommitRowInv, DeleteInv, CommitDeleteInv,
     PruneRaisesInv, DieInv DEF LogApiCall
<1> QED
  BY <1>1, <1>2 DEF Next

LEMMA LogInvHolds == Spec => []LogInv
BY InitInv, StepInv, PTL DEF Spec

-----------------------------------------------------------------------------
\* Type correctness of the table, its sequence and the calls, for any number of calls.
THEOREM LogTypeCorrect == Spec => []TypeOK
<1>1. LogInv => TypeOK
  BY DEF LogInv
<1> QED
  BY <1>1, LogInvHolds, PTL

\* _handle answers -100 only for calls that changed nothing, though the log is
\* committed in their session afterwards.
THEOREM ErrorsChangeNothing == Spec => []ErrorChangesNothing
<1>1. LogInv => ErrorChangesNothing
  BY PcHolds DEF ErrorChangesNothing, CallInv
<1> QED
  BY <1>1, LogInvHolds, PTL

\* Of what follows the answer only a round of pruning can fail a call, and what precedes
\* it never fails a payout call.
THEOREM LogFailsByPruningOnly == Spec => []FailsOnlyByPruning
<1>1. LogInv => FailsOnlyByPruning
  BY PcHolds DEF FailsOnlyByPruning, CallInv
<1> QED
  BY <1>1, LogInvHolds, PTL

\* _maybe_prune never takes one of the newest RETENTION ids, however late it runs.
THEOREM NewestRowsKept == Spec => NewestKept
<1>1. LogInv /\ [Next]_vars => [\A i \in rows : i + Retention > lastId => i \in rows']_vars
  <2> SUFFICES ASSUME LogInv, [Next]_vars, NEW i \in rows, i \notin rows'
               PROVE  ~(i + Retention > lastId)
    BY DEF vars
  <2>1. PICK c \in Calls : call[c].pc \in {"pruning", "deleting"} /\ i \in call[c].victims
    BY DEF Next, vars, Begin, Work, Change, CommitWork, Refresh, RefreshRaises, NothingToDo,
           UnknownPayment, WorkRaises,
           LogApiCall, Insert, InsertRaises, CommitRow, Delete, CommitDelete, PruneRaises,
           Return, Die, LogUnchanged
  <2>2. call[c] \in Call /\ CallInv(call[c], lastId, missed)
    BY <2>1, PcHolds
  <2>3. i + Retention <= call[c].id /\ call[c].id <= lastId
    BY <2>1, <2>2 DEF CallInv
  <2>4. i \in Nat /\ call[c].id \in Nat /\ lastId \in Nat
    BY <2>2 DEF LogInv, TypeOK, Call
  <2> QED
    BY <2>3, <2>4, ApiLogsAssumption
<1> QED
  BY <1>1, LogInvHolds, PTL DEF Spec, NewestKept

-----------------------------------------------------------------------------
(***************************************************************************)
(* The bound of the table.  Its rows are counted in two parts: what is     *)
(* above the cutoff of the last round that pruned, an interval of ids, and *)
(* the stragglers below it, of which each other call in flight can have    *)
(* brought one.  The length of the interval is counted in rounds: each of  *)
(* them was missed or is on its way.                                       *)
(***************************************************************************)

\* Division by PRUNE_EVERY and products with it.
LEMMA DivMod ==
  ASSUME NEW P \in Nat \ {0}, NEW n \in Nat
  PROVE  n \div P \in Nat /\ n % P \in 0 .. P - 1 /\ n = P * (n \div P) + (n % P)
OBVIOUS

LEMMA ProductGrows ==
  ASSUME NEW P \in Nat \ {0}, NEW a \in Nat, NEW b \in Nat, a <= b
  PROVE  P * a <= P * b
OBVIOUS

LEMMA ProductOfSum ==
  ASSUME NEW P \in Nat \ {0}, NEW a \in Nat, NEW b \in Nat
  PROVE  P * (a + b) = P * a + P * b
OBVIOUS

LEMMA Multiples ==
  ASSUME NEW P \in Nat \ {0}, NEW q \in Nat
  PROVE  (P * q) % P = 0
OBVIOUS

\* A set that holds every multiple of P above b, up to n, has one for each P ids.
LEMMA RoundsBetween ==
  ASSUME NEW P \in Nat \ {0}, NEW b \in Nat, NEW n \in Nat, b <= n, NEW O, IsFiniteSet(O),
         \A i \in b + 1 .. n : i % P = 0 => i \in O
  PROVE  n - b <= P * Cardinality(O) + P - 1
<1> DEFINE q == (n \div P) - (b \div P)
           f == [j \in 1 .. q |-> P * ((b \div P) + j)]
<1>1. /\ n \div P \in Nat /\ b \div P \in Nat /\ n % P \in 0 .. P - 1 /\ b % P \in 0 .. P - 1
      /\ n = P * (n \div P) + (n % P) /\ b = P * (b \div P) + (b % P)
  BY DivMod
<1>2. Cardinality(O) \in Nat
  BY FS_CardinalityType
<1>3. q <= Cardinality(O)
  <2>1. CASE q <= 0
    BY <1>1, <1>2, <2>1
  <2>2. CASE q > 0
    <3>1. \A j \in 1 .. q : f[j] \in O
      <4> SUFFICES ASSUME NEW j \in 1 .. q PROVE P * ((b \div P) + j) \in O
        OBVIOUS
      <4>1. (b \div P) + j \in Nat /\ (b \div P) + 1 <= (b \div P) + j /\ (b \div P) + j <= n \div P
        BY <1>1
      <4>2. P * ((b \div P) + j) <= P * (n \div P) /\ P * ((b \div P) + 1) <= P * ((b \div P) + j)
        BY <4>1, <1>1, ProductGrows
      <4>3. P * ((b \div P) + 1) = P * (b \div P) + P * 1
        BY <1>1, ProductOfSum
      <4>4. P * ((b \div P) + j) \in Nat /\ (P * ((b \div P) + j)) % P = 0
        BY <4>1, Multiples
      <4>5. P * (b \div P) \in Nat /\ P * (n \div P) \in Nat
        BY <1>1
      <4>6. P * ((b \div P) + j) \in b + 1 .. n
        BY <1>1, <4>2, <4>3, <4>4, <4>5
      <4> QED
        BY <4>4, <4>6
    <3>2. ASSUME NEW i \in 1 .. q, NEW j \in 1 .. q, i < j PROVE f[i] # f[j]
      <4>1. (b \div P) + i + 1 <= (b \div P) + j /\ (b \div P) + i \in Nat /\ (b \div P) + j \in Nat
        BY <1>1, <3>2
      <4>2. P * ((b \div P) + i + 1) <= P * ((b \div P) + j)
        BY <4>1, ProductGrows
      <4>3. P * ((b \div P) + i + 1) = P * ((b \div P) + i) + P * 1
        BY <4>1, ProductOfSum
      <4>4. P * ((b \div P) + i) \in Nat /\ P * ((b \div P) + j) \in Nat
        BY <4>1
      <4> QED
        BY <4>2, <4>3, <4>4
    <3>3. f \in Injection(1 .. q, O)
      <4>1. q \in Int /\ \A i, j \in 1 .. q : i = j \/ i < j \/ j < i
        BY <1>1
      <4> HIDE DEF f
      <4>2. \A i, j \in 1 .. q : f[i] = f[j] => i = j
        BY <3>2, <4>1
      <4>3. f \in [1 .. q -> O]
        BY <3>1 DEF f
      <4> QED
        BY <4>2, <4>3 DEF Injection, IsInjective
    <3>4. Cardinality(1 .. q) <= Cardinality(O)
      BY <3>3, FS_Injection
    <3>5. q \in Int /\ Cardinality(1 .. q) = q
      BY <1>1, <2>2, FS_Interval
    <3> QED
      BY <3>4, <3>5
  <2> QED
    BY <1>1, <2>1, <2>2
<1>4. P * (n \div P) <= P * (b \div P) + P * Cardinality(O)
  <2>1. n \div P <= (b \div P) + Cardinality(O) /\ (b \div P) + Cardinality(O) \in Nat
    BY <1>1, <1>2, <1>3
  <2> QED
    BY <1>1, <1>2, <2>1, ProductGrows, ProductOfSum
<1>5. P * (n \div P) \in Nat /\ P * (b \div P) \in Nat /\ P * Cardinality(O) \in Nat
  BY <1>1, <1>2
<1> QED
  BY <1>1, <1>4, <1>5

\* What the DELETE of a round with cutoff k leaves below it, in a table with calls: rows
\* it does not find, and the ids of INSERTs that are not committed.
Late(table, calls, k, found) ==
  ({i \in table : i + Retention <= k} \ found)
    \cup {calls[c].id : c \in {d \in Calls : /\ calls[d].pc = "inserted"
                                             /\ calls[d].id + Retention <= k}}

\* Every round is accounted for, there is a last one that pruned, and the DELETE of a
\* round leaves less stragglers than there are calls.
BoundInv ==
  /\ rows # {} => Calls # {}
  /\ \A i \in 1 .. lastId : Prunes(i) => i \in swept \cup missed \cup InProgress
  /\ \A s \in swept : Prunes(s)
  /\ swept # {} => \E m \in swept : \A s \in swept : s <= m
  /\ \A s \in swept : Cardinality(Late(rows, call, s, {})) < Cardinality(Calls)
  /\ \A c \in Calls :
       call[c].pc = "deleting" =>
         Cardinality(Late(rows, call, call[c].id, call[c].victims)) < Cardinality(Calls)

\* The states of a call whose id is drawn and whose round is not over.
OnItsWay == {"inserted", "pruning", "deleting"}

\* What a step of c does to the table, the rounds and the calls.
Moves(c) ==
  /\ \A d \in Calls : d # c => call'[d] = call[d]
  /\ rows' \subseteq rows \cup {i \in {call[c].id} : call[c].pc = "inserted"}
  /\ \/ lastId' = lastId /\ call'[c].pc # "inserted"
     \/ lastId' = lastId + 1 /\ call'[c].pc = "inserted" /\ call'[c].id = lastId + 1
        /\ call[c].pc = "logging"
  /\ \/ swept' = swept
     \/ /\ call[c].pc = "deleting"
        /\ swept' = swept \cup {call[c].id}
        /\ rows' = rows \ call[c].victims
  /\ call'[c].pc = "deleting" =>
       /\ call[c].pc = "pruning"
       /\ rows' = rows
       /\ call'[c].id = call[c].id
       /\ call'[c].victims = {i \in rows : i <= Cutoff(call[c].id)}
  /\ missed \subseteq missed'
  /\ call[c].pc \in OnItsWay /\ Prunes(call[c].id) =>
       \/ call[c].id \in swept' \cup missed'
       \/ call'[c].pc \in OnItsWay /\ call'[c].id = call[c].id

LEMMA Became ==
  ASSUME LogInv, NEW c \in Calls, NEW r, Becomes(c, r)
  PROVE  call'[c] = r /\ \A d \in Calls : d # c => call'[d] = call[d]
BY DEF LogInv, TypeOK, Becomes

LEMMA StepMoves ==
  ASSUME LogInv, NEW c \in Calls,
         (\E k \in Kinds : Begin(c, k)) \/ Work(c) \/ LogApiCall(c) \/ Return(c) \/ Die(c)
  PROVE  Moves(c)
<1> DEFINE w == call[c]
<1>0. w.pc # "idle" => w \in Call /\ CallInv(w, lastId, missed)
  BY PcHolds
<1>1. ASSUME NEW k \in Kinds, Begin(c, k) PROVE Moves(c)
  <2> DEFINE r == [pc |-> IF k = "invalid" THEN "logging" ELSE "working", kind |-> k,
                   dirty |-> FALSE, stored |-> FALSE, broken |-> FALSE,
                   answer |-> IF k = "invalid" THEN "error" ELSE "none",
                   failed |-> FALSE, id |-> 0, victims |-> {}]
  <2>1. Becomes(c, r) /\ r.pc \notin OnItsWay /\ w.pc \notin OnItsWay
    BY <1>1 DEF Begin, OnItsWay
  <2> HIDE DEF r
  <2> QED
    BY <1>1, <2>1, Became DEF Begin, LogUnchanged, Moves, OnItsWay
<1>2. CASE Work(c)
  <2>1. w \in Call /\ w.pc \in {"working", "refreshing"}
    BY <1>0, <1>2 DEF Work, Change, CommitWork, Refresh, RefreshRaises, NothingToDo,
       UnknownPayment, WorkRaises
  <2>2. PICK r : Becomes(c, r) /\ r.pc \notin OnItsWay
    <3>1. CASE Change(c)
      <4>1. Becomes(c, [w EXCEPT !.dirty = TRUE]) /\ [w EXCEPT !.dirty = TRUE].pc = w.pc
        BY <2>1, <3>1 DEF Change, Call
      <4> QED
        BY <2>1, <4>1 DEF OnItsWay
    <3>2. CASE CommitWork(c)
      <4> DEFINE s == [w EXCEPT !.pc = IF w.kind = "pay" THEN "refreshing" ELSE "logging",
                                !.answer = IF w.kind = "pay" THEN "none" ELSE "result",
                                !.dirty = FALSE, !.stored = TRUE]
      <4>1. Becomes(c, s) /\ s.pc \in {"refreshing", "logging"}
        BY <2>1, <3>2 DEF CommitWork, Call
      <4> QED
        BY <4>1 DEF OnItsWay
    <3>3. CASE NothingToDo(c)
      <4> DEFINE s == [w EXCEPT !.pc = "logging", !.answer = "result"]
      <4>1. Becomes(c, s) /\ s.pc = "logging"
        BY <2>1, <3>3 DEF NothingToDo, Call
      <4> QED
        BY <4>1 DEF OnItsWay
    <3>4. CASE UnknownPayment(c)
      <4> DEFINE s == [w EXCEPT !.pc = "done", !.answer = "result"]
      <4>1. Becomes(c, s) /\ s.pc = "done"
        BY <2>1, <3>4 DEF UnknownPayment, Call
      <4> QED
        BY <4>1 DEF OnItsWay
    <3>5. CASE WorkRaises(c)
      <4>1. PICK broken \in {FALSE, w.dirty} :
              Becomes(c, [w EXCEPT
                       !.pc = IF w.kind = "payout" THEN "logging" ELSE "done",
                       !.answer = IF w.kind = "payout" THEN "error" ELSE "none",
                       !.failed = w.kind # "payout",
                       !.dirty = FALSE, !.stored = broken, !.broken = broken])
        BY <3>5 DEF WorkRaises
      <4> DEFINE s == [w EXCEPT
                       !.pc = IF w.kind = "payout" THEN "logging" ELSE "done",
                       !.answer = IF w.kind = "payout" THEN "error" ELSE "none",
                       !.failed = w.kind # "payout",
                       !.dirty = FALSE, !.stored = broken, !.broken = broken]
      <4>2. s.pc \in {"logging", "done"}
        BY <2>1 DEF Call
      <4> QED
        BY <4>1, <4>2 DEF OnItsWay
    <3>6. CASE Refresh(c)
      <4> DEFINE s == [w EXCEPT !.pc = "logging", !.answer = "result"]
      <4>1. Becomes(c, s) /\ s.pc = "logging"
        BY <2>1, <3>6 DEF Refresh, Call
      <4> QED
        BY <4>1 DEF OnItsWay
    <3>7. CASE RefreshRaises(c)
      <4> DEFINE s == [w EXCEPT !.pc = "done", !.failed = TRUE]
      <4>1. Becomes(c, s) /\ s.pc = "done"
        BY <2>1, <3>7 DEF RefreshRaises, Call
      <4> QED
        BY <4>1 DEF OnItsWay
    <3> QED
      BY <1>2, <3>1, <3>2, <3>3, <3>4, <3>5, <3>6, <3>7 DEF Work
  <2>3. UNCHANGED <<rows, lastId, swept, missed>>
    BY <1>2 DEF Work, Change, CommitWork, Refresh, RefreshRaises, NothingToDo,
       UnknownPayment, WorkRaises, LogUnchanged
  <2> QED
    BY <2>1, <2>2, <2>3, Became DEF Moves, OnItsWay
<1>3. CASE Insert(c)
  <2> DEFINE r == [w EXCEPT !.pc = "inserted", !.id = lastId + 1]
  <2>1. Becomes(c, r) /\ w.pc = "logging" /\ w \in Call
    BY <1>0, <1>3 DEF Insert
  <2>2. r.pc = "inserted" /\ r.id = lastId + 1
    BY <2>1 DEF Call
  <2> HIDE DEF r
  <2> QED
    BY <1>3, <2>1, <2>2, Became DEF Insert, Moves, OnItsWay
<1>4. CASE InsertRaises(c)
  <2> DEFINE r == [w EXCEPT !.pc = "done"]
  <2>1. /\ Becomes(c, r) /\ w \in Call /\ w.pc \in {"logging", "inserted"}
        /\ CallInv(w, lastId, missed) /\ MissRound(c) /\ UNCHANGED <<lastId, swept>>
    BY <1>0, <1>4 DEF InsertRaises
  <2>2. r.pc = "done"
    BY <2>1 DEF Call
  <2> HIDE DEF r
  <2>3. rows' \subseteq rows \cup {i \in {w.id} : w.pc = "inserted"}
    <3>1. w.pc = "logging" => w.id = 0
      BY <2>1 DEF CallInv
    <3> QED
      BY <1>4, <2>1, <3>1 DEF InsertRaises
  <2>4. w.pc \in OnItsWay /\ Prunes(w.id) => w.id \in missed'
    BY <2>1 DEF MissRound, CallInv, OnItsWay, Prunes
  <2> QED
    BY <2>1, <2>2, <2>3, <2>4, Became DEF Moves, MissRound
<1>5. CASE CommitRow(c)
  <2> DEFINE r == [w EXCEPT !.pc = IF Prunes(w.id) THEN "pruning" ELSE "done",
                            !.stored = w.stored \/ w.dirty, !.dirty = FALSE]
  <2>1. Becomes(c, r) /\ w.pc = "inserted" /\ w \in Call
    BY <1>0, <1>5 DEF CommitRow
  <2>2. r.pc = (IF Prunes(w.id) THEN "pruning" ELSE "done") /\ r.id = w.id
    BY <2>1 DEF Call
  <2> HIDE DEF r
  <2> QED
    BY <1>5, <2>1, <2>2, Became DEF CommitRow, Moves, OnItsWay
<1>6. CASE Delete(c)
  <2> DEFINE found == {i \in rows : i <= Cutoff(w.id)}
             r == [w EXCEPT !.pc = "deleting", !.victims = found]
  <2>1. Becomes(c, r) /\ w.pc = "pruning" /\ w \in Call
    BY <1>0, <1>6 DEF Delete
  <2>2. r.pc = "deleting" /\ r.id = w.id /\ r.victims = found
    BY <2>1 DEF Call
  <2> HIDE DEF r
  <2> QED
    BY <1>6, <2>1, <2>2, Became DEF Delete, LogUnchanged, Moves, OnItsWay
<1>7. CASE CommitDelete(c)
  <2> DEFINE r == [w EXCEPT !.pc = "done", !.victims = {}]
  <2>1. Becomes(c, r) /\ w.pc = "deleting" /\ w \in Call
    BY <1>0, <1>7 DEF CommitDelete
  <2>2. r.pc = "done"
    BY <2>1 DEF Call
  <2> HIDE DEF r
  <2> QED
    BY <1>7, <2>1, <2>2, Became DEF CommitDelete, Moves, OnItsWay
<1>8. CASE PruneRaises(c)
  <2> DEFINE r == [w EXCEPT !.pc = "done", !.failed = TRUE, !.victims = {}]
  <2>1. Becomes(c, r) /\ w.pc \in {"pruning", "deleting"} /\ w \in Call /\ CallInv(w, lastId, missed)
    BY <1>0, <1>8 DEF PruneRaises
  <2>2. r.pc = "done"
    BY <2>1 DEF Call
  <2>3. w.id \in missed'
    BY <1>8, <2>1 DEF PruneRaises, MissRound, CallInv, Prunes
  <2> HIDE DEF r
  <2> QED
    BY <1>8, <2>1, <2>2, <2>3, Became DEF PruneRaises, MissRound, Moves
<1>9. CASE Return(c)
  <2>1. Becomes(c, Idle) /\ Idle.pc \notin OnItsWay /\ w.pc \notin OnItsWay
    BY <1>9 DEF Return, Idle, OnItsWay
  <2> QED
    BY <1>9, <2>1, Became DEF Return, LogUnchanged, Moves, OnItsWay
<1>10. CASE Die(c)
  <2>1. Becomes(c, Idle) /\ Idle.pc \notin OnItsWay /\ CallInv(w, lastId, missed)
    BY <1>0, <1>10 DEF Die, Idle, OnItsWay
  <2>2. w.pc \in OnItsWay /\ Prunes(w.id) => w.id \in missed'
    BY <1>10, <2>1 DEF Die, MissRound, CallInv, OnItsWay, Prunes
  <2> QED
    BY <1>10, <2>1, <2>2, Became DEF Die, MissRound, Moves, OnItsWay
<1> QED
  BY <1>1, <1>2, <1>3, <1>4, <1>5, <1>6, <1>7, <1>8, <1>9, <1>10 DEF LogApiCall

\* Stragglers only become less: the ids drawn from now on are above every cutoff.
LEMMA LateShrinks ==
  ASSUME LogInv, NEW c \in Calls, Moves(c), NEW k \in Nat, k <= lastId, NEW found,
         rows' \subseteq 1 .. lastId'
  PROVE  Late(rows', call', k, found) \subseteq Late(rows, call, k, found)
<1> SUFFICES ASSUME NEW x \in Late(rows', call', k, found) PROVE x \in Late(rows, call, k, found)
  OBVIOUS
<1>1. CASE x \in {i \in rows' : i + Retention <= k} \ found
  <2>1. CASE x \in rows
    BY <1>1, <2>1 DEF Late
  <2>2. CASE x \notin rows
    BY <1>1, <2>2 DEF Late, Moves
  <2> QED
    BY <2>1, <2>2
<1>2. ASSUME NEW d \in Calls, call'[d].pc = "inserted", x = call'[d].id, x + Retention <= k
      PROVE  x \in Late(rows, call, k, found)
  <2>1. CASE d = c
    BY <1>2, <2>1, ApiLogsAssumption DEF Moves, LogInv, TypeOK
  <2>2. CASE d # c
    BY <1>2, <2>2 DEF Moves, Late
  <2> QED
    BY <2>1, <2>2
<1> QED
  BY <1>1, <1>2 DEF Late

LEMMA FiniteLate ==
  ASSUME LogInv, NEW k \in Nat, NEW found, IsFiniteSet(Calls)
  PROVE  /\ IsFiniteSet(Late(rows, call, k, found))
         /\ Late(rows, call, k, found) \subseteq 1 .. lastId
<1>1. lastId \in Nat /\ rows \subseteq 1 .. lastId
  BY DEF LogInv, TypeOK
<1>2. \A c \in Calls : call[c].pc = "inserted" => call[c].id \in 1 .. lastId
  BY <1>1, PcHolds DEF CallInv, Call
<1>3. Late(rows, call, k, found) \subseteq 1 .. lastId
  BY <1>1, <1>2 DEF Late
<1>4. IsFiniteSet(1 .. lastId)
  BY <1>1, FS_Interval
<1> QED
  BY <1>3, <1>4, FS_Subset

\* When c issues its DELETE, the others alone can bring stragglers: one each.
LEMMA OneLateEach ==
  ASSUME LogInv, NEW c \in Calls, call[c].pc # "inserted", NEW k \in Nat, IsFiniteSet(Calls)
  PROVE  Cardinality(Late(rows, call, k, {i \in rows : i + Retention <= k})) < Cardinality(Calls)
<1> DEFINE others == {d \in Calls : call[d].pc = "inserted" /\ call[d].id + Retention <= k}
           ids == {call[d].id : d \in others}
           f == [d \in others |-> call[d].id]
<1>1. Late(rows, call, k, {i \in rows : i + Retention <= k}) = ids
  BY DEF Late
<1>2. others \subseteq Calls \ {c}
  OBVIOUS
<1>3. IsFiniteSet(Calls \ {c}) /\ Cardinality(Calls \ {c}) = Cardinality(Calls) - 1
      /\ Cardinality(Calls) \in Nat
  BY FS_RemoveElement, FS_CardinalityType
<1>4. IsFiniteSet(others) /\ Cardinality(others) <= Cardinality(Calls \ {c})
  BY <1>2, <1>3, FS_Subset
<1>5. f \in Surjection(others, ids)
  BY DEF Surjection
<1>6. IsFiniteSet(ids) /\ Cardinality(ids) <= Cardinality(others)
  BY <1>4, <1>5, FS_Surjection
<1>7. Cardinality(ids) \in Nat /\ Cardinality(others) \in Nat
  BY <1>4, <1>6, FS_CardinalityType
<1> HIDE DEF others, ids, f
<1>8. Cardinality(ids) < Cardinality(Calls)
  BY <1>3, <1>4, <1>6, <1>7
<1> QED
  BY <1>1, <1>8

LEMMA BoundStep ==
  ASSUME LogInv, BoundInv, LogInv', [Next]_vars, IsFiniteSet(Calls)
  PROVE  BoundInv'
<1>1. CASE UNCHANGED vars
  <2>1. UNCHANGED <<rows, lastId, call, swept, missed>>
    BY <1>1 DEF vars
  <2>2. InProgress' = InProgress
    BY <2>1 DEF InProgress
  <2> QED
    BY <2>1, <2>2 DEF BoundInv
<1>2. ASSUME NEW c \in Calls, Moves(c) PROVE BoundInv'
  <2>1. lastId \in Nat /\ lastId' \in Nat /\ lastId <= lastId' /\ rows' \subseteq 1 .. lastId'
        /\ swept \subseteq 1 .. lastId /\ swept' \subseteq 1 .. lastId'
    BY <1>2 DEF LogInv, TypeOK, Moves
  <2>2. call[c].pc # "idle" => call[c] \in Call /\ CallInv(call[c], lastId, missed)
    BY PcHolds
  <2>3. ASSUME NEW i \in 1 .. lastId', Prunes(i)
        PROVE  i \in swept' \cup missed' \cup InProgress'
    <3>1. CASE i \in swept \cup missed
      BY <1>2, <3>1 DEF Moves
    <3>2. CASE i \notin 1 .. lastId
      <4>1. call'[c].pc \in OnItsWay /\ call'[c].id = i
        BY <1>2, <2>1, <3>2 DEF Moves, OnItsWay
      <4> QED
        BY <4>1 DEF InProgress, OnItsWay
    <3>3. CASE i \in 1 .. lastId /\ i \notin swept \cup missed
      <4>1. PICK d \in Calls : call[d].pc \in OnItsWay /\ call[d].id = i
        BY <2>3, <3>3 DEF BoundInv, InProgress, OnItsWay
      <4>2. CASE d = c
        BY <1>2, <2>3, <4>1, <4>2 DEF Moves, InProgress, OnItsWay
      <4>3. CASE d # c
        BY <1>2, <4>1, <4>3 DEF Moves, InProgress, OnItsWay
      <4> QED
        BY <4>2, <4>3
    <3> QED
      BY <3>1, <3>2, <3>3
  <2>4. \A s \in swept' : Prunes(s)
    BY <1>2, <2>2 DEF BoundInv, Moves, CallInv
  <2>5. swept' # {} => \E m \in swept' : \A s \in swept' : s <= m
    <3>1. CASE swept' = swept
      BY <3>1 DEF BoundInv
    <3>2. CASE swept' = swept \cup {call[c].id}
      <4>1. call[c].id \in Nat /\ swept \subseteq Nat
        BY <2>1, <3>2
      <4>2. CASE swept = {}
        BY <3>2, <4>1, <4>2
      <4>3. CASE swept # {}
        <5>1. PICK m \in swept : \A s \in swept : s <= m
          BY <4>3 DEF BoundInv
        <5> QED
          BY <3>2, <4>1, <5>1
      <4> QED
        BY <4>2, <4>3
    <3> QED
      BY <1>2, <3>1, <3>2 DEF Moves
  <2>6. ASSUME NEW k \in Nat, k <= lastId, NEW found,
               Cardinality(Late(rows, call, k, found)) < Cardinality(Calls)
        PROVE  Cardinality(Late(rows', call', k, found)) < Cardinality(Calls)
    <3>1. Late(rows', call', k, found) \subseteq Late(rows, call, k, found)
      BY <1>2, <2>1, <2>6, LateShrinks
    <3>2. IsFiniteSet(Late(rows, call, k, found))
      BY FiniteLate
    <3>3. IsFiniteSet(Late(rows', call', k, found))
          /\ Cardinality(Late(rows', call', k, found)) <= Cardinality(Late(rows, call, k, found))
      BY <3>1, <3>2, FS_Subset
    <3>4. Cardinality(Late(rows, call, k, found)) \in Nat /\ Cardinality(Calls) \in Nat
          /\ Cardinality(Late(rows', call', k, found)) \in Nat
      BY <3>2, <3>3, FS_CardinalityType
    <3> QED
      BY <2>6, <3>3, <3>4
  <2>7. ASSUME NEW s \in swept' PROVE Cardinality(Late(rows', call', s, {})) < Cardinality(Calls)
    <3>1. CASE s \in swept
      BY <2>1, <2>6, <3>1 DEF BoundInv
    <3>2. CASE s \notin swept
      <4>1. call[c].pc = "deleting" /\ s = call[c].id /\ rows' = rows \ call[c].victims
        BY <1>2, <3>2 DEF Moves
      <4>2. s \in Nat /\ s <= lastId
        BY <2>2, <4>1 DEF Call, CallInv
      <4>3. Cardinality(Late(rows', call', s, call[c].victims)) < Cardinality(Calls)
        BY <2>6, <4>1, <4>2 DEF BoundInv
      <4>4. Late(rows', call', s, call[c].victims) = Late(rows', call', s, {})
        BY <4>1 DEF Late
      <4> QED
        BY <4>3, <4>4
    <3> QED
      BY <3>1, <3>2
  <2>8. ASSUME NEW d \in Calls, call'[d].pc = "deleting"
        PROVE  Cardinality(Late(rows', call', call'[d].id, call'[d].victims)) < Cardinality(Calls)
    <3>1. CASE d # c
      <4>1. call'[d] = call[d] /\ call[d].pc = "deleting"
        BY <1>2, <2>8, <3>1 DEF Moves
      <4>2. call[d].id \in Nat /\ call[d].id <= lastId
        BY <4>1, PcHolds DEF Call, CallInv
      <4>3. Cardinality(Late(rows, call, call[d].id, call[d].victims)) < Cardinality(Calls)
        BY <4>1 DEF BoundInv
      <4> QED
        BY <2>6, <4>1, <4>2, <4>3
    <3>2. CASE d = c
      <4> DEFINE k == call[c].id
                 found == {i \in rows : i + Retention <= k}
      <4>1. /\ call[c].pc = "pruning" /\ rows' = rows /\ call'[d].id = k
            /\ call'[d].victims = {i \in rows : i <= Cutoff(k)}
        BY <1>2, <2>8, <3>2 DEF Moves
      <4>2. k \in Nat /\ k <= lastId
        BY <2>2, <4>1 DEF Call, CallInv
      <4>3. call'[d].victims = found
        <5>1. k \in Nat /\ rows \subseteq Nat /\ Retention \in Nat
          BY <4>2, ApiLogsAssumption DEF LogInv, TypeOK
        <5> HIDE DEF k
        <5>2. \A i \in rows : i <= k - Retention <=> i + Retention <= k
          BY <5>1
        <5> QED
          BY <4>1, <5>2 DEF Cutoff
      <4>4. Cardinality(Late(rows, call, k, found)) < Cardinality(Calls)
        BY <4>1, <4>2, OneLateEach
      <4>5. Cardinality(Late(rows', call', k, found)) < Cardinality(Calls)
        BY <2>6, <4>2, <4>4
      <4> QED
        BY <4>1, <4>3, <4>5
    <3> QED
      BY <3>1, <3>2
  <2> QED
    BY <2>3, <2>4, <2>5, <2>7, <2>8 DEF BoundInv
<1> QED
  BY <1>1, <1>2, StepMoves DEF Next

LEMMA BoundInvHolds == IsFiniteSet(Calls) => (Spec => []BoundInv)
<1> SUFFICES ASSUME IsFiniteSet(Calls) PROVE Spec => []BoundInv
  OBVIOUS
<1>1. Init => BoundInv
  BY DEF Init, BoundInv, Idle
<1>2. LogInv /\ LogInv' /\ BoundInv /\ [Next]_vars => BoundInv'
  BY BoundStep
<1> QED
  BY <1>1, <1>2, LogInvHolds, PTL DEF Spec

LEMMA BoundFollows ==
  ASSUME LogInv, BoundInv, IsFiniteSet(Calls)
  PROVE  TableBounded
<1> DEFINE out == PruneEvery * Cardinality(Outstanding)
<1>1. /\ lastId \in Nat /\ rows \subseteq 1 .. lastId /\ missed \subseteq 1 .. lastId
      /\ swept \subseteq 1 .. lastId
  BY DEF LogInv, TypeOK
<1>2. IsFiniteSet(Outstanding) /\ Cardinality(Outstanding) \in Nat
  <2>1. InProgress \subseteq 1 .. lastId
    BY <1>1, PcHolds DEF InProgress, CallInv, Call
  <2>2. IsFiniteSet(1 .. lastId)
    BY <1>1, FS_Interval
  <2>3. Outstanding \subseteq 1 .. lastId
    BY <1>1, <2>1 DEF Outstanding
  <2> QED
    BY <2>2, <2>3, FS_Subset, FS_CardinalityType
<1>3. /\ IsFiniteSet(rows) /\ Cardinality(rows) \in Nat /\ Cardinality(rows) <= lastId
      /\ Cardinality(Calls) \in Nat /\ (rows # {} => Cardinality(Calls) >= 1)
  <2>1. IsFiniteSet(1 .. lastId) /\ Cardinality(1 .. lastId) = lastId
    BY <1>1, FS_Interval
  <2>2. Cardinality(Calls) \in Nat /\ (Cardinality(Calls) = 0 => Calls = {})
    BY FS_CardinalityType, FS_EmptySet
  <2>3. IsFiniteSet(rows) /\ Cardinality(rows) <= Cardinality(1 .. lastId)
    BY <1>1, <2>1, FS_Subset
  <2> QED
    BY <2>1, <2>2, <2>3, FS_CardinalityType DEF BoundInv
<1>4. out \in Nat /\ PruneEvery * (Cardinality(Outstanding) + 1) = out + PruneEvery
  BY <1>2, ApiLogsAssumption, ProductOfSum
<1>5. ASSUME NEW b \in Nat, b <= lastId, b >= Retention, LastSwept \in Nat, b >= LastSwept,
             \A i \in b + 1 .. lastId : i \notin swept
      PROVE  lastId - b <= out + PruneEvery - 1
  <2>1. ASSUME NEW i \in b + 1 .. lastId, i % PruneEvery = 0 PROVE i \in Outstanding
    <3>1. Prunes(i) /\ i \in 1 .. lastId /\ i > LastSwept
      BY <1>1, <1>5, <2>1, ApiLogsAssumption DEF Prunes, Round
    <3>2. i \in missed \cup InProgress
      BY <1>5, <2>1, <3>1 DEF BoundInv
    <3> QED
      BY <3>1, <3>2 DEF Outstanding, Prunes
  <2> QED
    BY <1>1, <1>2, <1>5, <2>1, ApiLogsAssumption, RoundsBetween
<1>6. CASE rows = {}
  <2>1. Cardinality(rows) = 0
    BY <1>6, FS_EmptySet
  <2> QED
    BY <1>3, <1>4, <2>1, ApiLogsAssumption DEF TableBounded
<1>7. CASE swept = {} /\ rows # {}
  <2>1. lastId <= Retention + out + PruneEvery - 1
    <3>1. CASE lastId <= Retention
      BY <1>1, <1>4, <3>1, ApiLogsAssumption
    <3>2. CASE lastId > Retention
      <4>1. LastSwept = 0
        BY <1>7 DEF LastSwept
      <4> QED
        BY <1>1, <1>4, <1>5, <1>7, <3>2, <4>1, ApiLogsAssumption
    <3> QED
      BY <1>1, <3>1, <3>2, ApiLogsAssumption
  <2> QED
    BY <1>1, <1>3, <1>4, <1>7, <2>1, ApiLogsAssumption DEF TableBounded
<1>8. CASE swept # {} /\ rows # {}
  <2> DEFINE s == LastSwept
             low == {i \in rows : i + Retention <= s}
             high == (s - Retention) + 1 .. lastId
  <2>1. s \in swept /\ \A j \in swept : j <= s
    <3>1. \E m \in swept : \A j \in swept : j <= m
      BY <1>8 DEF BoundInv
    <3> QED
      BY <1>8, <3>1 DEF LastSwept
  <2>2. s \in Nat /\ s <= lastId /\ s > Retention
    BY <1>1, <2>1 DEF BoundInv, Prunes
  <2>3. lastId - s <= out + PruneEvery - 1
    <3>1. \A i \in s + 1 .. lastId : i \notin swept
      BY <1>1, <2>1, <2>2
    <3> QED
      BY <1>5, <2>2, <3>1, ApiLogsAssumption
  <2>4. Cardinality(Late(rows, call, s, {})) < Cardinality(Calls)
    BY <2>1 DEF BoundInv
  <2>5. IsFiniteSet(low) /\ Cardinality(low) \in Nat /\ Cardinality(low) < Cardinality(Calls)
    <3>1. low \subseteq Late(rows, call, s, {})
      BY DEF Late
    <3>2. IsFiniteSet(Late(rows, call, s, {}))
      BY <2>2, FiniteLate
    <3>3. IsFiniteSet(low) /\ Cardinality(low) <= Cardinality(Late(rows, call, s, {}))
      BY <3>1, <3>2, FS_Subset
    <3> QED
      BY <1>3, <2>4, <3>2, <3>3, FS_CardinalityType
  <2>6. IsFiniteSet(high) /\ Cardinality(high) = lastId - s + Retention
    <3>1. (s - Retention) + 1 \in Int /\ lastId \in Int /\ (s - Retention) + 1 <= lastId
      BY <1>1, <2>2, ApiLogsAssumption
    <3> QED
      BY <1>1, <2>2, <3>1, FS_Interval, ApiLogsAssumption
  <2>7. rows \subseteq low \cup high
    BY <1>1, <2>2, ApiLogsAssumption
  <2>8. Cardinality(rows) <= Cardinality(low) + Cardinality(high)
    <3>1. IsFiniteSet(low \cup high)
          /\ Cardinality(low \cup high) = Cardinality(low) + Cardinality(high) - Cardinality(low \cap high)
      BY <2>5, <2>6, FS_Union
    <3>2. Cardinality(low \cap high) \in Nat
      BY <2>5, FS_Intersection, FS_CardinalityType
    <3>3. Cardinality(rows) <= Cardinality(low \cup high)
      BY <2>7, <3>1, FS_Subset
    <3>4. Cardinality(low) \in Nat /\ Cardinality(high) \in Nat /\ Cardinality(low \cup high) \in Nat
      BY <2>5, <2>6, <3>1, FS_CardinalityType
    <3> QED
      BY <1>3, <3>1, <3>2, <3>3, <3>4
  <2> HIDE DEF s, low, high
  <2> QED
    BY <1>1, <1>3, <1>4, <2>2, <2>3, <2>5, <2>6, <2>8, ApiLogsAssumption DEF TableBounded
<1> QED
  BY <1>6, <1>7, <1>8

\* _maybe_prune bounds the table, whatever is lost and however many rounds overlap, as
\* long as the calls in flight are finitely many.
THEOREM TableIsBounded == IsFiniteSet(Calls) => (Spec => []TableBounded)
<1> SUFFICES ASSUME IsFiniteSet(Calls) PROVE Spec => []TableBounded
  OBVIOUS
<1>1. LogInv /\ BoundInv => TableBounded
  BY BoundFollows
<1> QED
  BY <1>1, LogInvHolds, BoundInvHolds, PTL
===============================================================================
