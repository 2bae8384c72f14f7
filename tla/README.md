# Payment-Emulator: specifications, model checks and proofs

TLA+ specifications of the payment and payout emulator in `src/` (FastAPI,
SQLAlchemy over PostgreSQL), checked with TLC on small instances and proved with
TLAPS for every value of the constants.

## 1. The system

The emulator pretends to be a payment gateway. Agents call a JSON API (HTTP Basic)
to create payments and to hand out cash against one-time PINs; administrators use a
browser panel to make codes, to repair them and to manage accounts. Everything lives in
one PostgreSQL database; several uvicorn processes may share it, and each process runs
one background task.

| component | code | state | operations that change it |
|---|---|---|---|
| payout codes | `payouts.py`, `payout_scenarios.py` | `payout_codes`, `payout_events` | `create_codes`, `block`, `pay`, `admin_unblock`, `admin_expire`, `admin_update` (`check` reads) |
| payout endpoints | `routes_payout.py` | none of their own | turn an exception into state -100 after a rollback |
| payments | `payments.py`, `scenarios.py` | `payments`, `payment_status_history` | `create_payment` |
| background task | `background.py` | its pass: delays, time, list of payments | `process_pending_once`, `status_transition_loop` |
| agent authentication | `api_auth.py` | `_cache`, one per process | `require_api_auth`, `invalidate_cache` |
| accounts | `users.py`, `routes_users.py` | `agent_accounts`, `admin_users` | create, password, toggle, delete |
| admin panel | `routes_admin.py` | `scenario_settings` | `payouts_generate`, `payout_action`, `settings_save` |
| admin sessions | `admin_auth.py` | signed cookie with a password stamp | login, logout, change of the own password |
| API log | `api_logs.py` | `api_request_log` | insert after each call, prune every `PRUNE_EVERY` ids |
| seeding | `db_init.py` | first rows of the tables | `seed_scenarios`, `seed_admin`, `seed_agent` |
| start and errors | `main.py` | the stop event of the loop | `lifespan`, `_validation_error` |

How they interact. Handlers never talk to each other: they meet in the rows of the
database (and, for one process, in `_cache`). A request is a coroutine that gives way
at every `await`, and other processes run in parallel, so between two statements of a
handler any other handler may move. What protects a row is a `SELECT ... FOR UPDATE`
(block, pay), a conditional `UPDATE` (the background task), a unique index (PIN,
idempotency key, login) or nothing (all admin actions).

What is hard, and what would make each part correct:

- *payout codes.* Two requests must not debit one balance twice; a debit must rest on
  a reservation of the same point; an admin's action is decided on a copy that may be old
  when it is written, and its form comes from a card that may be older still; a deadline
  falls between two steps; the answer of a committed call is lost and the call repeated.
- *payments.* Requests with one idempotency key overlap, or are repeated after a lost
  answer; all of them must get one payment.
- *background task.* Two instances hold one payment in their lists; a pass works with a
  clock and delays read at its start; a pass fails half way; the process is shut down, dies
  and starts again. Each payment must move exactly once, not before its delay, and
  eventually, and a shutdown must end.
- *agent authentication.* A verification takes long (bcrypt in a thread) and caches its
  verdict after the account may have changed; the cache of another process is not
  cleared. Revoked credentials must stop working within a bounded time.
- *accounts and sessions.* The last administrator must not be deleted, though the count
  is read before the delete; changing a password must end the other sessions; a process that
  counted no administrator may seed late, and must not write over an account.
- *API log.* It shares the session of the call it logs, whose work may have failed half
  way. Any of its statements may raise, rounds of pruning overlap, come late or are skipped. It
  must not fail the call, nor store what the call gave up; it must keep the newest rows, and
  stay bounded.

The complete list of hazards, with the line of code and the properties that cover each,
is `hazards` in `PROJECT.json`.

## 2. Modules

| module | what it is |
|---|---|
| `PayoutScenarios` | table of forced answers, states of the API, the OTP stub |
| `Payouts` | rows, trail, API requests in three steps, admin requests from the card to the write |
| `PayoutLedger` | abstract: issue, reserve, settle and, where there are admins, release |
| `PayoutTerminals` | `Payouts` composed with the terminals that call it over a lossy network |
| `Scenarios` | table of payment scenarios by the suffix of the requisite |
| `Payments` | `create_payment` and any number of background loops |
| `PaymentLifecycle` | abstract: accept at most once by key, settle |
| `ApiAuth` | credential caches, verification in three steps, admin changes, processes that end, start and seed |
| `AccessControl` | abstract: which credentials a process may serve without a look at the accounts |
| `AdminAccounts` | administrators, sessions in cookies, overlapping requests, the seed of the first account |
| `ApiLogs` | the log of API calls with its pruning, and the calls that write it |
| `PayoutsProofs`, `PayoutTerminalsProofs`, `PaymentsProofs`, `ApiAuthProofs`, `AdminAccountsProofs`, `ApiLogsProofs` | theorems and proofs |
| `MCPayouts`, `MCPayoutTerminals`, `MCPayments`, `MCApiAuth`, `MCAdminAccounts`, `MCApiLogs` | instances for TLC |

`map` in `PROJECT.json` names for every definition the lines it translates. A definition
with the comment "Slip" is not part of a specification: it is the form a plausible bug
would give to the definition after it, used to confirm that the properties notice it.

### Payouts

`code[p]` is the row with PIN `p`, `events[p]` its audit trail, `req[h]` what the
handler `h` holds in memory, `clock` is `utcnow()`.

- `Lock` is `get_by_pin(for_update=True)`: it waits for the row and copies it. `Refuse`
  is any early return together with the rollback of the `finally` clause, `Stage` the
  assignments, `Commit` the commit with the event. `Commit` writes the columns the
  handler assigned with values computed from the copy, as the ORM does, so the
  model notices when the copy and the row part (the slip `LockedNever`). `Fail` is an
  exception or the death of the process.
- The clock is read when the answer is computed, after the row was locked.
- `AdminOpen` is the GET of a card, which fills a form with the scenario and the OTP of the
  row. `AdminLoad` is the POST with its `_load_code`, a plain `SELECT`; `AdminUnblock`,
  `AdminExpire` and `AdminUpdate` decide on that copy and later write the changed columns,
  once no request has the row locked. `AdminUpdate` carries both fields, as the card showed
  them or as the admin set them, and writes those that differ from the copy; so a card that
  was out of date before its form arrived puts an older value back. `UntouchedFieldsStay` says
  that nothing else does: two saves that overlap leave each other's field alone.
  `AdminExpire` writes the time at which its handler ran.
- `Ledger` shows the rows as a `PayoutLedger`. `Supervised` is whether there are admins: an
  unblock is then a `Release`, which may meet a code that is free, or paid in full, by now.
- Two steps of the code are one step here where no other handler can tell: the events
  of a commit and its columns; the retry of `create_codes` after a taken PIN, which
  changes nothing until a batch of unused PINs is stored. A deadline counts from the
  commit of the batch.

### PayoutTerminals

A terminal is not in the repository; it is modelled from the README's description of the
three calls and marked external in `map`. It checks, blocks, hands out at most what the
last check offered, reports with `pay`, and repeats `pay` while it has no answer. The
handlers are those of `Payouts`, unchanged. `cash` and `booked` are history variables.

### Payments

The attempt `a` is one `POST /pay`; `payment[a]` is the row it inserted, since it draws
its own uuid. `Lookup`, `Flush` and `Insert` are separate steps. `Flush` sends the INSERT and
stamps the row: `created_at` is a default that Python evaluates then. `Insert` is the COMMIT, at
which the row becomes visible, perhaps later than it says it was created (`storedAt` remembers
when). The unique index decides (`InsertConflict` answers with the stored payment); that one
INSERT waits for the other's COMMIT is collapsed into this step. `Insert` may lose its answer, to the
refresh that follows the COMMIT or on the way.

The loop `w` goes through `ReadDelays`, `TakeTime`, `ReadPending` and then, for one
payment after another, `NotDue`, `UpdateMisses` or `Update` and `CommitTransition`.
A pass may take its time after a row was stamped, read its list before that row is committed, and
end with it pending; so `PassLeavesNoneDue` is about the payments committed before the pass took its
time, and leaves the others to the next pass. `PassFails` is an exception anywhere in a pass: the open transaction is rolled back, the
rest of the pass is dropped, and the loop goes on. `Shutdown` is the end of `lifespan`: it sets
`stop_event` (`stopping`) and waits; the pass under way goes on, and `LoopEnds` follows it.
`Crash` is the death of the process, `StartLoop` the start of another, with a new loop.

### ApiAuth

`Miss` takes the time, `ReadAccount` reads the row, `Admit` writes the cache. A change is
`LoadAccount`, a commit, and `Invalidate` in the process that made it. `Stop` empties a
process; `StartCount`, `Seed` and `SeedConflict` are the two statements of `seed_agent`, with which
it comes back. `AccessControl` knows which credentials are valid and when the others stopped
being so; `Standing` and `Served` show accounts and caches that way. Rows are numbered by commits, so that a login deleted and created again is a
new row, as ids of the table are. `revoked` is a history variable. A hash stands for its password; the description of an agent is left out.

### AdminAccounts

`admin[u]` is a row of `admin_users`, `cookie[b]` the session a browser holds, `request[r]`
a request on its way, `proc[p]` a server process. `Send` takes the cookie along,
`Authorise` and `Reject` are `current_admin`, and every answer writes `request.session` back
(Starlette's `SessionMiddleware` does so whenever the session holds something or was
cleared); answers of one browser may overtake each other. A deletion reads the row
(`GetAdmin`), counts (`CountAdmins`) and deletes (`DeleteAdmin`) in three steps, because
the code does so in three statements with no lock. A hash is a password with a fresh salt,
and the stamp in the cookie is a function of it. The lookup of a login before an INSERT
changes nothing the unique index does not decide, and is part of `CreateAdmin`.
`StartCount`, `Seed`, `SeedConflict` are the two statements of `seed_admin`. `SessionsEndForGood` is
about every session there is, in a cookie or in a request whose answer may yet put it into one.

### ApiLogs

A call `c` works, logs and is done: `call[c]` holds its session (`dirty`: uncommitted changes,
`stored`: changes of the call that were committed), its answer, and whether it `failed` (HTTP 500).
`/pay` has one more statement after its COMMIT, `Refresh`, and `RefreshRaises` is guarded by nothing:
the payment is stored and the call fails. What the work is, the other
modules say; here it is a transaction that changes something or nothing and may raise.
`Insert` and `CommitRow` are the one `commit()` of `log_api_call`: an id is drawn from the
sequence, and is lost if the commit fails. `Delete` and `CommitDelete` are `_maybe_prune`; the DELETE
finds the rows committed by then. `InsertRaises` is caught, `PruneRaises` is not: in the
code the pruning is outside the `try`. Any exception may be a connection that broke in a
COMMIT which the database carried out all the same (`broken`). `Die` is the death of the
process. The ids whose round was skipped are in the history variable `missed`, the rounds that
pruned in `swept`.

## 3. What is checked

TLC explores each instance completely (the "violation" runs until the counterexample).

| run | instance | properties | result |
|---|---|---|---|
| `payouts_api` | 1 code of 2 units, 2 sessions, 2 points, pay 0..3, 2 currencies, 2 scenarios, 2 OTPs, trail of at most 6 when a request starts | `TypeOK`, `LedgerChain`, `DebitSpendsItsBlock`, `ImplementsLedger` | hold |
| `payouts_admin` | 2 sessions and 2 admins, pay 1..2, 1 currency, 1 OTP, trail of at most 5 | `LedgerChain`, `DebitSpendsItsBlock`, `ExpiredStaysDead`, `PaidEndsOnlyByStaleUnblock`, `UntouchedFieldsStay`, `ImplementsLedger` | hold |
| `payouts_paid_final` | 1 session, 1 admin | `PaidIsFinal` | violated |
| `terminals` | 3 terminals at 3 points, any answer lost | `TermTypeOK`, `UnbookedIsHeld`, `HoldIsExclusive`, `BookedOnce`, `HonestReportAccepted` | hold |
| `terminals_shared_point` | 2 terminals that send one pointId | `BookedOnce` | violated |
| `payments_loops` | 2 loops, 2 requests with one key or two, an edit, a failed pass, shutdown or death | `TypeOK`, `OneTransition`, `NeverEarly`, `PassLeavesNoneDue`, `SameKeySamePayment`, `ImplementsLifecycle` | hold |
| `payments_liveness` | 2 loops, 1 payment that waits, an edit, two failed passes, shutdowns or deaths | `EveryPendingSettles`, `ShutdownEnds` | hold |
| `api_auth` | 2 processes, 1 request, 2 changes, 3 commits | `StaleEntryEnds`, `ImplementsAccess` | hold |
| `api_auth_at_once` | 1 process | `InvalidatedAtOnce` | violated |
| `admin_accounts` | 2 accounts, 2 browsers, 2 requests, 2 processes, 4 commits | `SessionsEndForGood`, `ChangesHitTheRowRead`, `EmptiedOnlyByRace` | hold |
| `admin_last_deleted` | the same with 1 process | `LastAdminStays` | violated |
| `api_logs` | 2 calls at a time, `RETENTION` 2, `PRUNE_EVERY` 2, 7 ids | `TypeOK`, `TableBounded`, `ErrorChangesNothing`, `FailsOnlyByPruning`, `NewestKept` | hold |

Bounds. Requests on different PINs, keys or logins share nothing but the clock, so one of
each is enough for the interleavings; two actors are enough to race. Two requests with one key
overlap at every step, or one follows the other as its retry; with two keys they are two payments
in one pass. In `payments_liveness` one payment is enough for the loops to wait for each other's row,
and two failures leave room for one in each loop. Two units are the least that
allow a part payment followed by another debit; a trail of six events holds create,
block, partial, block, paid with room for an admin's event. Four commits to `admin_users`
are a seed, a second account, and two changes: both deletions of a race, or a deletion and the
account created again; one password is the worst case, since every reset is then a reset to
the same one. Seven ids of the log hold two rounds that prune, either of which may be missed, or come
late and overlap the other. Symmetry
is declared in runs without liveness properties, over sets whose members no definition
singles out (sessions, admins, processes, requests, browsers, attempts, loops, calls). The clock always reaches
the longest lifetime or delay that a run needs to see pass: codes of `payouts_admin` expire at 1 of
2, entries of the cache live 1 of 3, and the codes of `terminals`, the longest-lived ones of
`payouts_api` and payments with the longest delay come due at the very end of the clock, which then stands still while everything else may
still happen.
`MaxTime`, `MaxEvents`, `MaxEdits`, `MaxFailures`, `MaxCommits`, `MaxIds` are the only guards that are
not in the code. They and the end of the clients' work stop the instances, so
`CHECK_DEADLOCK` is off: a state with nothing left to do is a normal end. Block, pay,
the loops and the admin's actions on a code lock one row at a time, so they cannot wait for each
other in a circle; that a wait of the loops ends is part of `EveryPendingSettles` and `ShutdownEnds`.

Fairness, in `Payments` only. `EveryPendingSettles` assumes that time passes and that each loop keeps going: the code
wakes every `POLL_INTERVAL_SECONDS` and catches every exception of a pass. Failed passes,
shutdowns and deaths are bounded in number, never excluded at any place, and nothing is
assumed of the start of a process: a payment may wait while all of them are down.
`ShutdownEnds` rests on the same: a loop that must leave its pass keeps going, and so does the
loop whose uncommitted UPDATE it may wait for.

### What the violated runs show

1. `payouts_paid_final`. The docstring of `payouts.py` draws `paid` as final. An unblock
   loaded while the code was blocked, and written after `pay` had paid it out, makes the
   code active again, with balance 0. `PaidEndsOnlyByStaleUnblock` says that this is the
   only way, and that money is never wrong because of it (`LedgerChain`); the theorem
   `PaidFinalWhenApart`, that paid is final where no pay commits under such an unblock.
2. `terminals_shared_point`. README: a repeated `pay` gets 4. `pay` knows a reservation
   by its pointId only: when the first answer was lost and another terminal of the same
   point has blocked the code again, the repetition is debited again. With a pointId for
   each terminal it cannot happen (`ReportsBookedOnce`).
3. `api_auth_at_once`. The docstring of `api_auth.py` says that a change acts at once in
   its own process. A verification that read the account before the change and ends
   after `invalidate_cache` puts the old credentials into the emptied cache. They are
   served for `CACHE_TTL` at most (`StaleEntryEnds`). Without that overlap the docstring is
   right (`ActsAtOnceAlone`).
4. `admin_last_deleted`. README: the last administrator cannot be deleted. Two of them who
   delete each other at the same time both count two, and nobody is left until a process
   starts and seeds the first account again. `EmptiedOnlyByRace` says that it takes a race, and
   `LastAdminStaysAlone` that requests one at a time keep the promise.

One more sentence of the README is true only in part: "Сбой записи лога не роняет сам
запрос". The INSERT of the log is guarded; the pruning that follows every `PRUNE_EVERY`-th one
is not (`api_logs.py`, line 94), and an error there fails a call that is already stored, also one
behind `_handle`, whose contract is to answer -100. `FailsOnlyByPruning` says where the sentence
ends: a call that has its answer fails only in a round of pruning. A call of `/check`, `/pay` or
`/status` may also fail before it has one, and `/pay` then may have stored its payment
(`payments.py`, line 76); the client's repetition finds it (`SameKeySamePayment`).

## 4. What is proved

Nothing is assumed but the ASSUMEs of the modules: amounts, delays and lifetimes are natural
numbers (the forms and schemas enforce it), the null point is no point, the scenarios
used are in the table. The sets of PINs, points, sessions, admins, attempts, keys, loops,
users, processes and requests are arbitrary, and the bounds may be any numbers. Where a theorem
has a hypothesis of its own it is named below. Each of the four promises that a run refutes has
a theorem that says under which condition it holds: `PaidFinalWhenApart`, `ReportsBookedOnce`,
`ActsAtOnceAlone`, `LastAdminStaysAlone`. The conditions exclude the one overlap the
run shows, and nothing else that the proof does not need.

- `PayoutsProofs`. `LedgerChain` and `DebitSpendsItsBlock` are about the trail alone; a
  request writes what it computed from its copy, so they are not inductive. `IInv` adds
  that the copy of a request that holds a row equals the row, that no two requests hold
  one row, that a staged request passed its checks, and that a blocked row has an open
  reservation of its point at the end of the trail. The lemmas `AccountsDebit`,
  `ReservedByBlock`, `DebitsAppend` say what appending an event does to a trail; `CommitInv`
  and the `Admin*Inv` lemmas take one action each. From `IInv`: `TypeCorrect`,
  `MoneyAccounted`, `DebitsAreReserved`, `PaidFinalButForStaleUnblock`,
  `ExpiredCodesStayDead`, `SavesKeepUntouchedFields`, and the refinement
  `HandlersImplementLedger`, for any set of admins: a commit is a `Reserve` or a `Settle` by what
  it finds in the row, an unblock is a `Release` whatever has become of the row since it was
  read, and the other writes of an admin are stutters. In `SavesKeepUntouchedFields` a field changes
  only if the form differs from the copy, hence either its admin set it, or the card differs from the
  copy and was out of date. `PaidFinalWithoutAdmins` needs
  `Admins = {}`; `PaidFinalWhenApart` has admins, and needs that no pay commits while an
  unblock that saw its code blocked is under way (`PaysApart`): then a copy that says blocked is
  never of a code paid since (`CopiesCurrent`).
- `PaymentsProofs`. `PayInv` adds to the type that keys are unique among stored payments,
  that a payment in a pass has a row whose suffix waits, and that the row of an
  uncommitted UPDATE is still pending, due, and held by one loop only. From it:
  `IdempotentReplies`, `ExactlyOneTransition`, `SettlesInTime`, and the refinement
  `HandlersImplementLifecycle`. `PassesOverlookNothing` adds `Covers`: from the moment a pass has its
  list, a payment that is pending, was committed before the pass took its time and is due by its clock
  and delays is on the list still to do, or under its own uncommitted UPDATE. It survives a row that another
  loop holds, because an UPDATE waits for it, and another loop's rollback.
- `ApiAuthProofs`. `AuthInv` adds that no time lies in the future, that an entry of revoked
  credentials ends at most `CacheTtl` after the revocation, and that a positive verdict in
  progress was true when it was read, hence not revoked before the request took its time.
  From it: `AuthTypeCorrect`, `StaleEntriesRunOut`, and the refinement `CachesImplementAccess`, with
  one lemma for each kind of step: an entry is written (`AdmitServes`), entries go (`CacheForgets`),
  a row is stored (`StoreEdits`), time passes (`TickRunsOut`). `ActsAtOnceAlone` is for one
  process, and for behaviours in which no change that may still commit overlaps a
  verification that works on its copy (`VerifiesAlone`): every verdict on its way is then
  true, and while no cache is due to be cleared every entry is (`AtOnceInv`).
- `AdminAccountsProofs`. `AdminInv` bounds the salt of every stamp, in a cookie or in a
  request, by the number of commits, so that a new hash never equals an old stamp; and a
  request that counted does not delete its own login. From it: `AdminTypeCorrect`,
  `EndedSessionsStayEnded`, `AccountsChangeByReaders`, `LastAdminGoesByRaceOnly`. For one request at a time, with any
  number of browsers and of processes that seed: whoever acts is still stored (`ActorsStored`),
  hence `LastAdminStaysAlone`.
- `PayoutTerminalsProofs`. `TerminalsUsePayouts` first: a behaviour of the composition is one of
  `Payouts`, so that `IInv` holds. `TermInv` then ties the two sides together: the request of a terminal
  is the one its visit says it sent (`Link`); a terminal that checked under its block, or holds cash,
  holds the row at that amount (`VisitInv`, `Mine`); and the cash handed out for a code is what its
  debits account for, plus what one terminal has still to report (`CashInv`). It needs
  `DistinctPoints`, that no two terminals send one pointId: without it `terminals_shared_point`
  shows the opposite. From it: `CashIsBookedOrHeld`, `HoldsAreExclusive`, `ReportsBookedOnce`.
  `ReportInv` says in addition what a terminal that reports sends, and gives `HonestReportsAccepted`.
  `CheckedCashIsCovered` says what the second check is for: if no terminal hands out cash on an
  offer older than its block (`ChecksUnderBlock`), no code costs more cash than it was issued with.
  A terminal that skips the check may hand out an offer spent since, for a block names no
  amount; so the condition is one on the clients, which the API does not enforce.
  `TermTypeCorrect` and `TerminalsImplementLedger` need neither assumption.
- `ApiLogsProofs`. `LogInv` says of each call what its place in the code implies of its answer,
  its session and its id, and that the rows it is about to delete are old enough; since ids
  only grow they stay so. From it: `LogTypeCorrect`, `ErrorsChangeNothing`,
  `LogFailsByPruningOnly`, `NewestRowsKept`. `TableIsBounded` counts rows without an induction
  over the rounds: `BoundInv` says that beside the ids above the cutoff of the last DELETE
  there is at most one row for each other call, the one it was committing then (`OneLateEach`);
  that every multiple of `PRUNE_EVERY` drawn since then is outstanding; and an interval of ids is
  at most `PRUNE_EVERY` times the number of its multiples long, and `PRUNE_EVERY` - 1 more (`RoundsBetween`). It needs that the
  calls at a time are finitely many.

Only model-checked: the liveness properties `EveryPendingSettles` and `ShutdownEnds`
(TLAPS does not handle fairness and ENABLED). Every safety property of a passing run is
stated by a theorem. The other way round, `AuthTypeCorrect` and `AdminTypeCorrect` are proved and
belong to no run.

## 5. What is not modelled

- Presentation, templates, logging to files, formatting of requisites and holder names,
  validation by pydantic, and bcrypt itself (equality of passwords): functions without
  shared state.
- Amounts of arbitrary precision: rates and commissions are shown, never computed with.
- List and detail pages, which only read, and the text of log rows. The log file.
- What a failed log does to the clients: an answer that does not arrive is in `Payments` and
  `PayoutTerminals`, for whatever reason it fails to.
- Migrations and the order of starts beyond the seeds: Alembic's own code.
- The load test, a client that keeps no state of the system.
- The scheduler of one process and the isolation level of the database beyond row locks:
  each statement is a step, which is at least as many interleavings as there are.

## 6. Plan

Done: every component whose operations change stored state, with the proofs above. What could
still be added, in this order:

1. In `AdminAccounts`: whether a browser keeps its session over its own change of password
   while other requests of it are on their way. The code promises nothing about it, so the
   question comes first.
2. A composition of `Payments` and `ApiAuth` with `ApiLogs`, in which a call is one behaviour from
   its authentication to its last row of log. The three share no state but the session.
