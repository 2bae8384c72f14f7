------------------------------- MODULE ApiAuth -------------------------------
(***************************************************************************)
(* Basic Auth of the agent API (app/api_auth.py) with the agent accounts   *)
(* an admin manages (app/users.py).                                        *)
(*                                                                         *)
(* Every process keeps a cache of credentials that passed, each with the   *)
(* moment it runs out.  A request that misses takes the time, reads the    *)
(* account in a later step, runs bcrypt in a thread, and writes the cache  *)
(* in a step after that; other requests and admins move in between.  An    *)
(* admin's change loads the account, commits in a later step, and clears   *)
(* the cache of its own process in a step of its own.  A process that      *)
(* starts counts the agents and, when there are none, inserts the first    *)
(* account (app/db_init.py, seed_agent).                                   *)
(***************************************************************************)
EXTENDS Naturals

CONSTANTS
  Users,      \* logins of agents
  Passwords,
  Procs,      \* uvicorn workers
  Requests,   \* API requests in flight
  Changes,    \* requests of admins in flight
  SeedLogin, SeedPassword,  \* API_USERNAME, API_PASSWORD
  CacheTtl,   \* CACHE_TTL
  MaxTime,    \* bound: the clock stops here
  MaxCommits  \* bound on commits to agent_accounts

ASSUME AuthAssumption ==
  /\ SeedLogin \in Users /\ SeedPassword \in Passwords
  /\ CacheTtl \in Nat \ {0} /\ MaxTime \in Nat /\ MaxCommits \in Nat

VARIABLES
  account,  \* account[u]: the row of agent_accounts
  cache,    \* cache[p][c]: when the entry of c in process p runs out, 0 for none
  request,  \* request[r]: where the API request is
  change,   \* change[x]: where the admin's request is
  proc,     \* proc[p]: whether process p is up
  clock,    \* time.monotonic(), above 0
  commits,  \* commits so far; numbers the rows
  revoked   \* history: when credentials last stopped being valid

vars == <<account, cache, request, change, proc, clock, commits, revoked>>

-----------------------------------------------------------------------------
Creds == [user : Users, password : Passwords]

NoAccount == [id |-> 0]
Account == [id : Nat \ {0}, password : Passwords, active : BOOLEAN]

\* What the database holds now, and what a copy of the row says.
Accepts(row, c) == row.id # 0 /\ row.password = c.password /\ row.active
Valid(c) == Accepts(account[c.user], c)

\* _cache.get(key, 0.0) >= now
Live(p, c) == cache[p][c] >= clock

Idle == [pc |-> "idle"]

Init ==
  /\ account = [u \in Users |-> NoAccount]
  /\ cache = [p \in Procs |-> [c \in Creds |-> 0]]
  /\ request = [r \in Requests |-> Idle]
  /\ change = [x \in Changes |-> Idle]
  /\ proc = [p \in Procs |-> "down"]
  /\ clock = 1
  /\ commits = 0
  /\ revoked = [c \in Creds |-> 0]

Tick ==
  /\ clock < MaxTime
  /\ clock' = clock + 1
  /\ UNCHANGED <<account, cache, request, change, proc, commits, revoked>>

-----------------------------------------------------------------------------
(* require_api_auth.  A hit admits the request and changes nothing. *)

Miss(r, p, c) ==
  /\ request[r].pc = "idle"
  /\ proc[p] = "up"
  /\ ~Live(p, c)
  /\ request' = [request EXCEPT ![r] = [pc |-> "reading", proc |-> p, cred |-> c, now |-> clock]]
  /\ UNCHANGED <<account, cache, change, proc, clock, commits, revoked>>

\* The SELECT; bcrypt then works on this copy of the hash.
ReadAccount(r) ==
  LET q == request[r]
  IN  /\ q.pc = "reading"
      /\ request' = [request EXCEPT ![r] = [pc |-> "verifying", proc |-> q.proc, cred |-> q.cred,
                                            now |-> q.now, ok |-> Valid(q.cred)]]
      /\ UNCHANGED <<account, cache, change, proc, clock, commits, revoked>>

\* Slip: the verdict is cached whatever it is.
RefuseCaches(r) ==
  LET q == request[r]
  IN  /\ q.pc = "verifying"
      /\ ~q.ok
      /\ cache' = [cache EXCEPT ![q.proc][q.cred] = q.now + CacheTtl]
      /\ request' = [request EXCEPT ![r] = Idle]
      /\ UNCHANGED <<account, change, proc, clock, commits, revoked>>

Refuse(r) ==
  /\ request[r].pc = "verifying"
  /\ ~request[r].ok
  /\ request' = [request EXCEPT ![r] = Idle]
  /\ UNCHANGED <<account, cache, change, proc, clock, commits, revoked>>

\* Slip: the lifetime counts from the end of bcrypt.
AdmitFromEnd(r) ==
  LET q == request[r]
  IN  /\ q.pc = "verifying"
      /\ q.ok
      /\ cache' = [cache EXCEPT ![q.proc][q.cred] = clock + CacheTtl]
      /\ request' = [request EXCEPT ![r] = Idle]
      /\ UNCHANGED <<account, change, proc, clock, commits, revoked>>

Admit(r) ==
  LET q == request[r]
  IN  /\ q.pc = "verifying"
      /\ q.ok
      /\ cache' = [cache EXCEPT ![q.proc][q.cred] = q.now + CacheTtl]
      /\ request' = [request EXCEPT ![r] = Idle]
      /\ UNCHANGED <<account, change, proc, clock, commits, revoked>>

-----------------------------------------------------------------------------
(* create_agent, set_agent_password, set_agent_active, delete_agent. *)

\* The lookup of the login, or of the row by its id.
LoadAccount(x, p, u) ==
  /\ change[x].pc = "idle"
  /\ proc[p] = "up"
  /\ commits < MaxCommits
  /\ change' = [change EXCEPT ![x] = [pc |-> "loaded", proc |-> p, user |-> u, seen |-> account[u]]]
  /\ UNCHANGED <<account, cache, request, proc, clock, commits, revoked>>

\* Nothing to do, a refused form, an error before the commit, or an UPDATE that
\* found no row.
DropChange(x) ==
  /\ change[x].pc = "loaded"
  /\ change' = [change EXCEPT ![x] = Idle]
  /\ UNCHANGED <<account, cache, request, proc, clock, commits, revoked>>

\* Commit of a new row for the login.
Store(u, row) ==
  /\ account' = [account EXCEPT ![u] = row]
  /\ commits' = commits + 1
  /\ revoked' = [c \in Creds |-> IF c.user = u /\ Accepts(account[u], c) /\ ~Accepts(row, c)
                                 THEN clock ELSE revoked[c]]

\* The handler still has to clear the cache.
CommitChange(x, row) ==
  /\ Store(change[x].user, row)
  /\ change' = [change EXCEPT ![x] = [pc |-> "committed", proc |-> change[x].proc]]
  /\ UNCHANGED <<cache, request, proc, clock>>

\* The unique index on the login rejects a second row.
CreateAgent(x, pw) ==
  LET q == change[x]
  IN  /\ q.pc = "loaded"
      /\ q.seen.id = 0 /\ account[q.user].id = 0
      /\ CommitChange(x, [id |-> commits + 1, password |-> pw, active |-> TRUE])

\* UPDATE and DELETE go by the id of the row that was loaded.
SameRow(q) == q.pc = "loaded" /\ q.seen.id # 0 /\ account[q.user].id = q.seen.id

SetPassword(x, pw) ==
  LET q == change[x]
  IN  /\ SameRow(q)
      /\ CommitChange(x, [id |-> q.seen.id, password |-> pw, active |-> account[q.user].active])

\* agent_toggle: the opposite of the copy.
Toggle(x) ==
  LET q == change[x]
  IN  /\ SameRow(q)
      /\ CommitChange(x, [id |-> q.seen.id, password |-> account[q.user].password,
                          active |-> ~q.seen.active])

DeleteAgent(x) ==
  LET q == change[x]
  IN  /\ SameRow(q)
      /\ CommitChange(x, NoAccount)

\* A DELETE that finds no row is only warned of: the handler goes on.
DeleteMissing(x) ==
  LET q == change[x]
  IN  /\ q.pc = "loaded"
      /\ q.seen.id # 0 /\ account[q.user].id # q.seen.id
      /\ change' = [change EXCEPT ![x] = [pc |-> "committed", proc |-> q.proc]]
      /\ UNCHANGED <<account, cache, request, proc, clock, commits, revoked>>

\* invalidate_cache, in the process that made the change.
Invalidate(x) ==
  LET p == change[x].proc
  IN  /\ change[x].pc = "committed"
      /\ cache' = [cache EXCEPT ![p] = [c \in Creds |-> 0]]
      /\ change' = [change EXCEPT ![x] = Idle]
      /\ UNCHANGED <<account, request, proc, clock, commits, revoked>>

-----------------------------------------------------------------------------
(* A process: seed_agent at its start, and its end. *)

StartCount(p) ==
  /\ proc[p] = "down"
  /\ proc' = [proc EXCEPT ![p] = IF \E u \in Users : account[u].id # 0 THEN "up" ELSE "seeding"]
  /\ UNCHANGED <<account, cache, request, change, clock, commits, revoked>>

Seed(p) ==
  /\ proc[p] = "seeding"
  /\ account[SeedLogin].id = 0
  /\ Store(SeedLogin, [id |-> commits + 1, password |-> SeedPassword, active |-> TRUE])
  /\ proc' = [proc EXCEPT ![p] = "up"]
  /\ UNCHANGED <<cache, request, change, clock>>

\* The unique index rejects the row: the start fails.
SeedConflict(p) ==
  /\ proc[p] = "seeding"
  /\ account[SeedLogin].id # 0
  /\ proc' = [proc EXCEPT ![p] = "down"]
  /\ UNCHANGED <<account, cache, request, change, clock, commits, revoked>>

\* The cache and the requests of the process are gone; what it committed stays.
Stop(p) ==
  /\ proc[p] # "down"
  /\ proc' = [proc EXCEPT ![p] = "down"]
  /\ cache' = [cache EXCEPT ![p] = [c \in Creds |-> 0]]
  /\ request' = [r \in Requests |->
                   IF request[r].pc # "idle" /\ request[r].proc = p THEN Idle ELSE request[r]]
  /\ change' = [x \in Changes |->
                  IF change[x].pc # "idle" /\ change[x].proc = p THEN Idle ELSE change[x]]
  /\ UNCHANGED <<account, clock, commits, revoked>>

-----------------------------------------------------------------------------
RequestStep(r) ==
  \/ \E p \in Procs, c \in Creds : Miss(r, p, c)
  \/ ReadAccount(r)
  \/ Admit(r)
  \/ Refuse(r)

ChangeStep(x) ==
  \/ \E p \in Procs, u \in Users : LoadAccount(x, p, u)
  \/ DropChange(x)
  \/ \E pw \in Passwords : CreateAgent(x, pw) \/ SetPassword(x, pw)
  \/ Toggle(x)
  \/ DeleteAgent(x)
  \/ DeleteMissing(x)
  \/ Invalidate(x)

ProcStep(p) == StartCount(p) \/ Seed(p) \/ SeedConflict(p) \/ Stop(p)

Next ==
  \/ Tick
  \/ \E r \in Requests : RequestStep(r)
  \/ \E x \in Changes : ChangeStep(x)
  \/ \E p \in Procs : ProcStep(p)

Spec == Init /\ [][Next]_vars

-----------------------------------------------------------------------------
(* Properties. *)

\* Every variable has its type.
TypeOK ==
  /\ account \in [Users -> {NoAccount} \cup Account]
  /\ cache \in [Procs -> [Creds -> Nat]]
  /\ request \in [Requests -> {Idle}
                     \cup [pc : {"reading"}, proc : Procs, cred : Creds, now : Nat]
                     \cup [pc : {"verifying"}, proc : Procs, cred : Creds, now : Nat, ok : BOOLEAN]]
  /\ change \in [Changes -> {Idle}
                    \cup [pc : {"loaded"}, proc : Procs, user : Users,
                          seen : {NoAccount} \cup Account]
                    \cup [pc : {"committed"}, proc : Procs]]
  /\ proc \in [Procs -> {"down", "seeding", "up"}]
  /\ clock \in Nat \ {0} /\ commits \in Nat
  /\ revoked \in [Creds -> Nat]

\* "остальные процессы увидят изменение не позже чем через CACHE_TTL": credentials
\* that are served from a cache and are not valid have been valid, and stopped being
\* so at most CacheTtl ago.  It covers the process that made the change, one that died
\* before clearing its cache, and a verification that overlapped it.
StaleEntryEnds ==
  \A p \in Procs, c \in Creds :
    Live(p, c) /\ ~Valid(c) => revoked[c] # 0 /\ clock <= revoked[c] + CacheTtl

\* "отключение/смена пароля действуют сразу": with no change on its way, what a
\* process serves from its cache is valid.  (Stated for one process.)
InvalidatedAtOnce ==
  (\A x \in Changes : change[x].pc # "committed") =>
    \A p \in Procs, c \in Creds : Live(p, c) => Valid(c)

\* What the accounts and the caches look like from outside.
Standing == [c \in Creds |-> [valid |-> Valid(c), lost |-> revoked[c]]]
Served == [p \in Procs |-> {c \in Creds : Live(p, c)}]

Access == INSTANCE AccessControl WITH access <- Standing, served <- Served

\* The caches, verifications, changes and restarts implement access control: beyond
\* StaleEntryEnds, credentials enter a cache in a step that changes nothing else and
\* only while they may be served, an edit moves one login and no cache, and time only
\* takes entries away.
ImplementsAccess == Access!Spec
==============================================================================
