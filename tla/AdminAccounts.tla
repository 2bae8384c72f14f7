---------------------------- MODULE AdminAccounts ----------------------------
(***************************************************************************)
(* Administrators of the web panel: their accounts (app/users.py, the      *)
(* handlers of app/routes_users.py), their sessions (app/admin_auth.py)    *)
(* and the first account a starting process seeds (app/db_init.py).        *)
(*                                                                         *)
(* A session is the content of a signed cookie: a login and a stamp of the *)
(* password hash.  A request carries the cookie its browser held when it   *)
(* was sent; its answer sets the cookie to what the handler left in        *)
(* request.session.  A browser may have several requests on their way, and *)
(* their answers arrive in any order.                                      *)
(*                                                                         *)
(* No statement here locks a row: the administrator who acts, the one acted*)
(* upon and the number of administrators are each read in a step of its own*)
(* and used in a later one.                                                *)
(***************************************************************************)
EXTENDS Naturals, FiniteSets

CONSTANTS
  Logins,
  SeedLogin,     \* ADMIN_USERNAME
  Passwords,
  SeedPassword,  \* ADMIN_PASSWORD
  Browsers,
  Requests,      \* requests in flight
  Procs,         \* server processes
  NoLogin,       \* no login in the session
  MaxCommits     \* bound: no request changes an account after this many commits

ASSUME AdminsAssumption ==
  /\ SeedLogin \in Logins
  /\ SeedPassword \in Passwords
  /\ NoLogin \notin Logins
  /\ MaxCommits \in Nat

VARIABLES
  admin,    \* admin[u]: the row of admin_users
  cookie,   \* cookie[b]: the session browser b holds
  request,  \* request[r]: where the request is
  proc,     \* proc[p]: down, seeding (it counted no administrator), or up
  commits   \* commits to admin_users; numbers rows and salts

vars == <<admin, cookie, request, proc, commits>>

-----------------------------------------------------------------------------
\* What bcrypt makes of a password: a salt of its own each time.  Slip: no salt.
Hash == [password : Passwords, salt : Nat]
UnsaltedHash(pw) == [password |-> pw, salt |-> 0]
NewHash(pw) == [password |-> pw, salt |-> commits + 1]

NoAdmin == [id |-> 0]
AdminUser == [id : Nat \ {0}, hash : Hash]
Exists(u) == admin[u].id # 0

NoSession == [login |-> NoLogin]
Session == [login : Logins, stamp : Hash]

\* login_session: the stamp is a function of the hash, and no two hashes share one.
LoginSession(u, hash) == [login |-> u, stamp |-> hash]

\* The test of current_admin.
Valid(s) == s.login # NoLogin /\ Exists(s.login) /\ admin[s.login].hash = s.stamp

Idle == [pc |-> "idle"]

\* What a request keeps of a row it read.
Copy == [login : Logins, id : Nat \ {0}, hash : Hash]
CopyOf(u) == [login |-> u, id |-> admin[u].id, hash |-> admin[u].hash]

\* The row a request read is still there.
Stored(c) == admin[c.login].id = c.id

Init ==
  /\ admin = [u \in Logins |-> NoAdmin]
  /\ cookie = [b \in Browsers |-> NoSession]
  /\ request = [r \in Requests |-> Idle]
  /\ proc = [p \in Procs |-> "down"]
  /\ commits = 0

-----------------------------------------------------------------------------
(* seed_admin. *)

StartCount(p) ==
  /\ proc[p] = "down"
  /\ proc' = [proc EXCEPT ![p] = IF \E u \in Logins : Exists(u) THEN "up" ELSE "seeding"]
  /\ UNCHANGED <<admin, cookie, request, commits>>

\* Slip: no unique index; a seed that comes late writes over the account.
SeedOverwrites(p) ==
  /\ proc[p] = "seeding"
  /\ admin' = [admin EXCEPT ![SeedLogin] = [id |-> commits + 1, hash |-> NewHash(SeedPassword)]]
  /\ commits' = commits + 1
  /\ proc' = [proc EXCEPT ![p] = "up"]
  /\ UNCHANGED <<cookie, request>>

Seed(p) ==
  /\ proc[p] = "seeding"
  /\ ~Exists(SeedLogin)
  /\ admin' = [admin EXCEPT ![SeedLogin] = [id |-> commits + 1, hash |-> NewHash(SeedPassword)]]
  /\ commits' = commits + 1
  /\ proc' = [proc EXCEPT ![p] = "up"]
  /\ UNCHANGED <<cookie, request>>

\* The unique index rejects the row: the start fails.
SeedConflict(p) ==
  /\ proc[p] = "seeding"
  /\ Exists(SeedLogin)
  /\ proc' = [proc EXCEPT ![p] = "down"]
  /\ UNCHANGED <<admin, cookie, request, commits>>

\* A process ends; its requests get no answer.
Stop(p) ==
  /\ proc[p] # "down"
  /\ proc' = [proc EXCEPT ![p] = "down"]
  /\ request' = [r \in Requests |->
                   IF request[r].pc # "idle" /\ request[r].proc = p THEN Idle ELSE request[r]]
  /\ UNCHANGED <<admin, cookie, commits>>

-----------------------------------------------------------------------------
(* A request and its answer. *)

Send(r, b, p) ==
  /\ request[r].pc = "idle"
  /\ proc[p] = "up"
  /\ request' = [request EXCEPT ![r] = [pc |-> "sent", browser |-> b, proc |-> p,
                                        session |-> cookie[b]]]
  /\ UNCHANGED <<admin, cookie, proc, commits>>

\* The handler returns; s is what it leaves in request.session.
ReplyWith(r, s) ==
  [request EXCEPT ![r] = [pc |-> "answering", browser |-> request[r].browser,
                          proc |-> request[r].proc, session |-> s]]

Answer(r) ==
  /\ request[r].pc = "answering"
  /\ cookie' = [cookie EXCEPT ![request[r].browser] = request[r].session]
  /\ request' = [request EXCEPT ![r] = Idle]
  /\ UNCHANGED <<admin, proc, commits>>

\* An error, a lost answer: the cookie stays as it is.
Drop(r) ==
  /\ request[r].pc # "idle"
  /\ request' = [request EXCEPT ![r] = Idle]
  /\ UNCHANGED <<admin, cookie, proc, commits>>

\* The login form, and a login that fails.
Untouched(r) ==
  /\ request[r].pc = "sent"
  /\ request' = ReplyWith(r, request[r].session)
  /\ UNCHANGED <<admin, cookie, proc, commits>>

Logout(r) ==
  /\ request[r].pc = "sent"
  /\ request' = ReplyWith(r, NoSession)
  /\ UNCHANGED <<admin, cookie, proc, commits>>

\* login_submit: the row is read, the password verified, the stamp taken from the
\* same copy.
Login(r, u, pw) ==
  /\ request[r].pc = "sent"
  /\ Exists(u)
  /\ admin[u].hash.password = pw
  /\ request' = ReplyWith(r, LoginSession(u, admin[u].hash))
  /\ UNCHANGED <<admin, cookie, proc, commits>>

\* current_admin.
Authorise(r) ==
  LET q == request[r]
  IN  /\ q.pc = "sent"
      /\ Valid(q.session)
      /\ request' = [request EXCEPT ![r] =
                       [pc |-> "authorised", browser |-> q.browser, proc |-> q.proc,
                        session |-> q.session, me |-> CopyOf(q.session.login)]]
      /\ UNCHANGED <<admin, cookie, proc, commits>>

Reject(r) ==
  /\ request[r].pc = "sent"
  /\ ~Valid(request[r].session)
  /\ request' = ReplyWith(r, NoSession)
  /\ UNCHANGED <<admin, cookie, proc, commits>>

-----------------------------------------------------------------------------
(* What an authorised request may do. *)

\* A page, a refused form.
Page(r) ==
  /\ request[r].pc \in {"authorised", "target"}
  /\ request' = ReplyWith(r, request[r].session)
  /\ UNCHANGED <<admin, cookie, proc, commits>>

\* The commit of a row for u by the request r, which then answers with s.
CommitAdmin(r, u, row, s) ==
  /\ commits < MaxCommits
  /\ admin' = [admin EXCEPT ![u] = row]
  /\ commits' = commits + 1
  /\ request' = ReplyWith(r, s)
  /\ UNCHANGED <<cookie, proc>>

\* create_admin: a login that exists is refused by the lookup or by the index.
CreateAdmin(r, u, pw) ==
  /\ request[r].pc = "authorised"
  /\ ~Exists(u)
  /\ CommitAdmin(r, u, [id |-> commits + 1, hash |-> NewHash(pw)], request[r].session)

\* account_password, change_own_password: the current password is verified on the
\* copy, and the answer carries the stamp of the new hash.
ChangeOwnPassword(r, current, pw) ==
  LET me == request[r].me
  IN  /\ request[r].pc = "authorised"
      /\ me.hash.password = current
      /\ Stored(me)
      /\ CommitAdmin(r, me.login, [id |-> me.id, hash |-> NewHash(pw)],
                     LoginSession(me.login, NewHash(pw)))

\* _get_admin, by the id the page gave.
GetAdmin(r, u) ==
  LET q == request[r]
  IN  /\ q.pc = "authorised"
      /\ Exists(u)
      /\ request' = [request EXCEPT ![r] =
                       [pc |-> "target", browser |-> q.browser, proc |-> q.proc,
                        session |-> q.session, me |-> q.me, user |-> CopyOf(u)]]
      /\ UNCHANGED <<admin, cookie, proc, commits>>

ResetPassword(r, pw) ==
  LET user == request[r].user
  IN  /\ request[r].pc = "target"
      /\ user.id # request[r].me.id
      /\ Stored(user)
      /\ CommitAdmin(r, user.login, [id |-> user.id, hash |-> NewHash(pw)], request[r].session)

\* Slip: the count alone protects the last administrator.
MayDeleteSelf(q) == Cardinality({u \in Logins : Exists(u)}) > 1

\* delete_admin up to its count: neither oneself nor the last one.
MayDelete(q) ==
  /\ q.user.login # q.me.login
  /\ Cardinality({u \in Logins : Exists(u)}) > 1

CountAdmins(r) ==
  LET q == request[r]
  IN  /\ q.pc = "target"
      /\ MayDelete(q)
      /\ request' = [request EXCEPT ![r] =
                       [pc |-> "counted", browser |-> q.browser, proc |-> q.proc,
                        session |-> q.session, me |-> q.me, user |-> q.user]]
      /\ UNCHANGED <<admin, cookie, proc, commits>>

DeleteAdmin(r) ==
  LET user == request[r].user
  IN  /\ request[r].pc = "counted"
      /\ Stored(user)
      /\ CommitAdmin(r, user.login, NoAdmin, request[r].session)

\* A DELETE that finds no row is only warned of.
DeleteMissing(r) ==
  /\ request[r].pc = "counted"
  /\ ~Stored(request[r].user)
  /\ request' = ReplyWith(r, request[r].session)
  /\ UNCHANGED <<admin, cookie, proc, commits>>

-----------------------------------------------------------------------------
ProcStep(p) == StartCount(p) \/ Seed(p) \/ SeedConflict(p) \/ Stop(p)

RequestStep(r) ==
  \/ \E b \in Browsers, p \in Procs : Send(r, b, p)
  \/ Untouched(r) \/ Logout(r) \/ Authorise(r) \/ Reject(r)
  \/ \E u \in Logins, pw \in Passwords : Login(r, u, pw) \/ CreateAdmin(r, u, pw)
  \/ \E current, pw \in Passwords : ChangeOwnPassword(r, current, pw)
  \/ \E u \in Logins : GetAdmin(r, u)
  \/ \E pw \in Passwords : ResetPassword(r, pw)
  \/ Page(r) \/ CountAdmins(r) \/ DeleteAdmin(r) \/ DeleteMissing(r)
  \/ Answer(r) \/ Drop(r)

Next == (\E p \in Procs : ProcStep(p)) \/ (\E r \in Requests : RequestStep(r))

Spec == Init /\ [][Next]_vars

-----------------------------------------------------------------------------
(* Properties. *)

Sent       == [pc : {"sent", "answering"}, browser : Browsers, proc : Procs,
               session : {NoSession} \cup Session]
Authorised == [pc : {"authorised"}, browser : Browsers, proc : Procs,
               session : Session, me : Copy]
Targeting  == [pc : {"target", "counted"}, browser : Browsers, proc : Procs,
               session : Session, me : Copy, user : Copy]

\* Every variable has its type.
TypeOK ==
  /\ admin \in [Logins -> {NoAdmin} \cup AdminUser]
  /\ cookie \in [Browsers -> {NoSession} \cup Session]
  /\ request \in [Requests -> {Idle} \cup Sent \cup Authorised \cup Targeting]
  /\ proc \in [Procs -> {"down", "seeding", "up"}]
  /\ commits \in Nat

\* Every session there is: in a cookie, or in a request whose answer may yet put it
\* into one.
Sessions ==
  {cookie[b] : b \in Browsers}
    \cup {request[r].session : r \in {q \in Requests : request[q].pc # "idle"}}

\* "После смены пароля или удаления все сессии этого админа становятся
\* невалидными", and for good: a session is valid after a step only if it was valid
\* before and the step did not touch its account.  A reset to the same password, a
\* login deleted and created again, an old password restored, a late answer that
\* puts an old session back into the cookie: none of them revives a session.
SessionsEndForGood ==
  [][\A s \in Sessions :
       Valid(s)' => Valid(s) /\ admin'[s.login] = admin[s.login]]_vars

\* The account a request is about to change, as it read it: its own, or its target's.
Subject(q) == IF q.pc = "authorised" THEN q.me ELSE q.user

\* "сменённый в админке пароль не затирается" (seed_admin), and more: an account
\* that exists changes, or goes, only by a request that has read this very row.  No
\* seed touches it, however late the process that counted no administrator comes,
\* nor does a request that read an account of the same login deleted since.
ChangesHitTheRowRead ==
  [][\A u \in Logins :
       Exists(u) /\ admin'[u] # admin[u] =>
         /\ admin'[u].id \in {0, admin[u].id}
         /\ \E r \in Requests :
              LET q == request[r]
              IN  /\ q.pc \in {"authorised", "target", "counted"}
                  /\ Subject(q).login = u
                  /\ Subject(q).id = admin[u].id]_vars

\* The last administrator goes only by a race: the request that removes it was
\* authorised as an administrator who has been removed since.
EmptiedOnlyByRace ==
  [][(\E u \in Logins : Exists(u)) /\ ~(\E u \in Logins : Exists(u))' =>
       \E r \in Requests : request[r].pc = "counted" /\ ~Stored(request[r].me)]_vars

\* "Нельзя удалить себя и последнего админа": once seeded, there is one.
LastAdminStays == commits > 0 => \E u \in Logins : Exists(u)
==============================================================================
