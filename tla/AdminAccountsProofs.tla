------------------------- MODULE AdminAccountsProofs -------------------------
(***************************************************************************)
(* Proofs about AdminAccounts for any number of logins, browsers, requests *)
(* in flight and processes.                                                *)
(*                                                                         *)
(* A session comes back to life only if a new hash equals an old stamp.    *)
(* AdminInv therefore bounds the salt of every stamp, in a cookie or on    *)
(* its way to one, by the commits so far.  For the last administrator it   *)
(* adds that a request that counted does not delete its own login.         *)
(***************************************************************************)
EXTENDS AdminAccounts, TLAPS

Old(s, n) == s.login # NoLogin => s.stamp.salt <= n

StampsOld ==
  /\ \A u \in Logins : Exists(u) => admin[u].hash.salt <= commits
  /\ \A b \in Browsers : Old(cookie[b], commits)
  /\ \A r \in Requests : request[r].pc # "idle" => Old(request[r].session, commits)

NotOneself(q) == q.pc = "counted" => q.me.login # q.user.login

CountedOthers == \A r \in Requests : NotOneself(request[r])

AdminInv == TypeOK /\ StampsOld /\ CountedOthers

InFlight == Sent \cup Authorised \cup Targeting

-----------------------------------------------------------------------------
\* What the pc of a request says of its other fields.
LEMMA PcHolds ==
  ASSUME TypeOK, NEW r \in Requests
  PROVE  /\ request[r].pc \in {"sent", "answering"} => request[r] \in Sent
         /\ request[r].pc = "authorised" => request[r] \in Authorised
         /\ request[r].pc \in {"target", "counted"} => request[r] \in Targeting
         /\ request[r].pc # "idle" =>
              /\ request[r] \in InFlight
              /\ request[r].browser \in Browsers
              /\ request[r].proc \in Procs
              /\ request[r].session \in {NoSession} \cup Session
BY DEF TypeOK, Idle, Sent, Authorised, Targeting, InFlight

LEMMA CopyTyped ==
  ASSUME TypeOK, NEW u \in Logins, Exists(u)
  PROVE  CopyOf(u) \in Copy
BY DEF TypeOK, Exists, NoAdmin, AdminUser, CopyOf, Copy

LEMMA AdminInit == Init => AdminInv
<1> SUFFICES ASSUME Init PROVE AdminInv
  OBVIOUS
<1>1. TypeOK
  BY DEF Init, TypeOK
<1>2. StampsOld /\ CountedOthers
  BY DEF Init, StampsOld, CountedOthers, NotOneself, Exists, NoAdmin, Old, NoSession, Idle
<1> QED BY <1>1, <1>2 DEF AdminInv

\* A request moves on and nothing else changes.
LEMMA RequestMoves ==
  ASSUME AdminInv, NEW r \in Requests, NEW v \in {Idle} \cup InFlight,
         v.pc # "idle" => Old(v.session, commits),
         NotOneself(v),
         request' = [request EXCEPT ![r] = v],
         UNCHANGED <<admin, cookie, proc, commits>>
  PROVE  AdminInv'
<1>1. TypeOK'
  BY DEF AdminInv, TypeOK, InFlight
<1>2. \A q \in Requests : request'[q] = IF q = r THEN v ELSE request[q]
  BY DEF AdminInv, TypeOK
<1>3. StampsOld' /\ CountedOthers'
  BY <1>2 DEF AdminInv, StampsOld, CountedOthers, Exists
<1> QED BY <1>1, <1>3 DEF AdminInv

\* A reply with a session of the right type whose stamp is not of the future.
LEMMA ReplyMoves ==
  ASSUME AdminInv, NEW r \in Requests, request[r].pc # "idle",
         NEW s \in {NoSession} \cup Session, Old(s, commits),
         request' = ReplyWith(r, s),
         UNCHANGED <<admin, cookie, proc, commits>>
  PROVE  AdminInv'
<1> DEFINE v == [pc |-> "answering", browser |-> request[r].browser,
                 proc |-> request[r].proc, session |-> s]
<1>1. v \in Sent
  BY PcHolds DEF AdminInv, Sent
<1>2. v.pc = "answering" /\ v.session = s
  OBVIOUS
<1>3. request' = [request EXCEPT ![r] = v]
  BY DEF ReplyWith
<1> HIDE DEF v
<1> QED BY <1>1, <1>2, <1>3, RequestMoves DEF InFlight, NotOneself

\* A commit: the row carries a fresh salt, and so does the session if it is new.
LEMMA CommitMoves ==
  ASSUME AdminInv, NEW r \in Requests, request[r].pc # "idle",
         NEW u \in Logins, NEW row \in {NoAdmin} \cup AdminUser,
         row.id # 0 => row.hash.salt = commits + 1,
         NEW s \in {NoSession} \cup Session, Old(s, commits + 1),
         CommitAdmin(r, u, row, s)
  PROVE  AdminInv'
<1> DEFINE v == [pc |-> "answering", browser |-> request[r].browser,
                 proc |-> request[r].proc, session |-> s]
<1>1. v \in Sent /\ v.pc = "answering" /\ v.session = s
  BY PcHolds DEF AdminInv, Sent
<1>2. /\ request' = [request EXCEPT ![r] = v]
      /\ admin' = [admin EXCEPT ![u] = row]
      /\ commits' = commits + 1
      /\ UNCHANGED <<cookie, proc>>
  BY DEF CommitAdmin, ReplyWith
<1> HIDE DEF v
<1>3. TypeOK'
  BY <1>1, <1>2 DEF AdminInv, TypeOK
<1>4. /\ \A q \in Requests : request'[q] = IF q = r THEN v ELSE request[q]
      /\ \A w \in Logins : admin'[w] = IF w = u THEN row ELSE admin[w]
  BY <1>2 DEF AdminInv, TypeOK
<1>5. \A w \in Logins : Exists(w) => admin[w].hash.salt \in Nat
  BY DEF AdminInv, TypeOK, Exists, NoAdmin, AdminUser, Hash
<1>6. \A z \in {NoSession} \cup Session : Old(z, commits) => Old(z, commits + 1)
  BY DEF AdminInv, TypeOK, Old, NoSession, Session, Hash
<1>7. \A w \in Logins : Exists(w)' => admin'[w].hash.salt <= commits'
  BY <1>2, <1>4, <1>5 DEF AdminInv, TypeOK, StampsOld, Exists
<1>8. \A b \in Browsers : Old(cookie[b], commits)'
  BY <1>2, <1>6 DEF AdminInv, TypeOK, StampsOld, Old
<1>9. \A q \in Requests : request'[q].pc # "idle" => Old(request[q].session, commits)'
  BY <1>1, <1>2, <1>4, <1>6, PcHolds DEF AdminInv, StampsOld, Old
<1>10. StampsOld'
  BY <1>7, <1>8, <1>9 DEF StampsOld
<1>11. CountedOthers'
  BY <1>1, <1>4 DEF AdminInv, CountedOthers, NotOneself
<1> QED BY <1>3, <1>10, <1>11 DEF AdminInv

-----------------------------------------------------------------------------
LEMMA ProcInv ==
  ASSUME AdminInv, NEW p \in Procs, ProcStep(p)
  PROVE  AdminInv'
<1>1. CASE StartCount(p) \/ SeedConflict(p)
  <2>1. UNCHANGED <<admin, cookie, request, commits>>
    BY <1>1 DEF StartCount, SeedConflict
  <2>2. TypeOK'
    BY <1>1, <2>1 DEF StartCount, SeedConflict, AdminInv, TypeOK
  <2> QED BY <2>1, <2>2 DEF AdminInv, StampsOld, CountedOthers, Exists
<1>2. CASE Seed(p)
  <2> DEFINE row == [id |-> commits + 1, hash |-> NewHash(SeedPassword)]
  <2>1. /\ admin' = [admin EXCEPT ![SeedLogin] = row]
        /\ proc' = [proc EXCEPT ![p] = "up"]
        /\ commits' = commits + 1
        /\ UNCHANGED <<cookie, request>>
    BY <1>2 DEF Seed
  <2>2. row \in AdminUser /\ row.hash.salt = commits + 1 /\ commits \in Nat
    BY AdminsAssumption DEF AdminInv, TypeOK, AdminUser, NewHash, Hash
  <2> HIDE DEF row
  <2>3. TypeOK'
    <3>1. admin' \in [Logins -> {NoAdmin} \cup AdminUser]
      BY <2>1, <2>2 DEF AdminInv, TypeOK
    <3>2. proc' \in [Procs -> {"down", "seeding", "up"}] /\ commits' \in Nat
      BY <2>1, <2>2 DEF AdminInv, TypeOK
    <3> QED BY <2>1, <3>1, <3>2 DEF AdminInv, TypeOK
  <2>4. \A w \in Logins : admin'[w] = IF w = SeedLogin THEN row ELSE admin[w]
    BY <2>1 DEF AdminInv, TypeOK
  <2>5. \A w \in Logins : Exists(w) => admin[w].hash.salt \in Nat
    BY DEF AdminInv, TypeOK, Exists, NoAdmin, AdminUser, Hash
  <2>6. \A z \in {NoSession} \cup Session : Old(z, commits) => Old(z, commits + 1)
    BY <2>2 DEF Old, NoSession, Session, Hash
  <2>7. \A w \in Logins : Exists(w)' => admin'[w].hash.salt <= commits'
    BY <2>1, <2>2, <2>4, <2>5 DEF AdminInv, StampsOld, Exists
  <2>8. \A b \in Browsers : Old(cookie[b], commits)'
    BY <2>1, <2>6 DEF AdminInv, TypeOK, StampsOld, Old
  <2>9. \A q \in Requests : request'[q].pc # "idle" => Old(request[q].session, commits)'
    BY <2>1, <2>6, PcHolds DEF AdminInv, StampsOld, Old
  <2>10. StampsOld'
    BY <2>7, <2>8, <2>9 DEF StampsOld
  <2> QED BY <2>1, <2>3, <2>10 DEF AdminInv, CountedOthers
<1>3. CASE Stop(p)
  <2>1. UNCHANGED <<admin, cookie, commits>>
    BY <1>3 DEF Stop
  <2>2. TypeOK'
    BY <1>3 DEF Stop, AdminInv, TypeOK
  <2>3. \A r \in Requests : request'[r] = request[r] \/ request'[r].pc = "idle"
    BY <1>3 DEF Stop, Idle
  <2> QED BY <2>1, <2>2, <2>3 DEF AdminInv, StampsOld, CountedOthers, NotOneself, Exists
<1> QED BY <1>1, <1>2, <1>3 DEF ProcStep

\* The steps before a request is authorised.
LEMMA BeforeInv ==
  ASSUME AdminInv, NEW r \in Requests,
         \/ \E b \in Browsers, p \in Procs : Send(r, b, p)
         \/ Untouched(r) \/ Logout(r) \/ Authorise(r) \/ Reject(r)
         \/ \E u \in Logins, pw \in Passwords : Login(r, u, pw)
  PROVE  AdminInv'
<1>1. ASSUME NEW b \in Browsers, NEW p \in Procs, Send(r, b, p)  PROVE AdminInv'
  <2> DEFINE v == [pc |-> "sent", browser |-> b, proc |-> p, session |-> cookie[b]]
  <2>1. v \in Sent /\ v.pc = "sent" /\ Old(v.session, commits)
    BY DEF AdminInv, TypeOK, StampsOld, Sent
  <2>2. request' = [request EXCEPT ![r] = v] /\ UNCHANGED <<admin, cookie, proc, commits>>
    BY <1>1 DEF Send
  <2> HIDE DEF v
  <2> QED BY <2>1, <2>2, RequestMoves DEF InFlight, NotOneself
<1>2. CASE Untouched(r)
  <2>1. /\ request[r].pc # "idle" /\ Old(request[r].session, commits)
        /\ request[r].session \in {NoSession} \cup Session
    BY <1>2, PcHolds DEF Untouched, AdminInv, StampsOld
  <2> QED BY <1>2, <2>1, ReplyMoves DEF Untouched
<1>3. CASE Logout(r) \/ Reject(r)
  <2>1. Old(NoSession, commits)
    BY DEF Old, NoSession
  <2> QED BY <1>3, <2>1, ReplyMoves DEF Logout, Reject
<1>4. CASE Authorise(r)
  <2> PICK q \in Sent : q = request[r]
    BY <1>4, PcHolds DEF Authorise, AdminInv
  <2> DEFINE v == [pc |-> "authorised", browser |-> q.browser, proc |-> q.proc,
                   session |-> q.session, me |-> CopyOf(q.session.login)]
  <2>1. q.session \in Session /\ Exists(q.session.login) /\ Old(q.session, commits)
    BY <1>4 DEF Authorise, Valid, AdminInv, StampsOld, Sent, NoSession
  <2>2. CopyOf(q.session.login) \in Copy
    BY <2>1, CopyTyped DEF AdminInv, Session
  <2>3. v \in Authorised /\ v.pc = "authorised" /\ v.session = q.session
    BY <2>1, <2>2 DEF Authorised, Sent
  <2>4. request' = [request EXCEPT ![r] = v] /\ UNCHANGED <<admin, cookie, proc, commits>>
    BY <1>4 DEF Authorise
  <2> HIDE DEF v
  <2> QED BY <2>1, <2>3, <2>4, RequestMoves DEF InFlight, NotOneself
<1>5. ASSUME NEW u \in Logins, NEW pw \in Passwords, Login(r, u, pw)  PROVE AdminInv'
  <2>1. /\ LoginSession(u, admin[u].hash) \in Session
        /\ Old(LoginSession(u, admin[u].hash), commits)
    BY <1>5 DEF Login, AdminInv, TypeOK, StampsOld, Exists, NoAdmin, AdminUser,
                LoginSession, Session, Old
  <2> QED BY <1>5, <2>1, ReplyMoves DEF Login
<1> QED BY <1>1, <1>2, <1>3, <1>4, <1>5

\* The commits of an authorised request.
LEMMA ChangeInv ==
  ASSUME AdminInv, NEW r \in Requests,
         \/ \E u \in Logins, pw \in Passwords : CreateAdmin(r, u, pw)
         \/ \E current, pw \in Passwords : ChangeOwnPassword(r, current, pw)
         \/ \E pw \in Passwords : ResetPassword(r, pw)
         \/ DeleteAdmin(r)
  PROVE  AdminInv'
<1>1. \A pw \in Passwords : NewHash(pw) \in Hash /\ NewHash(pw).salt = commits + 1
  BY DEF AdminInv, TypeOK, NewHash, Hash
<1>2. commits \in Nat
  BY DEF AdminInv, TypeOK
<1>3. request[r].pc # "idle" =>
        request[r].session \in {NoSession} \cup Session /\ Old(request[r].session, commits + 1)
  BY <1>2, PcHolds DEF AdminInv, StampsOld, Old, NoSession, Session, Hash
<1>4. ASSUME NEW u \in Logins, NEW pw \in Passwords, CreateAdmin(r, u, pw)  PROVE AdminInv'
  <2>1. [id |-> commits + 1, hash |-> NewHash(pw)] \in AdminUser
    BY <1>1, <1>2 DEF AdminUser
  <2> QED BY <1>1, <1>3, <1>4, <2>1, CommitMoves DEF CreateAdmin
<1>5. ASSUME NEW current \in Passwords, NEW pw \in Passwords, ChangeOwnPassword(r, current, pw)
      PROVE  AdminInv'
  <2> PICK me \in Copy : me = request[r].me
    BY <1>5, PcHolds DEF ChangeOwnPassword, AdminInv, Authorised
  <2>1. /\ [id |-> me.id, hash |-> NewHash(pw)] \in AdminUser
        /\ LoginSession(me.login, NewHash(pw)) \in Session
        /\ Old(LoginSession(me.login, NewHash(pw)), commits + 1)
        /\ me.login \in Logins
    BY <1>1, <1>2 DEF Copy, AdminUser, LoginSession, Session, Old
  <2> QED BY <1>1, <1>5, <2>1, CommitMoves DEF ChangeOwnPassword
<1>6. ASSUME NEW pw \in Passwords, ResetPassword(r, pw)  PROVE AdminInv'
  <2> PICK user \in Copy : user = request[r].user
    BY <1>6, PcHolds DEF ResetPassword, AdminInv, Targeting
  <2>1. [id |-> user.id, hash |-> NewHash(pw)] \in AdminUser /\ user.login \in Logins
    BY <1>1 DEF Copy, AdminUser
  <2> QED BY <1>1, <1>3, <1>6, <2>1, CommitMoves DEF ResetPassword
<1>7. CASE DeleteAdmin(r)
  <2> PICK user \in Copy : user = request[r].user
    BY <1>7, PcHolds DEF DeleteAdmin, AdminInv, Targeting
  <2>1. user.login \in Logins /\ NoAdmin.id = 0
    BY DEF Copy, NoAdmin
  <2> QED BY <1>3, <1>7, <2>1, CommitMoves DEF DeleteAdmin
<1> QED BY <1>4, <1>5, <1>6, <1>7

\* The other steps of an authorised request, and its end.
LEMMA AfterInv ==
  ASSUME AdminInv, NEW r \in Requests,
         \/ \E u \in Logins : GetAdmin(r, u)
         \/ Page(r) \/ CountAdmins(r) \/ DeleteMissing(r) \/ Answer(r) \/ Drop(r)
  PROVE  AdminInv'
<1>1. request[r].pc # "idle" =>
        request[r].session \in {NoSession} \cup Session /\ Old(request[r].session, commits)
  BY PcHolds DEF AdminInv, StampsOld
<1>2. CASE Page(r) \/ DeleteMissing(r)
  <2>1. /\ request[r].pc # "idle"
        /\ request' = ReplyWith(r, request[r].session)
        /\ UNCHANGED <<admin, cookie, proc, commits>>
    BY <1>2 DEF Page, DeleteMissing
  <2> QED BY <1>1, <2>1, ReplyMoves
<1>3. ASSUME NEW u \in Logins, GetAdmin(r, u)  PROVE AdminInv'
  <2> PICK q \in Authorised : q = request[r]
    BY <1>3, PcHolds DEF GetAdmin, AdminInv
  <2> DEFINE v == [pc |-> "target", browser |-> q.browser, proc |-> q.proc,
                   session |-> q.session, me |-> q.me, user |-> CopyOf(u)]
  <2>1. CopyOf(u) \in Copy
    BY <1>3, CopyTyped DEF GetAdmin, AdminInv
  <2>2. v \in Targeting /\ v.pc = "target" /\ v.session = q.session
    BY <2>1 DEF Authorised, Targeting
  <2>3. /\ Old(q.session, commits)
        /\ request' = [request EXCEPT ![r] = v] /\ UNCHANGED <<admin, cookie, proc, commits>>
    BY <1>1, <1>3 DEF GetAdmin
  <2> HIDE DEF v
  <2> QED BY <2>2, <2>3, RequestMoves DEF InFlight, NotOneself
<1>4. CASE CountAdmins(r)
  <2> PICK q \in Targeting : q = request[r]
    BY <1>4, PcHolds DEF CountAdmins, AdminInv
  <2> DEFINE v == [pc |-> "counted", browser |-> q.browser, proc |-> q.proc,
                   session |-> q.session, me |-> q.me, user |-> q.user]
  <2>1. v \in Targeting /\ v.session = q.session
    BY DEF Targeting
  <2>2. NotOneself(v)
    BY <1>4 DEF CountAdmins, MayDelete, NotOneself
  <2>3. /\ Old(q.session, commits)
        /\ request' = [request EXCEPT ![r] = v] /\ UNCHANGED <<admin, cookie, proc, commits>>
    BY <1>1, <1>4 DEF CountAdmins
  <2> HIDE DEF v
  <2> QED BY <2>1, <2>2, <2>3, RequestMoves DEF InFlight
<1>5. CASE Answer(r)
  <2>1. /\ cookie' = [cookie EXCEPT ![request[r].browser] = request[r].session]
        /\ request' = [request EXCEPT ![r] = Idle]
        /\ UNCHANGED <<admin, proc, commits>>
    BY <1>5 DEF Answer
  <2>2. TypeOK'
    BY <1>1, <1>5, <2>1 DEF Answer, AdminInv, TypeOK
  <2>3. \A b \in Browsers : cookie'[b] = cookie[b] \/ cookie'[b] = request[r].session
    BY <2>1 DEF AdminInv, TypeOK
  <2>4. \A q \in Requests : request'[q] = request[q] \/ request'[q].pc = "idle"
    BY <2>1 DEF AdminInv, TypeOK, Idle
  <2>5. request[r].pc # "idle"
    BY <1>5 DEF Answer
  <2>6. StampsOld' /\ CountedOthers'
    BY <1>1, <2>1, <2>3, <2>4, <2>5
       DEF AdminInv, StampsOld, CountedOthers, NotOneself, Exists
  <2> QED BY <2>2, <2>6 DEF AdminInv
<1>6. CASE Drop(r)
  BY <1>6, RequestMoves DEF Drop, NotOneself, Idle
<1> QED BY <1>2, <1>3, <1>4, <1>5, <1>6

LEMMA AdminNext == AdminInv /\ [Next]_vars => AdminInv'
<1> SUFFICES ASSUME AdminInv, [Next]_vars  PROVE AdminInv'
  OBVIOUS
<1>1. ASSUME NEW p \in Procs, ProcStep(p)  PROVE AdminInv'
  BY <1>1, ProcInv
<1>2. ASSUME NEW r \in Requests, RequestStep(r)  PROVE AdminInv'
  <2>1. CASE \/ \E b \in Browsers, p \in Procs : Send(r, b, p)
             \/ Untouched(r) \/ Logout(r) \/ Authorise(r) \/ Reject(r)
             \/ \E u \in Logins, pw \in Passwords : Login(r, u, pw)
    BY <2>1, BeforeInv
  <2>2. CASE \/ \E u \in Logins, pw \in Passwords : CreateAdmin(r, u, pw)
             \/ \E current, pw \in Passwords : ChangeOwnPassword(r, current, pw)
             \/ \E pw \in Passwords : ResetPassword(r, pw)
             \/ DeleteAdmin(r)
    BY <2>2, ChangeInv
  <2>3. CASE \/ \E u \in Logins : GetAdmin(r, u)
             \/ Page(r) \/ CountAdmins(r) \/ DeleteMissing(r) \/ Answer(r) \/ Drop(r)
    BY <2>3, AfterInv
  <2> QED BY <1>2, <2>1, <2>2, <2>3 DEF RequestStep
<1>3. CASE UNCHANGED vars
  <2>1. TypeOK'
    BY <1>3 DEF vars, AdminInv, TypeOK
  <2> QED BY <1>3, <2>1 DEF vars, AdminInv, StampsOld, CountedOthers, Exists
<1> QED BY <1>1, <1>2, <1>3 DEF Next

THEOREM AdminInductive == Spec => []AdminInv
  BY AdminInit, AdminNext, PTL DEF Spec

\* Type correctness of accounts, cookies, requests and processes.
THEOREM AdminTypeCorrect == Spec => []TypeOK
<1>1. AdminInv => TypeOK
  BY DEF AdminInv
<1> QED BY <1>1, AdminInductive, PTL

-----------------------------------------------------------------------------
\* What a step may do to an account: nothing, remove it, or give it a fresh salt.
LEMMA AccountChanges ==
  ASSUME AdminInv, [Next]_vars, NEW u \in Logins, admin'[u] # admin[u]
  PROVE  admin'[u].id = 0 \/ admin'[u].hash.salt = commits + 1
<1>1. ASSUME NEW r \in Requests, NEW w, NEW row, NEW s, CommitAdmin(r, w, row, s),
             row.id = 0 \/ row.hash.salt = commits + 1
      PROVE  admin'[u].id = 0 \/ admin'[u].hash.salt = commits + 1
  BY <1>1 DEF CommitAdmin, AdminInv, TypeOK
<1>2. \A pw \in Passwords : NewHash(pw).salt = commits + 1
  BY DEF NewHash
<1>3. ASSUME NEW p \in Procs, ProcStep(p)
      PROVE  admin'[u].id = 0 \/ admin'[u].hash.salt = commits + 1
  BY <1>2, <1>3, AdminsAssumption
     DEF ProcStep, StartCount, Seed, SeedConflict, Stop, AdminInv, TypeOK
<1>4. ASSUME NEW r \in Requests, RequestStep(r)
      PROVE  admin'[u].id = 0 \/ admin'[u].hash.salt = commits + 1
  <2>1. ASSUME NEW w \in Logins, NEW pw \in Passwords, CreateAdmin(r, w, pw)
        PROVE  admin'[u].id = 0 \/ admin'[u].hash.salt = commits + 1
    BY <1>1, <1>2, <2>1 DEF CreateAdmin
  <2>2. ASSUME NEW current \in Passwords, NEW pw \in Passwords, ChangeOwnPassword(r, current, pw)
        PROVE  admin'[u].id = 0 \/ admin'[u].hash.salt = commits + 1
    BY <1>1, <1>2, <2>2 DEF ChangeOwnPassword
  <2>3. ASSUME NEW pw \in Passwords, ResetPassword(r, pw)
        PROVE  admin'[u].id = 0 \/ admin'[u].hash.salt = commits + 1
    BY <1>1, <1>2, <2>3 DEF ResetPassword
  <2>4. CASE DeleteAdmin(r)
    BY <1>1, <2>4 DEF DeleteAdmin, NoAdmin
  <2>5. CASE \/ \E b \in Browsers, p \in Procs : Send(r, b, p)
             \/ Untouched(r) \/ Logout(r) \/ Authorise(r) \/ Reject(r)
             \/ \E w \in Logins, pw \in Passwords : Login(r, w, pw)
             \/ \E w \in Logins : GetAdmin(r, w)
             \/ Page(r) \/ CountAdmins(r) \/ DeleteMissing(r) \/ Answer(r) \/ Drop(r)
    <3>1. UNCHANGED admin
      BY <2>5 DEF Send, Untouched, Logout, Authorise, Reject, Login, GetAdmin, Page,
                  CountAdmins, DeleteMissing, Answer, Drop
    <3> QED BY <3>1
  <2> QED BY <1>4, <2>1, <2>2, <2>3, <2>4, <2>5 DEF RequestStep
<1>5. CASE UNCHANGED vars
  BY <1>5 DEF vars
<1> QED BY <1>3, <1>4, <1>5 DEF Next

\* No later change of any account brings a session back, and every change of an
\* account ends the sessions it finds (README, "все сессии этого админа становятся
\* невалидными").
THEOREM EndedSessionsStayEnded == Spec => SessionsEndForGood
<1>1. ASSUME AdminInv, [Next]_vars, NEW s \in Sessions, Valid(s)'
      PROVE  Valid(s) /\ admin'[s.login] = admin[s.login]
  <2>1. s \in {NoSession} \cup Session /\ Old(s, commits)
    BY <1>1, PcHolds DEF AdminInv, TypeOK, StampsOld, Sessions
  <2>2. s \in Session
    BY <1>1, <2>1 DEF Valid, NoSession
  <2>3. /\ s.login \in Logins /\ s.login # NoLogin
        /\ admin'[s.login].id # 0 /\ admin'[s.login].hash = s.stamp
    BY <1>1, <2>2 DEF Valid, Exists, Session
  <2>4. s.stamp.salt <= commits /\ s.stamp.salt \in Nat /\ commits \in Nat
    BY <1>1, <2>1, <2>2, <2>3 DEF AdminInv, TypeOK, Old, Session, Hash
  <2>5. admin'[s.login] = admin[s.login]
    BY <1>1, <2>3, <2>4, AccountChanges
  <2> QED BY <2>3, <2>5 DEF Valid, Exists
<1>2. AdminInv /\ [Next]_vars =>
        [\A s \in Sessions : Valid(s)' => Valid(s) /\ admin'[s.login] = admin[s.login]]_vars
  BY <1>1
<1> QED BY <1>2, AdminInductive, PTL DEF Spec, SessionsEndForGood

\* The part of ChangesHitTheRowRead that speaks of one account.
HitsTheRowRead(u) ==
  /\ admin'[u].id \in {0, admin[u].id}
  /\ \E r \in Requests :
       LET q == request[r]
       IN  /\ q.pc \in {"authorised", "target", "counted"}
           /\ Subject(q).login = u
           /\ Subject(q).id = admin[u].id

\* The commit of a request for the row it read.
LEMMA CommitHits ==
  ASSUME AdminInv, NEW r \in Requests, request[r].pc \in {"authorised", "target", "counted"},
         NEW c \in Copy, c = Subject(request[r]), Stored(c),
         NEW row, row.id \in {0, c.id}, NEW s, CommitAdmin(r, c.login, row, s),
         NEW u \in Logins, admin'[u] # admin[u]
  PROVE  HitsTheRowRead(u)
<1>1. u = c.login
  BY DEF CommitAdmin, AdminInv, TypeOK
<1>2. admin'[u] = row
  BY <1>1 DEF CommitAdmin, AdminInv, TypeOK
<1> QED BY <1>1, <1>2 DEF HitsTheRowRead, Stored

\* An account that exists changes only by a request that has read its row: no seed,
\* however late, writes over it (the docstring of seed_admin), and no request hits
\* an account created under a login it saw before.
THEOREM AccountsChangeByReaders == Spec => ChangesHitTheRowRead
<1>1. ASSUME AdminInv, Next, NEW u \in Logins, Exists(u), admin'[u] # admin[u]
      PROVE  HitsTheRowRead(u)
  <2>1. ASSUME NEW p \in Procs, ProcStep(p)  PROVE FALSE
    <3>1. admin'[u] = admin[u]
      BY <1>1, <2>1 DEF ProcStep, StartCount, Seed, SeedConflict, Stop, AdminInv, TypeOK
    <3> QED BY <1>1, <3>1
  <2>2. PICK r \in Requests : RequestStep(r)
    BY <1>1, <2>1 DEF Next
  <2>3. CASE \E current, pw \in Passwords : ChangeOwnPassword(r, current, pw)
    <3> PICK current \in Passwords, pw \in Passwords : ChangeOwnPassword(r, current, pw)
      BY <2>3
    <3>1. request[r].me \in Copy /\ request[r].me = Subject(request[r])
      BY PcHolds, <1>1 DEF ChangeOwnPassword, AdminInv, Authorised, Subject
    <3> DEFINE row == [id |-> request[r].me.id, hash |-> NewHash(pw)]
    <3>2. /\ request[r].pc \in {"authorised", "target", "counted"} /\ Stored(request[r].me)
          /\ CommitAdmin(r, request[r].me.login, row,
                          LoginSession(request[r].me.login, NewHash(pw)))
      BY DEF ChangeOwnPassword
    <3>3. row.id = request[r].me.id
      OBVIOUS
    <3> HIDE DEF row
    <3> QED BY <1>1, <3>1, <3>2, <3>3, CommitHits
  <2>4. CASE \E pw \in Passwords : ResetPassword(r, pw)
    <3> PICK pw \in Passwords : ResetPassword(r, pw)
      BY <2>4
    <3>1. request[r].user \in Copy /\ request[r].user = Subject(request[r])
      BY PcHolds, <1>1 DEF ResetPassword, AdminInv, Targeting, Subject
    <3> DEFINE row == [id |-> request[r].user.id, hash |-> NewHash(pw)]
    <3>2. /\ request[r].pc \in {"authorised", "target", "counted"} /\ Stored(request[r].user)
          /\ CommitAdmin(r, request[r].user.login, row, request[r].session)
      BY DEF ResetPassword
    <3>3. row.id = request[r].user.id
      OBVIOUS
    <3> HIDE DEF row
    <3> QED BY <1>1, <3>1, <3>2, <3>3, CommitHits
  <2>5. CASE DeleteAdmin(r)
    <3>1. request[r].user \in Copy /\ request[r].user = Subject(request[r])
      BY PcHolds, <1>1, <2>5 DEF DeleteAdmin, AdminInv, Targeting, Subject
    <3>2. /\ request[r].pc \in {"authorised", "target", "counted"} /\ Stored(request[r].user)
          /\ CommitAdmin(r, request[r].user.login, NoAdmin, request[r].session)
      BY <2>5 DEF DeleteAdmin
    <3>3. NoAdmin.id = 0
      BY DEF NoAdmin
    <3> QED BY <1>1, <3>1, <3>2, <3>3, CommitHits
  <2>6. CASE \E w \in Logins, pw \in Passwords : CreateAdmin(r, w, pw)
    <3>1. admin'[u] = admin[u]
      BY <1>1, <2>6 DEF CreateAdmin, CommitAdmin, AdminInv, TypeOK
    <3> QED BY <1>1, <3>1
  <2>7. CASE \/ \E b \in Browsers, p \in Procs : Send(r, b, p)
             \/ Untouched(r) \/ Logout(r) \/ Authorise(r) \/ Reject(r)
             \/ \E w \in Logins, pw \in Passwords : Login(r, w, pw)
             \/ \E w \in Logins : GetAdmin(r, w)
             \/ Page(r) \/ CountAdmins(r) \/ DeleteMissing(r) \/ Answer(r) \/ Drop(r)
    <3>1. UNCHANGED admin
      BY <2>7 DEF Send, Untouched, Logout, Authorise, Reject, Login, GetAdmin, Page,
                  CountAdmins, DeleteMissing, Answer, Drop
    <3> QED BY <1>1, <3>1
  <2> QED BY <2>2, <2>3, <2>4, <2>5, <2>6, <2>7 DEF RequestStep
<1>2. AdminInv /\ [Next]_vars =>
        [\A u \in Logins : Exists(u) /\ admin'[u] # admin[u] => HitsTheRowRead(u)]_vars
  BY <1>1
<1> QED BY <1>2, AdminInductive, PTL DEF Spec, ChangesHitTheRowRead, HitsTheRowRead

\* A step that removes the last administrator is a DELETE whose own administrator
\* is not stored any more.
LEMMA LastRemoval ==
  ASSUME AdminInv, Next, \E u \in Logins : Exists(u), ~(\E u \in Logins : Exists(u))'
  PROVE  \E r \in Requests : request[r].pc = "counted" /\ ~Stored(request[r].me)
<1>1. PICK u \in Logins : Exists(u)
  OBVIOUS
<1>2. \A w \in Logins : admin'[w].id = 0
  BY DEF Exists
<1>3. ASSUME NEW r \in Requests, NEW w \in Logins, NEW row, NEW s, row.id # 0,
             CommitAdmin(r, w, row, s)
      PROVE  FALSE
  BY <1>2, <1>3 DEF CommitAdmin, AdminInv, TypeOK
<1>4. UNCHANGED admin => FALSE
  BY <1>1, <1>2 DEF Exists
<1>5. ASSUME NEW p \in Procs, ProcStep(p)  PROVE FALSE
  <2>1. CASE Seed(p)
    <3>1. admin'[SeedLogin].id = commits + 1 /\ commits \in Nat
      BY <2>1, AdminsAssumption DEF Seed, AdminInv, TypeOK
    <3> QED BY <3>1, <1>2, AdminsAssumption
  <2> QED BY <1>4, <1>5, <2>1 DEF ProcStep, StartCount, SeedConflict, Stop
<1>6. PICK r \in Requests : RequestStep(r)
  BY <1>5 DEF Next
<1>7. ASSUME NEW w \in Logins, NEW pw \in Passwords, CreateAdmin(r, w, pw)  PROVE FALSE
  <2>1. commits + 1 # 0
    BY DEF AdminInv, TypeOK
  <2> QED BY <1>3, <1>7, <2>1 DEF CreateAdmin
<1>8. ASSUME NEW current \in Passwords, NEW pw \in Passwords, ChangeOwnPassword(r, current, pw)
      PROVE  FALSE
  <2>1. request[r].me.id # 0 /\ request[r].me.login \in Logins
    BY <1>8, PcHolds DEF ChangeOwnPassword, AdminInv, Authorised, Copy
  <2> QED BY <1>3, <1>8, <2>1 DEF ChangeOwnPassword
<1>9. ASSUME NEW pw \in Passwords, ResetPassword(r, pw)  PROVE FALSE
  <2>1. request[r].user.id # 0 /\ request[r].user.login \in Logins
    BY <1>9, PcHolds DEF ResetPassword, AdminInv, Targeting, Copy
  <2> QED BY <1>3, <1>9, <2>1 DEF ResetPassword
<1>10. DeleteAdmin(r)
  BY <1>4, <1>6, <1>7, <1>8, <1>9
     DEF RequestStep, Send, Untouched, Logout, Authorise, Reject, Login, GetAdmin, Page,
         CountAdmins, DeleteMissing, Answer, Drop
<1>11. /\ request[r].pc = "counted"
       /\ admin' = [admin EXCEPT ![request[r].user.login] = NoAdmin]
  BY <1>10 DEF DeleteAdmin, CommitAdmin
<1>12. /\ request[r].me \in Copy
       /\ request[r].me.login # request[r].user.login
  BY <1>11, PcHolds DEF AdminInv, Targeting, CountedOthers, NotOneself
<1>13. admin[request[r].me.login].id = 0
  BY <1>2, <1>11, <1>12 DEF AdminInv, TypeOK, Copy
<1>14. ~Stored(request[r].me)
  BY <1>12, <1>13 DEF Stored, Copy
<1> QED BY <1>11, <1>14

\* A request that removes the last administrator acts for one who was removed
\* after it was authorised: alone, delete_admin keeps the promise of the README.
THEOREM LastAdminGoesByRaceOnly == Spec => EmptiedOnlyByRace
<1>1. AdminInv /\ [Next]_vars =>
        [(\E u \in Logins : Exists(u)) /\ ~(\E u \in Logins : Exists(u))' =>
           \E r \in Requests : request[r].pc = "counted" /\ ~Stored(request[r].me)]_vars
  BY LastRemoval
<1> QED BY <1>1, AdminInductive, PTL DEF Spec, EmptiedOnlyByRace

\* Whoever acts is still an administrator.
ActorsStored ==
  \A r \in Requests :
    request[r].pc \in {"authorised", "target", "counted"} => Stored(request[r].me)

AloneInv == AdminInv /\ ActorsStored /\ LastAdminStays

LEMMA ActorExists ==
  ASSUME AdminInv, ActorsStored, NEW r \in Requests,
         request[r].pc \in {"authorised", "target", "counted"}
  PROVE  request[r].me.login \in Logins /\ Exists(request[r].me.login)
BY PcHolds DEF AdminInv, ActorsStored, Authorised, Targeting, Copy, Stored, Exists

LEMMA AloneInit == Init => AloneInv
<1>1. Init => ActorsStored /\ LastAdminStays
  BY DEF Init, ActorsStored, LastAdminStays, Idle
<1> QED BY <1>1, AdminInit DEF AloneInv

\* Only a request itself could remove its administrator, and it stops acting then.
LEMMA ActorsKept ==
  ASSUME \A r, s \in Requests : r = s, AdminInv, ActorsStored, [Next]_vars
  PROVE  ActorsStored'
<1>1. ASSUME UNCHANGED <<admin, request>>  PROVE ActorsStored'
  BY <1>1 DEF ActorsStored, Stored
<1>2. ASSUME NEW p \in Procs, ProcStep(p)  PROVE ActorsStored'
  <2>1. CASE Seed(p)
    <3>1. /\ ~Exists(SeedLogin) /\ UNCHANGED request
          /\ \A u \in Logins : u # SeedLogin => admin'[u] = admin[u]
      BY <2>1 DEF Seed, AdminInv, TypeOK
    <3>2. ASSUME NEW r \in Requests, request[r].pc \in {"authorised", "target", "counted"}
          PROVE  admin'[request[r].me.login] = admin[request[r].me.login]
      BY <3>1, <3>2, ActorExists
    <3> QED BY <3>1, <3>2 DEF ActorsStored, Stored
  <2>2. CASE Stop(p)
    <3>1. /\ UNCHANGED admin
          /\ \A r \in Requests : request'[r] = request[r] \/ request'[r].pc = "idle"
      BY <2>2 DEF Stop, Idle
    <3> QED BY <3>1 DEF ActorsStored, Stored
  <2> QED BY <1>1, <1>2, <2>1, <2>2 DEF ProcStep, StartCount, SeedConflict
<1>3. ASSUME NEW r \in Requests, RequestStep(r)  PROVE ActorsStored'
  <2>1. \A q \in Requests : q = r
    OBVIOUS
  <2>2. ASSUME request'[r].pc \notin {"authorised", "target", "counted"}  PROVE ActorsStored'
    BY <2>1, <2>2 DEF ActorsStored
  <2>3. ASSUME NEW s, request' = ReplyWith(r, s)  PROVE ActorsStored'
    <3>1. request'[r].pc = "answering"
      BY <2>3 DEF ReplyWith, AdminInv, TypeOK
    <3> QED BY <2>2, <3>1
  <2>4. CASE Authorise(r)
    <3>1. UNCHANGED admin /\ request'[r].me = CopyOf(request[r].session.login)
      BY <2>4 DEF Authorise, AdminInv, TypeOK
    <3> QED BY <2>1, <3>1 DEF ActorsStored, Stored, CopyOf
  <2>5. ASSUME NEW u \in Logins, GetAdmin(r, u)  PROVE ActorsStored'
    <3>1. /\ UNCHANGED admin /\ request'[r].me = request[r].me
          /\ request[r].pc = "authorised"
      BY <2>5 DEF GetAdmin, AdminInv, TypeOK
    <3> QED BY <2>1, <3>1 DEF ActorsStored, Stored
  <2>6. CASE CountAdmins(r)
    <3>1. /\ UNCHANGED admin /\ request'[r].me = request[r].me
          /\ request[r].pc = "target"
      BY <2>6 DEF CountAdmins, AdminInv, TypeOK
    <3> QED BY <2>1, <3>1 DEF ActorsStored, Stored
  <2>7. ASSUME NEW b \in Browsers, NEW p \in Procs, Send(r, b, p)  PROVE ActorsStored'
    <3>1. request'[r].pc = "sent"
      BY <2>7 DEF Send, AdminInv, TypeOK
    <3> QED BY <2>2, <3>1
  <2>8. CASE Answer(r) \/ Drop(r)
    <3>1. request'[r].pc = "idle"
      BY <2>8 DEF Answer, Drop, Idle, AdminInv, TypeOK
    <3> QED BY <2>2, <3>1
  <2>9. CASE \/ Untouched(r) \/ Logout(r) \/ Reject(r) \/ Page(r) \/ DeleteMissing(r)
             \/ DeleteAdmin(r)
    BY <2>3, <2>9 DEF Untouched, Logout, Reject, Page, DeleteMissing, DeleteAdmin, CommitAdmin
  <2>10. CASE \/ \E u \in Logins, pw \in Passwords : Login(r, u, pw) \/ CreateAdmin(r, u, pw)
              \/ \E current, pw \in Passwords : ChangeOwnPassword(r, current, pw)
              \/ \E pw \in Passwords : ResetPassword(r, pw)
    BY <2>3, <2>10 DEF Login, CreateAdmin, ChangeOwnPassword, ResetPassword, CommitAdmin
  <2> QED BY <1>3, <2>4, <2>5, <2>6, <2>7, <2>8, <2>9, <2>10 DEF RequestStep
<1>4. CASE UNCHANGED vars
  BY <1>1, <1>4 DEF vars
<1> QED BY <1>2, <1>3, <1>4 DEF Next

\* Without an administrator nobody acts: the only commit is a seed.
LEMMA OnlySeedCommits ==
  ASSUME AdminInv, ActorsStored, [Next]_vars, ~(\E u \in Logins : Exists(u))
  PROVE  commits' = commits \/ (\E u \in Logins : Exists(u))'
<1>1. ASSUME NEW p \in Procs, ProcStep(p)
      PROVE  commits' = commits \/ (\E u \in Logins : Exists(u))'
  <2>1. CASE Seed(p)
    <3>1. admin'[SeedLogin].id = commits + 1 /\ commits \in Nat
      BY <2>1, AdminsAssumption DEF Seed, AdminInv, TypeOK
    <3> QED BY <3>1, AdminsAssumption DEF Exists
  <2> QED BY <1>1, <2>1 DEF ProcStep, StartCount, SeedConflict, Stop
<1>2. ASSUME NEW r \in Requests, RequestStep(r)  PROVE commits' = commits
  <2>1. request[r].pc \notin {"authorised", "target", "counted"}
    BY ActorExists
  <2> QED BY <1>2, <2>1
          DEF RequestStep, Send, Untouched, Logout, Authorise, Reject, Login, GetAdmin, Page,
              CountAdmins, DeleteMissing, Answer, Drop, CreateAdmin, ChangeOwnPassword,
              ResetPassword, DeleteAdmin
<1>3. CASE UNCHANGED vars
  BY <1>3 DEF vars
<1> QED BY <1>1, <1>2, <1>3 DEF Next

\* The promise of the README ("Нельзя удалить себя и последнего админа") for a panel
\* that takes one request at a time, however many processes seed it: once there has
\* been an administrator there is one.
THEOREM LastAdminStaysAlone ==
  ASSUME \A r, s \in Requests : r = s
  PROVE  Spec => []LastAdminStays
<1>1. AloneInv /\ [Next]_vars => AloneInv'
  <2> SUFFICES ASSUME AloneInv, [Next]_vars  PROVE AloneInv'
    OBVIOUS
  <2>1. AdminInv' /\ ActorsStored'
    BY AdminNext, ActorsKept DEF AloneInv
  <2>2. CASE \E u \in Logins : Exists(u)
    <3>1. CASE Next
      <4>1. ~(\E r \in Requests : request[r].pc = "counted" /\ ~Stored(request[r].me))
        BY DEF AloneInv, ActorsStored
      <4>2. (\E u \in Logins : Exists(u))'
        BY <2>2, <3>1, <4>1, LastRemoval DEF AloneInv
      <4> QED BY <2>1, <4>2 DEF AloneInv, LastAdminStays
    <3>2. CASE UNCHANGED vars
      BY <2>1, <2>2, <3>2 DEF AloneInv, LastAdminStays, vars, Exists
    <3> QED BY <3>1, <3>2
  <2>3. CASE ~(\E u \in Logins : Exists(u))
    BY <2>1, <2>3, OnlySeedCommits DEF AloneInv, LastAdminStays
  <2> QED BY <2>2, <2>3
<1>2. AloneInv => LastAdminStays
  BY DEF AloneInv
<1> QED BY <1>1, <1>2, AloneInit, PTL DEF Spec
==============================================================================
