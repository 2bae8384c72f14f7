---------------------------- MODULE ApiAuthProofs ----------------------------
(***************************************************************************)
(* Proofs about ApiAuth, for any number of processes, requests and admins: *)
(* type correctness, the bound on stale entries, and that the caches       *)
(* implement access control.                                               *)
(*                                                                         *)
(* StaleEntryEnds alone is not inductive: it says nothing of requests that *)
(* carry a verdict into the cache, nor of entries whose credentials are    *)
(* still valid and may be revoked next.  AuthInv bounds both by the clock. *)
(***************************************************************************)
EXTENDS ApiAuth, TLAPS

\* No lifetime starts in the future, and no revocation lies there.
Bounded ==
  /\ \A p \in Procs, c \in Creds : cache[p][c] <= clock + CacheTtl
  /\ \A r \in Requests : request[r].pc # "idle" => 0 < request[r].now /\ request[r].now <= clock
  /\ \A c \in Creds : revoked[c] <= clock

\* What is cached is valid or runs out in time.
EntriesEnd ==
  \A p \in Procs, c \in Creds :
    cache[p][c] = 0 \/ Valid(c) \/ (revoked[c] # 0 /\ cache[p][c] <= revoked[c] + CacheTtl)

\* A verdict on its way to the cache is still true or was true after its time.
VerdictsHold ==
  \A r \in Requests :
    request[r].pc = "verifying" /\ request[r].ok =>
      Valid(request[r].cred) \/ request[r].now <= revoked[request[r].cred]

AuthInv == TypeOK /\ Bounded /\ EntriesEnd /\ VerdictsHold

Reading == [pc : {"reading"}, proc : Procs, cred : Creds, now : Nat]
Verifying == [pc : {"verifying"}, proc : Procs, cred : Creds, now : Nat, ok : BOOLEAN]
Loaded == [pc : {"loaded"}, proc : Procs, user : Users, seen : {NoAccount} \cup Account]
Committed == [pc : {"committed"}, proc : Procs]

\* What the pc of a request or of a change says of its other fields.
LEMMA PcHolds ==
  ASSUME TypeOK
  PROVE  /\ \A r \in Requests : request[r].pc = "reading" => request[r] \in Reading
         /\ \A r \in Requests : request[r].pc = "verifying" => request[r] \in Verifying
         /\ \A r \in Requests : request[r].pc # "idle" => request[r] \in Reading \cup Verifying
         /\ \A x \in Changes : change[x].pc = "loaded" => change[x] \in Loaded
         /\ \A x \in Changes : change[x].pc = "committed" => change[x] \in Committed
BY DEF TypeOK, Idle, Reading, Verifying, Loaded, Committed

LEMMA AuthInit == Init => AuthInv
<1> SUFFICES ASSUME Init PROVE AuthInv
  OBVIOUS
<1>1. TypeOK
  BY DEF Init, TypeOK, NoAccount, Idle
<1>2. Bounded /\ EntriesEnd /\ VerdictsHold
  BY AuthAssumption DEF Init, Bounded, EntriesEnd, VerdictsHold, Idle
<1> QED BY <1>1, <1>2 DEF AuthInv

\* A step of one request that leaves the caches alone.
LEMMA RequestReads ==
  ASSUME AuthInv, NEW r \in Requests,
         \/ \E p \in Procs, c \in Creds : Miss(r, p, c)
         \/ ReadAccount(r)
         \/ Refuse(r)
  PROVE  AuthInv'
<1>1. ASSUME NEW p \in Procs, NEW c \in Creds, Miss(r, p, c)  PROVE AuthInv'
  <2> DEFINE v == [pc |-> "reading", proc |-> p, cred |-> c, now |-> clock]
  <2>1. v \in Reading /\ v.pc = "reading" /\ 0 < v.now /\ v.now <= clock
    BY DEF AuthInv, TypeOK, Reading
  <2>2. /\ request' = [request EXCEPT ![r] = v]
        /\ UNCHANGED <<account, cache, change, proc, clock, commits, revoked>>
    BY <1>1 DEF Miss
  <2> HIDE DEF v
  <2>3. TypeOK'
    BY <2>1, <2>2 DEF AuthInv, TypeOK, Reading
  <2>4. Bounded' /\ EntriesEnd' /\ VerdictsHold'
    BY <2>1, <2>2 DEF AuthInv, TypeOK, Bounded, EntriesEnd, VerdictsHold, Valid
  <2> QED BY <2>3, <2>4 DEF AuthInv
<1>2. CASE ReadAccount(r)
  <2> PICK q \in Reading : q = request[r]
    BY <1>2, PcHolds DEF ReadAccount, AuthInv
  <2> DEFINE v == [pc |-> "verifying", proc |-> q.proc, cred |-> q.cred, now |-> q.now,
                   ok |-> Valid(q.cred)]
  <2>1. 0 < q.now /\ q.now <= clock /\ q.cred \in Creds /\ Valid(q.cred) \in BOOLEAN
    BY DEF AuthInv, Bounded, Reading, Valid, Accepts, TypeOK, Account, NoAccount, Creds
  <2>2. v \in Verifying /\ v.cred = q.cred /\ v.now = q.now /\ (v.ok => Valid(q.cred))
    BY <2>1 DEF Reading, Verifying
  <2>3. /\ request' = [request EXCEPT ![r] = v]
        /\ UNCHANGED <<account, cache, change, proc, clock, commits, revoked>>
    BY <1>2 DEF ReadAccount
  <2> HIDE DEF v
  <2>4. TypeOK'
    BY <2>2, <2>3 DEF AuthInv, TypeOK, Verifying
  <2>5. Bounded' /\ EntriesEnd' /\ VerdictsHold'
    BY <2>1, <2>2, <2>3 DEF AuthInv, TypeOK, Bounded, EntriesEnd, VerdictsHold, Valid
  <2> QED BY <2>4, <2>5 DEF AuthInv
<1>3. CASE Refuse(r)
  <2>1. /\ request' = [request EXCEPT ![r] = Idle]
        /\ UNCHANGED <<account, cache, change, proc, clock, commits, revoked>>
    BY <1>3 DEF Refuse
  <2>2. TypeOK'
    BY <2>1 DEF AuthInv, TypeOK
  <2>3. Bounded' /\ EntriesEnd' /\ VerdictsHold'
    BY <2>1 DEF AuthInv, TypeOK, Bounded, EntriesEnd, VerdictsHold, Valid, Idle
  <2> QED BY <2>2, <2>3 DEF AuthInv
<1> QED BY <1>1, <1>2, <1>3

\* The entry that a request writes ends CacheTtl after its own time.
LEMMA AdmitInv ==
  ASSUME AuthInv, NEW r \in Requests, Admit(r)
  PROVE  AuthInv'
<1> PICK q \in Verifying : q = request[r]
  BY PcHolds DEF Admit, AuthInv
<1>1. /\ q.ok /\ q.proc \in Procs /\ q.cred \in Creds /\ q.now \in Nat \ {0} /\ q.now <= clock
      /\ Valid(q.cred) \/ q.now <= revoked[q.cred]
  BY DEF Admit, AuthInv, Bounded, VerdictsHold, Verifying
<1>2. /\ cache' = [cache EXCEPT ![q.proc][q.cred] = q.now + CacheTtl]
      /\ request' = [request EXCEPT ![r] = Idle]
      /\ UNCHANGED <<account, change, proc, clock, commits, revoked>>
  BY DEF Admit
<1>3. cache \in [Procs -> [Creds -> Nat]] /\ q.now + CacheTtl \in Nat
  BY <1>1, AuthAssumption DEF AuthInv, TypeOK
<1>4. cache' \in [Procs -> [Creds -> Nat]]
  BY <1>1, <1>2, <1>3
<1>5. \A p \in Procs, c \in Creds :
        cache'[p][c] = IF p = q.proc /\ c = q.cred THEN q.now + CacheTtl ELSE cache[p][c]
  BY <1>1, <1>2, <1>3
<1>6. TypeOK'
  BY <1>2, <1>4 DEF AuthInv, TypeOK
<1>7. Bounded'
  BY <1>1, <1>2, <1>5, AuthAssumption DEF AuthInv, TypeOK, Bounded, Idle
<1>8. EntriesEnd'
  <2> SUFFICES ASSUME NEW p \in Procs, NEW c \in Creds
               PROVE  \/ cache'[p][c] = 0 \/ Valid(c)'
                      \/ revoked'[c] # 0 /\ cache'[p][c] <= revoked'[c] + CacheTtl
    BY DEF EntriesEnd
  <2>1. (Valid(c)' <=> Valid(c)) /\ revoked' = revoked /\ revoked[c] \in Nat
    BY <1>2 DEF Valid, AuthInv, TypeOK
  <2>2. CASE p = q.proc /\ c = q.cred
    BY <1>1, <1>5, <2>1, <2>2, AuthAssumption
  <2>3. CASE ~(p = q.proc /\ c = q.cred)
    BY <1>5, <2>1, <2>3 DEF AuthInv, EntriesEnd
  <2> QED BY <2>2, <2>3
<1>9. VerdictsHold'
  BY <1>2 DEF AuthInv, TypeOK, VerdictsHold, Valid, Idle
<1> QED BY <1>6, <1>7, <1>8, <1>9 DEF AuthInv

-----------------------------------------------------------------------------
\* A commit to the row of a login: whoever loses access does so at this moment.
LEMMA StoreInv ==
  ASSUME AuthInv, NEW u \in Users, NEW row \in {NoAccount} \cup Account,
         Store(u, row), UNCHANGED <<cache, request, clock>>
  PROVE  /\ Bounded' /\ EntriesEnd' /\ VerdictsHold'
         /\ account' \in [Users -> {NoAccount} \cup Account]
         /\ commits' \in Nat /\ revoked' \in [Creds -> Nat]
<1>1. /\ account' = [account EXCEPT ![u] = row]
      /\ commits' = commits + 1
      /\ revoked' = [c \in Creds |->
                       IF c.user = u /\ Accepts(account[u], c) /\ ~Accepts(row, c)
                       THEN clock ELSE revoked[c]]
      /\ UNCHANGED <<cache, request, clock>>
  BY DEF Store
<1>3. clock \in Nat \ {0} /\ account \in [Users -> {NoAccount} \cup Account] /\ commits \in Nat
      /\ revoked \in [Creds -> Nat] /\ cache \in [Procs -> [Creds -> Nat]]
  BY DEF AuthInv, TypeOK
<1>4. \A c \in Creds : revoked'[c] \in Nat /\ revoked[c] <= revoked'[c] /\ revoked'[c] <= clock
  BY <1>1, <1>3 DEF AuthInv, Bounded
<1>5. \A c \in Creds : Valid(c) /\ ~Valid(c)' => revoked'[c] = clock
  <2> SUFFICES ASSUME NEW c \in Creds, Valid(c), ~Valid(c)'
               PROVE  revoked'[c] = clock
    OBVIOUS
  <2>1. c.user = u
    <3>1. c.user \in Users
      BY DEF Creds
    <3>2. c.user # u => account'[c.user] = account[c.user]
      BY <1>1, <1>3, <3>1
    <3> QED BY <3>2 DEF Valid
  <2>2. Accepts(account[u], c) /\ ~Accepts(row, c)
    BY <1>1, <1>3, <2>1 DEF Valid
  <2> QED BY <1>1, <2>1, <2>2
<1>6. /\ account' \in [Users -> {NoAccount} \cup Account]
      /\ commits' \in Nat /\ revoked' \in [Creds -> Nat]
  BY <1>1, <1>3
<1>7. Bounded'
  BY <1>1, <1>4 DEF AuthInv, Bounded
<1>8. EntriesEnd'
  <2> SUFFICES ASSUME NEW p \in Procs, NEW c \in Creds
               PROVE  \/ cache'[p][c] = 0 \/ Valid(c)'
                      \/ revoked'[c] # 0 /\ cache'[p][c] <= revoked'[c] + CacheTtl
    BY DEF EntriesEnd
  <2>1. /\ cache'[p][c] = cache[p][c] /\ cache[p][c] \in Nat /\ cache[p][c] <= clock + CacheTtl
        /\ revoked[c] \in Nat /\ revoked'[c] \in Nat /\ revoked[c] <= revoked'[c]
        /\ clock \in Nat \ {0}
    BY <1>1, <1>3, <1>4 DEF AuthInv, Bounded
  <2>2. \/ cache[p][c] = 0 \/ Valid(c)
        \/ revoked[c] # 0 /\ cache[p][c] <= revoked[c] + CacheTtl
    BY DEF AuthInv, EntriesEnd
  <2> HIDE DEF Valid
  <2>3. CASE Valid(c) /\ ~Valid(c)'
    BY <1>5, <2>1, <2>3
  <2>4. CASE ~(Valid(c) /\ ~Valid(c)')
    BY <2>1, <2>2, <2>4, AuthAssumption
  <2> QED BY <2>3, <2>4
<1>9. VerdictsHold'
  <2>1. ASSUME NEW r \in Requests, request[r].pc = "verifying", request[r].ok
        PROVE  \/ Accepts(account'[request[r].cred.user], request[r].cred)
               \/ request[r].now <= revoked'[request[r].cred]
    <3> PICK w \in Verifying : w = request[r]
      BY <2>1, PcHolds DEF AuthInv
    <3>1. /\ w.cred \in Creds /\ w.now \in Nat /\ w.now <= clock
          /\ Valid(w.cred) \/ w.now <= revoked[w.cred]
      BY <2>1 DEF Verifying, AuthInv, Bounded, VerdictsHold
    <3>2. /\ revoked[w.cred] \in Nat /\ revoked'[w.cred] \in Nat
          /\ revoked[w.cred] <= revoked'[w.cred]
      BY <1>3, <1>4, <3>1
    <3>3. Valid(w.cred) => \/ Accepts(account'[w.cred.user], w.cred)
                           \/ revoked'[w.cred] = clock
      BY <1>5, <3>1 DEF Valid
    <3> QED BY <3>1, <3>2, <3>3
  <2> QED BY <1>1, <2>1 DEF VerdictsHold, Valid
<1> QED BY <1>6, <1>7, <1>8, <1>9

LEMMA CommitInv ==
  ASSUME AuthInv, NEW x \in Changes, change[x].pc = "loaded",
         NEW row \in {NoAccount} \cup Account, CommitChange(x, row)
  PROVE  AuthInv'
<1> PICK q \in Loaded : q = change[x]
  BY PcHolds DEF AuthInv
<1> DEFINE v == [pc |-> "committed", proc |-> q.proc]
<1>1. /\ Store(q.user, row)
      /\ change' = [change EXCEPT ![x] = v]
      /\ UNCHANGED <<cache, request, proc, clock>>
  BY DEF CommitChange
<1>2. q.user \in Users /\ v \in Committed
  BY DEF Loaded, Committed
<1> HIDE DEF v
<1>3. /\ Bounded' /\ EntriesEnd' /\ VerdictsHold'
      /\ account' \in [Users -> {NoAccount} \cup Account]
      /\ commits' \in Nat /\ revoked' \in [Creds -> Nat]
  BY <1>1, <1>2, StoreInv
<1>4. TypeOK'
  BY <1>1, <1>2, <1>3 DEF AuthInv, TypeOK, Committed
<1> QED BY <1>3, <1>4 DEF AuthInv

\* A change that commits stores an account, or none.
LEMMA CommitsRow ==
  ASSUME AuthInv, NEW x \in Changes,
         (\E pw \in Passwords : CreateAgent(x, pw) \/ SetPassword(x, pw))
           \/ Toggle(x) \/ DeleteAgent(x)
  PROVE  change[x].pc = "loaded" /\ \E row \in {NoAccount} \cup Account : CommitChange(x, row)
<1>1. ASSUME NEW pw \in Passwords, CreateAgent(x, pw)
      PROVE  change[x].pc = "loaded" /\ \E row \in Account : CommitChange(x, row)
  <2>1. [id |-> commits + 1, password |-> pw, active |-> TRUE] \in Account
    BY DEF AuthInv, TypeOK, Account
  <2> QED BY <1>1, <2>1 DEF CreateAgent
<1>2. ASSUME SameRow(change[x])
      PROVE  /\ change[x].pc = "loaded" /\ account[change[x].user] \in Account
             /\ change[x].seen \in Account
  <2> PICK q \in Loaded : q = change[x]
    BY <1>2, PcHolds DEF AuthInv, SameRow
  <2>1. q.user \in Users /\ q.seen \in {NoAccount} \cup Account
    BY DEF Loaded
  <2> QED BY <1>2, <2>1 DEF SameRow, AuthInv, TypeOK, NoAccount
<1>3. ASSUME NEW pw \in Passwords, SetPassword(x, pw)
      PROVE  change[x].pc = "loaded" /\ \E row \in Account : CommitChange(x, row)
  <2>1. [id |-> change[x].seen.id, password |-> pw,
         active |-> account[change[x].user].active] \in Account
    BY <1>2, <1>3 DEF SetPassword, Account
  <2> QED BY <1>2, <1>3, <2>1 DEF SetPassword
<1>4. CASE Toggle(x)
  <2>1. [id |-> change[x].seen.id, password |-> account[change[x].user].password,
         active |-> ~change[x].seen.active] \in Account
    BY <1>2, <1>4 DEF Toggle, Account
  <2> QED BY <1>2, <1>4, <2>1 DEF Toggle
<1>5. CASE DeleteAgent(x)
  BY <1>2, <1>5 DEF DeleteAgent
<1> QED BY <1>1, <1>3, <1>4, <1>5

LEMMA ChangeInv ==
  ASSUME AuthInv, NEW x \in Changes, ChangeStep(x)
  PROVE  AuthInv'
<1>1. ASSUME NEW p \in Procs, NEW u \in Users, LoadAccount(x, p, u)  PROVE AuthInv'
  <2> DEFINE v == [pc |-> "loaded", proc |-> p, user |-> u, seen |-> account[u]]
  <2>1. v \in Loaded
    BY DEF AuthInv, TypeOK, Loaded
  <2>2. /\ change' = [change EXCEPT ![x] = v]
        /\ UNCHANGED <<account, cache, request, proc, clock, commits, revoked>>
    BY <1>1 DEF LoadAccount
  <2> HIDE DEF v
  <2>3. TypeOK'
    BY <2>1, <2>2 DEF AuthInv, TypeOK, Loaded
  <2> QED BY <2>2, <2>3 DEF AuthInv, Bounded, EntriesEnd, VerdictsHold, Valid
<1>2. CASE DropChange(x)
  <2>1. TypeOK'
    BY <1>2 DEF DropChange, AuthInv, TypeOK
  <2> QED BY <1>2, <2>1 DEF DropChange, AuthInv, Bounded, EntriesEnd, VerdictsHold, Valid
<1>3. ASSUME (\E pw \in Passwords : CreateAgent(x, pw) \/ SetPassword(x, pw))
             \/ Toggle(x) \/ DeleteAgent(x)
      PROVE  AuthInv'
  BY <1>3, CommitsRow, CommitInv
<1>4. CASE DeleteMissing(x)
  <2> PICK q \in Loaded : q = change[x]
    BY <1>4, PcHolds DEF AuthInv, DeleteMissing
  <2> DEFINE v == [pc |-> "committed", proc |-> q.proc]
  <2>1. v \in Committed
    BY DEF Loaded, Committed
  <2>2. /\ change' = [change EXCEPT ![x] = v]
        /\ UNCHANGED <<account, cache, request, proc, clock, commits, revoked>>
    BY <1>4 DEF DeleteMissing
  <2> HIDE DEF v
  <2>3. TypeOK'
    BY <2>1, <2>2 DEF AuthInv, TypeOK, Committed
  <2> QED BY <2>2, <2>3 DEF AuthInv, Bounded, EntriesEnd, VerdictsHold, Valid
<1>5. CASE Invalidate(x)
  <2> PICK q \in Committed : q = change[x]
    BY <1>5, PcHolds DEF AuthInv, Invalidate
  <2>1. /\ cache' = [cache EXCEPT ![q.proc] = [c \in Creds |-> 0]]
        /\ change' = [change EXCEPT ![x] = Idle]
        /\ UNCHANGED <<account, request, proc, clock, commits, revoked>>
    BY <1>5 DEF Invalidate
  <2>2. TypeOK'
    BY <2>1 DEF AuthInv, TypeOK
  <2>3. \A p \in Procs, c \in Creds : cache'[p][c] = 0 \/ cache'[p][c] = cache[p][c]
    BY <2>1 DEF AuthInv, TypeOK
  <2> QED BY <2>1, <2>2, <2>3, AuthAssumption
          DEF AuthInv, TypeOK, Bounded, EntriesEnd, VerdictsHold, Valid
<1> QED BY <1>1, <1>2, <1>3, <1>4, <1>5 DEF ChangeStep

\* A process starts, seeds the first account, or ends.
LEMMA ProcInv ==
  ASSUME AuthInv, NEW p \in Procs, ProcStep(p)
  PROVE  AuthInv'
<1>1. CASE StartCount(p) \/ SeedConflict(p)
  <2>1. /\ proc' \in [Procs -> {"down", "seeding", "up"}]
        /\ UNCHANGED <<account, cache, request, change, clock, commits, revoked>>
    BY <1>1 DEF StartCount, SeedConflict, AuthInv, TypeOK
  <2>2. TypeOK'
    BY <2>1 DEF AuthInv, TypeOK
  <2> QED BY <2>1, <2>2 DEF AuthInv, Bounded, EntriesEnd, VerdictsHold, Valid
<1>2. CASE Seed(p)
  <2> DEFINE row == [id |-> commits + 1, password |-> SeedPassword, active |-> TRUE]
  <2>1. row \in Account
    BY AuthAssumption DEF AuthInv, TypeOK, Account
  <2>2. /\ Store(SeedLogin, row) /\ proc' \in [Procs -> {"down", "seeding", "up"}]
        /\ UNCHANGED <<cache, request, change, clock>>
    BY <1>2 DEF Seed, AuthInv, TypeOK
  <2> HIDE DEF row
  <2>3. /\ Bounded' /\ EntriesEnd' /\ VerdictsHold'
        /\ account' \in [Users -> {NoAccount} \cup Account]
        /\ commits' \in Nat /\ revoked' \in [Creds -> Nat]
    BY <2>1, <2>2, StoreInv, AuthAssumption
  <2>4. TypeOK'
    BY <2>2, <2>3 DEF AuthInv, TypeOK
  <2> QED BY <2>3, <2>4 DEF AuthInv
<1>3. CASE Stop(p)
  <2>1. TypeOK'
    BY <1>3 DEF Stop, AuthInv, TypeOK
  <2>2. \A s \in Procs, c \in Creds : cache'[s][c] = 0 \/ cache'[s][c] = cache[s][c]
    BY <1>3 DEF Stop, AuthInv, TypeOK
  <2>3. \A r \in Requests : request'[r] = request[r] \/ request'[r].pc = "idle"
    BY <1>3 DEF Stop, Idle
  <2>4. UNCHANGED <<account, clock, revoked>>
    BY <1>3 DEF Stop
  <2>5. Bounded'
    <3>1. \A s \in Procs, c \in Creds : cache'[s][c] <= clock' + CacheTtl
      BY <2>2, <2>4, AuthAssumption DEF AuthInv, TypeOK, Bounded
    <3>2. \A r \in Requests : request'[r].pc # "idle" => 0 < request'[r].now /\ request'[r].now <= clock'
      BY <2>3, <2>4 DEF AuthInv, Bounded
    <3> QED BY <2>4, <3>1, <3>2 DEF AuthInv, Bounded
  <2>6. EntriesEnd'
    BY <2>2, <2>4 DEF AuthInv, EntriesEnd, Valid
  <2>7. VerdictsHold'
    BY <2>3, <2>4 DEF AuthInv, VerdictsHold, Valid
  <2> QED BY <2>1, <2>5, <2>6, <2>7 DEF AuthInv
<1> QED BY <1>1, <1>2, <1>3 DEF ProcStep

LEMMA AuthNext == AuthInv /\ [Next]_vars => AuthInv'
<1> SUFFICES ASSUME AuthInv, [Next]_vars  PROVE AuthInv'
  OBVIOUS
<1>1. CASE Tick
  <2>1. TypeOK'
    BY <1>1 DEF Tick, AuthInv, TypeOK
  <2>2. Bounded' /\ EntriesEnd' /\ VerdictsHold'
    <3>1. /\ clock' = clock + 1 /\ clock \in Nat
          /\ UNCHANGED <<account, cache, request, change, proc, commits, revoked>>
      BY <1>1 DEF Tick, AuthInv, TypeOK
    <3>2. \A r \in Requests : request[r].pc # "idle" => request[r].now \in Nat
      BY PcHolds DEF AuthInv, Reading, Verifying
    <3> QED BY <3>1, <3>2, AuthAssumption
            DEF AuthInv, TypeOK, Bounded, EntriesEnd, VerdictsHold, Valid
  <2> QED BY <2>1, <2>2 DEF AuthInv
<1>2. ASSUME NEW r \in Requests, RequestStep(r)  PROVE AuthInv'
  BY <1>2, RequestReads, AdmitInv DEF RequestStep
<1>3. ASSUME NEW x \in Changes, ChangeStep(x)  PROVE AuthInv'
  BY <1>3, ChangeInv
<1>4. ASSUME NEW p \in Procs, ProcStep(p)  PROVE AuthInv'
  BY <1>4, ProcInv
<1>5. CASE UNCHANGED vars
  <2>1. TypeOK'
    BY <1>5 DEF vars, AuthInv, TypeOK
  <2> QED BY <1>5, <2>1 DEF vars, AuthInv, Bounded, EntriesEnd, VerdictsHold, Valid
<1> QED BY <1>1, <1>2, <1>3, <1>4, <1>5 DEF Next

THEOREM AuthInductive == Spec => []AuthInv
  BY AuthInit, AuthNext, PTL DEF Spec

\* Type correctness, for any number of processes, requests and admins.
THEOREM AuthTypeCorrect == Spec => []TypeOK
<1>1. AuthInv => TypeOK
  BY DEF AuthInv
<1> QED BY <1>1, AuthInductive, PTL

\* No process serves revoked credentials for longer than CacheTtl, and none ever serves
\* credentials that were never valid: the second
\* half of the module docstring of api_auth.py, races included.
THEOREM StaleEntriesRunOut == Spec => []StaleEntryEnds
<1>1. AuthInv => StaleEntryEnds
  <2> SUFFICES ASSUME AuthInv, NEW p \in Procs, NEW c \in Creds, Live(p, c), ~Valid(c)
               PROVE  revoked[c] # 0 /\ clock <= revoked[c] + CacheTtl
    BY DEF StaleEntryEnds
  <2>1. cache[p][c] \in Nat /\ revoked[c] \in Nat /\ clock \in Nat \ {0} /\ CacheTtl \in Nat
    BY AuthAssumption DEF AuthInv, TypeOK
  <2>2. cache[p][c] = 0 \/ (revoked[c] # 0 /\ cache[p][c] <= revoked[c] + CacheTtl)
    BY DEF AuthInv, EntriesEnd
  <2> QED BY <2>1, <2>2 DEF Live
<1> QED BY <1>1, AuthInductive, PTL

-----------------------------------------------------------------------------
(* The caches implement access control. *)

LEMMA SameCreds == Access!Creds = Creds
  BY DEF Access!Creds, Creds

\* What may be served, in terms of the rows.
LEMMA MayServe ==
  ASSUME NEW c \in Creds, NEW now
  PROVE  Access!May(c, now) <=>
           Valid(c) \/ (revoked[c] # 0 /\ now <= revoked[c] + CacheTtl)
BY SameCreds DEF Access!May, Standing

\* A step that leaves rows, caches and time alone.
LEMMA AccessStutters ==
  ASSUME UNCHANGED <<account, revoked, cache, clock>>
  PROVE  UNCHANGED <<Standing, Served, clock>>
BY DEF Standing, Served, Valid, Live

\* A step that takes entries out of the cache of one process.
LEMMA CacheForgets ==
  ASSUME NEW p \in Procs, UNCHANGED <<account, revoked, clock>>,
         \A s \in Procs, c \in Creds : Live(s, c)' => Live(s, c),
         \A s \in Procs, c \in Creds : s # p => (Live(s, c)' <=> Live(s, c))
  PROVE  Access!Forget(p)
<1> DEFINE kept == Served'[p]
<1>1. kept \in SUBSET Served[p]
  BY DEF Served
<1>2. Served' = [Served EXCEPT ![p] = kept]
  BY DEF Served
<1>3. UNCHANGED <<Standing, clock>>
  BY DEF Standing, Valid
<1> HIDE DEF kept
<1> QED BY <1>1, <1>2, <1>3 DEF Access!Forget

LEMMA AdmitServes ==
  ASSUME AuthInv, NEW r \in Requests, Admit(r)
  PROVE  \E p \in Procs : Access!Forget(p) \/ \E c \in Creds : Access!Serve(p, c)
<1> PICK q \in Verifying : q = request[r]
  BY PcHolds DEF Admit, AuthInv
<1>1. /\ q.ok /\ q.proc \in Procs /\ q.cred \in Creds
      /\ q.now \in Nat \ {0} /\ q.now <= clock
      /\ Valid(q.cred) \/ q.now <= revoked[q.cred]
  BY DEF Admit, AuthInv, Bounded, VerdictsHold, Verifying
<1>2. /\ cache' = [cache EXCEPT ![q.proc][q.cred] = q.now + CacheTtl]
      /\ UNCHANGED <<account, clock, revoked>>
  BY DEF Admit
<1>3. /\ cache \in [Procs -> [Creds -> Nat]] /\ clock \in Nat /\ CacheTtl \in Nat
      /\ revoked[q.cred] \in Nat
  BY <1>1, AuthAssumption DEF AuthInv, TypeOK
<1>4. \A p \in Procs, c \in Creds :
        cache'[p][c] = IF p = q.proc /\ c = q.cred THEN q.now + CacheTtl ELSE cache[p][c]
  BY <1>1, <1>2, <1>3
<1>5. CASE q.now + CacheTtl >= clock
  <2>1. Access!May(q.cred, clock)
    <3>1. Valid(q.cred) \/ (revoked[q.cred] # 0 /\ clock <= revoked[q.cred] + CacheTtl)
      BY <1>1, <1>3, <1>5
    <3> QED BY <1>1, <3>1, MayServe
  <2>2. \A p \in Procs, c \in Creds : Live(p, c)' <=> Live(p, c) \/ (p = q.proc /\ c = q.cred)
    BY <1>1, <1>2, <1>3, <1>4, <1>5 DEF Live
  <2>3. Served' = [Served EXCEPT ![q.proc] = @ \cup {q.cred}]
    <3>1. ASSUME NEW p \in Procs
          PROVE  Served'[p] = IF p = q.proc THEN Served[p] \cup {q.cred} ELSE Served[p]
      BY <1>1, <2>2 DEF Served
    <3>2. Served' = [p \in Procs |-> Served'[p]] /\ Served = [p \in Procs |-> Served[p]]
      BY DEF Served
    <3> HIDE DEF Served
    <3> QED BY <1>1, <3>1, <3>2
  <2>4. UNCHANGED <<Standing, clock>>
    BY <1>2 DEF Standing, Valid
  <2>5. Access!Serve(q.proc, q.cred)
    BY <2>1, <2>3, <2>4 DEF Access!Serve
  <2> QED BY <1>1, <2>5
<1>6. CASE ~(q.now + CacheTtl >= clock)
  <2>1. \A p \in Procs, c \in Creds :
          Live(p, c)' <=> Live(p, c) /\ ~(p = q.proc /\ c = q.cred)
    BY <1>1, <1>2, <1>3, <1>4, <1>6 DEF Live
  <2>2. Access!Forget(q.proc)
    BY <1>1, <1>2, <2>1, CacheForgets
  <2> QED BY <1>1, <2>2
<1> QED BY <1>5, <1>6

\* A commit is an edit of its login.
LEMMA StoreEdits ==
  ASSUME AuthInv, NEW u \in Users, NEW row \in {NoAccount} \cup Account,
         Store(u, row), UNCHANGED <<cache, clock>>
  PROVE  Access!Edit(u)
<1> DEFINE pws == IF row.id # 0 /\ row.active THEN {row.password} ELSE {}
<1>1. pws \in {{}} \cup {{pw} : pw \in Passwords}
  BY DEF NoAccount, Account
<1>2. /\ account' = [account EXCEPT ![u] = row]
      /\ revoked' = [c \in Creds |->
                       IF c.user = u /\ Accepts(account[u], c) /\ ~Accepts(row, c)
                       THEN clock ELSE revoked[c]]
      /\ account \in [Users -> {NoAccount} \cup Account] /\ revoked \in [Creds -> Nat]
  BY DEF Store, AuthInv, TypeOK
<1>3. \A c \in Creds : c.user \in Users
  BY DEF Creds
<1>4. ASSUME NEW c \in Creds, c.user # u
      PROVE  Standing'[c] = Standing[c]
  <2>1. account'[c.user] = account[c.user] /\ revoked'[c] = revoked[c]
    BY <1>2, <1>3, <1>4
  <2> QED BY <2>1 DEF Standing, Valid
<1>5. ASSUME NEW c \in Creds, c.user = u
      PROVE  Standing'[c] = [valid |-> c.password \in pws,
                        lost |-> IF Standing[c].valid /\ c.password \notin pws THEN clock ELSE Standing[c].lost]
  <2>1. account'[c.user] = row
    BY <1>2, <1>5
  <2>2. Accepts(row, c) <=> c.password \in pws
    BY DEF Accepts, NoAccount, Account
  <2> HIDE DEF pws
  <2>3. Accepts(row, c) = (c.password \in pws)
    BY <2>2 DEF Accepts, NoAccount, Account
  <2>4. Valid(c)' = (c.password \in pws)
    BY <2>1, <2>3 DEF Valid
  <2>5. revoked'[c] = IF Valid(c) /\ c.password \notin pws THEN clock ELSE revoked[c]
    BY <1>2, <1>5, <2>2 DEF Valid
  <2> QED BY <2>4, <2>5 DEF Standing
<1> HIDE DEF pws
<1>6. Standing' = [c \in Creds |->
                IF c.user # u THEN Standing[c]
                ELSE [valid |-> c.password \in pws,
                      lost |-> IF Standing[c].valid /\ c.password \notin pws
                               THEN clock ELSE Standing[c].lost]]
  BY <1>4, <1>5 DEF Standing
<1>7. UNCHANGED <<Served, clock>>
  BY DEF Served, Live
<1> QED BY <1>1, <1>6, <1>7, SameCreds DEF Access!Edit

LEMMA TickRunsOut ==
  ASSUME AuthInv, Tick
  PROVE  Access!Tick
<1>1. /\ clock' = clock + 1 /\ clock \in Nat \ {0} /\ CacheTtl \in Nat
      /\ UNCHANGED <<account, cache, revoked>>
      /\ cache \in [Procs -> [Creds -> Nat]] /\ revoked \in [Creds -> Nat]
  BY AuthAssumption DEF Tick, AuthInv, TypeOK
<1>2. Served' \in [Procs -> SUBSET Creds]
  BY DEF Served
<1>3. ASSUME NEW p \in Procs, NEW c \in Served'[p]
      PROVE  c \in Served[p] /\ Access!May(c, clock + 1)
  <2>1. c \in Creds /\ cache[p][c] >= clock + 1
    BY <1>1, <1>3 DEF Served, Live
  <2>2. c \in Served[p]
    BY <1>1, <2>1 DEF Served, Live
  <2>3. \/ cache[p][c] = 0 \/ Valid(c)
        \/ revoked[c] # 0 /\ cache[p][c] <= revoked[c] + CacheTtl
    BY <2>1 DEF AuthInv, EntriesEnd
  <2>4. Valid(c) \/ (revoked[c] # 0 /\ clock + 1 <= revoked[c] + CacheTtl)
    <3> HIDE DEF Valid
    <3>1. cache[p][c] \in Nat /\ revoked[c] \in Nat
      BY <1>1, <2>1
    <3> QED BY <1>1, <2>1, <2>3, <3>1
  <2> QED BY <2>1, <2>2, <2>4, MayServe
<1>4. Standing' = Standing
  BY <1>1 DEF Standing, Valid
<1> QED BY <1>1, <1>2, <1>3, <1>4, SameCreds DEF Access!Tick

LEMMA AccessStep ==
  AuthInv /\ [Next]_vars => [Access!Next]_<<Standing, Served, clock>>
<1> SUFFICES ASSUME AuthInv, [Next]_vars
             PROVE  Access!Next \/ UNCHANGED <<Standing, Served, clock>>
  OBVIOUS
<1>1. CASE Tick
  BY <1>1, TickRunsOut DEF Access!Next
<1>2. ASSUME NEW r \in Requests, RequestStep(r)
      PROVE  Access!Next \/ UNCHANGED <<Standing, Served, clock>>
  <2>1. CASE Admit(r)
    BY <2>1, AdmitServes, SameCreds DEF Access!Next
  <2>2. CASE ~Admit(r)
    BY <1>2, <2>2, AccessStutters DEF RequestStep, Miss, ReadAccount, Refuse
  <2> QED BY <2>1, <2>2
<1>3. ASSUME NEW x \in Changes, ChangeStep(x)
      PROVE  Access!Next \/ UNCHANGED <<Standing, Served, clock>>
  <2>1. CASE (\E p \in Procs, u \in Users : LoadAccount(x, p, u)) \/ DropChange(x) \/ DeleteMissing(x)
    BY <2>1, AccessStutters DEF LoadAccount, DropChange, DeleteMissing
  <2>2. ASSUME NEW row \in {NoAccount} \cup Account, change[x].pc = "loaded", CommitChange(x, row)
        PROVE  Access!Next
    <3>1. change[x].user \in Users
      BY <2>2, PcHolds DEF AuthInv, Loaded
    <3> QED BY <2>2, <3>1, StoreEdits DEF CommitChange, Access!Next
  <2>3. ASSUME (\E pw \in Passwords : CreateAgent(x, pw) \/ SetPassword(x, pw))
               \/ Toggle(x) \/ DeleteAgent(x)
        PROVE  Access!Next
    BY <2>2, <2>3, CommitsRow
  <2>4. CASE Invalidate(x)
    <3> PICK q \in Committed : q = change[x]
      BY <2>4, PcHolds DEF AuthInv, Invalidate
    <3>1. /\ cache' = [cache EXCEPT ![q.proc] = [c \in Creds |-> 0]] /\ q.proc \in Procs
          /\ UNCHANGED <<account, clock, revoked>>
      BY <2>4 DEF Invalidate, Committed
    <3>2. Access!Forget(q.proc)
      <4>1. cache \in [Procs -> [Creds -> Nat]] /\ clock \in Nat \ {0}
        BY DEF AuthInv, TypeOK
      <4>2. \A s \in Procs, c \in Creds :
              cache'[s][c] = IF s = q.proc THEN 0 ELSE cache[s][c]
        BY <3>1, <4>1
      <4> QED BY <3>1, <4>1, <4>2, CacheForgets DEF Live
    <3> QED BY <3>1, <3>2 DEF Access!Next
  <2> QED BY <1>3, <2>1, <2>3, <2>4 DEF ChangeStep
<1>4. ASSUME NEW p \in Procs, ProcStep(p)
      PROVE  Access!Next \/ UNCHANGED <<Standing, Served, clock>>
  <2>1. CASE StartCount(p) \/ SeedConflict(p)
    BY <2>1, AccessStutters DEF StartCount, SeedConflict
  <2>2. CASE Seed(p)
    <3>1. [id |-> commits + 1, password |-> SeedPassword, active |-> TRUE] \in Account
      BY AuthAssumption DEF AuthInv, TypeOK, Account
    <3> QED BY <2>2, <3>1, StoreEdits, AuthAssumption DEF Seed, Access!Next
  <2>3. CASE Stop(p)
    <3>1. cache \in [Procs -> [Creds -> Nat]] /\ clock \in Nat \ {0}
      BY DEF AuthInv, TypeOK
    <3>2. /\ UNCHANGED <<account, clock, revoked>>
          /\ \A s \in Procs, c \in Creds :
               cache'[s][c] = IF s = p THEN 0 ELSE cache[s][c]
      BY <2>3, <3>1 DEF Stop
    <3>3. Access!Forget(p)
      BY <3>1, <3>2, CacheForgets DEF Live
    <3> QED BY <3>3 DEF Access!Next
  <2> QED BY <1>4, <2>1, <2>2, <2>3 DEF ProcStep
<1>5. CASE UNCHANGED vars
  BY <1>5, AccessStutters DEF vars
<1> QED BY <1>1, <1>2, <1>3, <1>4, <1>5 DEF Next

\* The caches of any number of processes, with verifications that overlap changes,
\* restarts and the seed of the first account, implement access control.
THEOREM CachesImplementAccess == Spec => ImplementsAccess
<1>1. ASSUME Init  PROVE Access!Init
  <2>1. \A c \in Creds : Valid(c) = FALSE /\ revoked[c] = 0
    BY <1>1 DEF Init, Valid, Accepts, NoAccount, Creds
  <2>2. \A p \in Procs, c \in Creds : ~Live(p, c)
    BY <1>1 DEF Init, Live
  <2>3. Standing = [c \in Creds |-> [valid |-> FALSE, lost |-> 0]]
    BY <2>1 DEF Standing
  <2>4. Served = [p \in Procs |-> {}]
    BY <2>2 DEF Served
  <2> QED BY <1>1, <2>3, <2>4, SameCreds DEF Init, Access!Init
<1> QED BY <1>1, AccessStep, AuthInductive, PTL DEF Spec, ImplementsAccess, Access!Spec

-----------------------------------------------------------------------------
(* What it takes for a change to act at once. *)

\* No change is under way while a verification works on its copy of a hash.
VerifiesAlone ==
  \A r \in Requests, x \in Changes :
    ~(request[r].pc = "verifying" /\ change[x].pc = "loaded")

\* Until a cache is due to be cleared, all of it is valid, and so is every verdict.
AtOnceInv ==
  /\ \/ \E x \in Changes : change[x].pc = "committed"
     \/ \A p \in Procs, c \in Creds : cache[p][c] = 0 \/ Valid(c)
  /\ \A r \in Requests :
       request[r].pc = "verifying" /\ request[r].ok => Valid(request[r].cred)

LEMMA AtOnceInit == Init => AtOnceInv
BY DEF Init, AtOnceInv, Idle

\* A step that stores no row and clears no cache.
LEMMA AtOnceRequest ==
  ASSUME AuthInv, AtOnceInv, NEW r \in Requests, RequestStep(r)
  PROVE  AtOnceInv'
<1>1. ASSUME NEW p \in Procs, NEW c \in Creds, Miss(r, p, c)  PROVE AtOnceInv'
  <2>1. /\ \A q \in Requests : request'[q] = request[q] \/ request'[q].pc = "reading"
        /\ UNCHANGED <<account, cache, change>>
    BY <1>1 DEF Miss, AuthInv, TypeOK
  <2> QED BY <2>1 DEF AtOnceInv, Valid
<1>2. CASE ReadAccount(r)
  <2> PICK q \in Reading : q = request[r]
    BY <1>2, PcHolds DEF ReadAccount, AuthInv
  <2>1. /\ request'[r].cred = q.cred /\ request'[r].ok = Valid(q.cred)
        /\ \A w \in Requests : w # r => request'[w] = request[w]
        /\ UNCHANGED <<account, cache, change>>
    BY <1>2 DEF ReadAccount, AuthInv, TypeOK
  <2> QED BY <2>1 DEF AtOnceInv, Valid
<1>3. CASE Admit(r)
  <2> PICK q \in Verifying : q = request[r]
    BY <1>3, PcHolds DEF Admit, AuthInv
  <2>1. /\ q.proc \in Procs /\ q.cred \in Creds /\ Valid(q.cred)
        /\ cache' = [cache EXCEPT ![q.proc][q.cred] = q.now + CacheTtl]
        /\ UNCHANGED <<account, change>>
        /\ \A w \in Requests : request'[w] = request[w] \/ request'[w].pc = "idle"
    BY <1>3 DEF Admit, AuthInv, TypeOK, AtOnceInv, Verifying, Idle
  <2>2. \A p \in Procs, c \in Creds : cache'[p][c] = cache[p][c] \/ c = q.cred
    BY <2>1 DEF AuthInv, TypeOK
  <2> QED BY <2>1, <2>2 DEF AtOnceInv, Valid
<1>4. CASE Refuse(r)
  <2>1. /\ \A q \in Requests : request'[q] = request[q] \/ request'[q].pc = "idle"
        /\ UNCHANGED <<account, cache, change>>
    BY <1>4 DEF Refuse, AuthInv, TypeOK, Idle
  <2> QED BY <2>1 DEF AtOnceInv, Valid
<1> QED BY <1>1, <1>2, <1>3, <1>4 DEF RequestStep

\* A commit finds no verdict on its way, and the cache of the one process is cleared
\* after it.
LEMMA AtOnceChange ==
  ASSUME \A p, q \in Procs : p = q, AuthInv, AtOnceInv, VerifiesAlone,
         NEW x \in Changes, ChangeStep(x)
  PROVE  AtOnceInv'
<1>1. ASSUME NEW row, CommitChange(x, row), change[x].pc = "loaded"  PROVE AtOnceInv'
  <2>1. change'[x].pc = "committed" /\ UNCHANGED <<cache, request>>
    BY <1>1 DEF CommitChange, AuthInv, TypeOK
  <2>2. \A r \in Requests : request[r].pc # "verifying"
    BY <1>1 DEF VerifiesAlone
  <2> QED BY <2>1, <2>2 DEF AtOnceInv
<1>2. ASSUME UNCHANGED <<account, cache, request>>, change[x].pc # "committed",
             \A y \in Changes : y # x => change'[y] = change[y]
      PROVE  AtOnceInv'
  BY <1>2 DEF AtOnceInv, Valid
<1>3. ASSUME NEW p \in Procs, NEW u \in Users, LoadAccount(x, p, u)  PROVE AtOnceInv'
  BY <1>2, <1>3 DEF LoadAccount, AuthInv, TypeOK
<1>4. CASE DropChange(x) \/ DeleteMissing(x)
  BY <1>2, <1>4 DEF DropChange, DeleteMissing, AuthInv, TypeOK
<1>5. ASSUME (\E pw \in Passwords : CreateAgent(x, pw) \/ SetPassword(x, pw))
             \/ Toggle(x) \/ DeleteAgent(x)
      PROVE  AtOnceInv'
  BY <1>1, <1>5, CommitsRow
<1>6. CASE Invalidate(x)
  <2> PICK q \in Committed : q = change[x]
    BY <1>6, PcHolds DEF AuthInv, Invalidate
  <2>1. /\ cache' = [cache EXCEPT ![q.proc] = [c \in Creds |-> 0]] /\ q.proc \in Procs
        /\ UNCHANGED <<account, request>>
    BY <1>6 DEF Invalidate, Committed
  <2>2. \A p \in Procs, c \in Creds : cache'[p][c] = 0
    BY <2>1 DEF AuthInv, TypeOK
  <2> QED BY <2>1, <2>2 DEF AtOnceInv, Valid
<1> QED BY <1>3, <1>4, <1>5, <1>6 DEF ChangeStep

LEMMA AtOnceProc ==
  ASSUME \A p, q \in Procs : p = q, AuthInv, AtOnceInv, NEW p \in Procs, ProcStep(p)
  PROVE  AtOnceInv'
<1>1. CASE StartCount(p) \/ SeedConflict(p)
  BY <1>1 DEF StartCount, SeedConflict, AtOnceInv, Valid
<1>2. CASE Seed(p)
  <2>1. /\ account[SeedLogin].id = 0 /\ UNCHANGED <<cache, request, change>>
        /\ \A u \in Users : u # SeedLogin => account'[u] = account[u]
    BY <1>2 DEF Seed, Store, AuthInv, TypeOK
  <2>2. ASSUME NEW c \in Creds, Valid(c)  PROVE Valid(c)'
    <3>1. c.user \in Users /\ c.user # SeedLogin
      BY <2>1, <2>2 DEF Creds, Valid, Accepts
    <3> QED BY <2>1, <2>2, <3>1 DEF Valid
  <2>3. \A r \in Requests : request[r].pc = "verifying" => request[r].cred \in Creds
    BY PcHolds DEF AuthInv, Verifying
  <2>4. \A r \in Requests :
          request[r].pc = "verifying" /\ request[r].ok => Valid(request[r].cred)'
    <3> SUFFICES ASSUME NEW r \in Requests, request[r].pc = "verifying", request[r].ok
                 PROVE  Valid(request[r].cred)'
      OBVIOUS
    <3> PICK c \in Creds : c = request[r].cred
      BY <2>3
    <3>1. Valid(c)'
      BY <2>2 DEF AtOnceInv
    <3>2. request'[r].cred = c
      BY <2>1
    <3> QED BY <3>1, <3>2 DEF Valid
  <2>5. \/ \E x \in Changes : change'[x].pc = "committed"
        \/ \A q \in Procs, c \in Creds : cache'[q][c] = 0 \/ Valid(c)'
    BY <2>1, <2>2 DEF AtOnceInv
  <2> QED BY <2>1, <2>4, <2>5 DEF AtOnceInv
<1>3. CASE Stop(p)
  <2>1. \A q \in Procs, c \in Creds : cache'[q][c] = 0
    BY <1>3 DEF Stop, AuthInv, TypeOK
  <2>2. /\ UNCHANGED account
        /\ \A r \in Requests : request'[r] = request[r] \/ request'[r].pc = "idle"
    BY <1>3 DEF Stop, Idle
  <2> QED BY <2>1, <2>2 DEF AtOnceInv, Valid
<1> QED BY <1>1, <1>2, <1>3 DEF ProcStep

\* The first half of the docstring of api_auth.py ("отключение/смена пароля действуют
\* сразу") for one process, and the overlap that breaks it: as long as no change that
\* may still commit overlaps a verification that works on its copy, what the process
\* serves from its cache is valid once the cache is not due to be cleared.  Time,
\* restarts and changes that overlap each other do no harm, nor does a request that has
\* not read the account yet.
THEOREM ActsAtOnceAlone ==
  ASSUME \A p, q \in Procs : p = q
  PROVE  Spec /\ []VerifiesAlone => []InvalidatedAtOnce
<1>1. ASSUME AuthInv, AtOnceInv, VerifiesAlone, [Next]_vars  PROVE AtOnceInv'
  <2>1. CASE Tick
    BY <1>1, <2>1 DEF Tick, AtOnceInv, Valid
  <2>2. ASSUME NEW r \in Requests, RequestStep(r)  PROVE AtOnceInv'
    BY <1>1, <2>2, AtOnceRequest
  <2>3. ASSUME NEW x \in Changes, ChangeStep(x)  PROVE AtOnceInv'
    BY <1>1, <2>3, AtOnceChange
  <2>4. ASSUME NEW p \in Procs, ProcStep(p)  PROVE AtOnceInv'
    BY <1>1, <2>4, AtOnceProc
  <2>5. CASE UNCHANGED vars
    BY <1>1, <2>5 DEF vars, AtOnceInv, Valid
  <2> QED BY <1>1, <2>1, <2>2, <2>3, <2>4, <2>5 DEF Next
<1>2. ASSUME AuthInv, AtOnceInv  PROVE InvalidatedAtOnce
  BY <1>2 DEF AuthInv, TypeOK, AtOnceInv, InvalidatedAtOnce, Live
<1> QED BY <1>1, <1>2, AtOnceInit, AuthInductive, PTL DEF Spec
==============================================================================
